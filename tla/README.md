# TLA+ specification of git-events-runner

git-events-runner is a Kubernetes controller.  Triggers (on a schedule, or on a
webhook) look at git repositories and, when a watched reference has changed,
enqueue a Kubernetes Job described by an action.  This directory models the
concurrent parts of the controller, checks them with TLC and proves their safety
properties with TLAPS.  Paths below are relative to the repository; the Rust sources
are in `src/`.

## The system

| Part | Source | State | Operations | Interacts with |
|---|---|---|---|---|
| Jobs queue | `jobs.rs` | an unbounded channel behind a lock, two wake-up channels | `enqueue`, `run_queue` from two loops, shutdown | trigger tasks enqueue; creates Jobs in the API server; reads the runtime config |
| Jobs watch | `jobs.rs` | reflector store, `statuses`, the atomic `running_jobs`, `completed_count` | the handler of the watch stream | `run_queue` reads the counter, every event wakes it |
| Trigger task | `resources/trigger.rs` | the trigger's status in the API server, a copy per run | `create_trigger_task`, `update_trigger_status` | reads the API cache, fetches repositories, calls actions |
| ScheduleTrigger reconciler | `resources/trigger.rs`, `controller.rs` | `TriggersState.tasks`, `.schedules`, a scheduler | `reconcile`, `cleanup`, finalizer, `error_policy` | the kube Controller calls it in the leader |
| Main loop | `bin/git-events-runner.rs` | `is_leader`, `shutdown`, the spawned controllers | turns of the loop, signals, exit | lease manager, all long-running tasks |
| Secrets cache | `cache.rs` | a map behind a read-write lock | `get_key_value` | webhook handlers |
| Webhook server | `web.rs`, `cli.rs` | a scheduler shared by the handlers, the cells of the rate limits | start with or without TLS, three layers of rate limits, two handlers, authorization, shutdown | secrets cache, API cache, trigger task |
| Start of the process | `bin/git-events-runner.rs` | global cells that detached tasks set | `run` up to its main loop | everything that unwraps a cell |
| API cache | `cache.rs` | one reflector store per resource | `watch`, `get` | everything reads it |
| Runtime config | `config.rs` | a watch channel in a global cell | initial load, watch of the ConfigMap | queue, webhook server, the building of Jobs |
| Repositories | `git_repo.rs` | none | `fetch_repo_ref`: secrets, certificates, fetch | trigger task, cloner |
| Actions | `action.rs` | the Job that is being built | `execute`, `create_job_spec` | trigger task, runtime config, queue |
| Cloner | `bin/gitrepo-cloner.rs` | none | one clone in the Job's init container | API server, repositories |
| Diagnostics, metrics, CRDs | `controller.rs`, `lib.rs` | none that matters here | | |

What is hard to test here: values that are read from a cache that lags behind
and written back as a whole; two loops and many threads around one queue; a
counter that follows a watch which may lose events; reconciles that fail half
way; leadership that moves while work is in flight; handlers that are dropped in
the middle; a shutdown that waits only for so long; a config that is read part by
part while it is replaced; a Job that runs much later than the change it was made
for, in another process; cells that somebody else must have set.  `PROJECT.json` lists these
hazards line by line.

## Modules

| Module | Models | Properties |
|---|---|---|
| `JobsWatch` | handler of the watch stream, with the cluster's Jobs, undelivered events and re-lists | `CounterIsSlots`, `KnownUnfinishedHoldSlots`, `CaughtUpCount`, `CompletedOnce`, `NoSlotAfterCompletion`, `SlotsAreReleased` |
| `JobsQueue` (extends `JobsWatch`) | `enqueue` and `run_queue` on top of it | `RecvNeverBlocks`, `OvershootBounded`, `EveryJobSettles` |
| `WaitingQueue` | abstract: what the queue promises to those who enqueue | |
| `QueueRefinement` (extends `JobsQueue`) | the refinement mapping | `ImplementsWaitingQueue` |
| `TriggerCheck` | runs of the task of one trigger | `RecordedWasEnqueued`, `ActionOnChangeOnly` |
| `JobFlow` (extends `TriggerCheck`, instantiates `WaitingQueue`) | trigger task and queue in a process that ends and starts again | `LatestCommitRuns` |
| `Leadership` | main loops of all replicas | `NothingLeftBehind`, `SignalEndsProcess`, `DeposedStops` |
| `ScheduleTriggers` (extends `Leadership`) | reconcilers of all replicas that lead | `TasksAreRecorded`, `SchedulesAreActual`, `GoneIsUnscheduled`, `NeverPanics`, `ScheduleConverges`, `DeletionCompletes` |
| `SecretsCache` | concurrent calls of `get_key_value` | `MonotoneReads` |
| `Webhooks` (extends `SecretsCache`) | handlers and shutdown | `AcceptedWasAllowed`, `EveryRequestAnswered`, `AcceptedSurvivesShutdown` |
| `WebhookFront` (extends `SecretsCache`) | start of the server, rate limits, and the read of the secret behind them | `GlobalCellsShared`, `RefusedBySourceOnly`, `NeverPlainByMistake` |
| `Startup` | `run` up to its main loop, the config task | `ConfigNeverGoesBack`, `LatestConfigLoads` |
| `GitRepos` | operators: what `fetch_repo_ref` reads and whom it trusts | |
| `ActionJob` (extends `Startup`, `GitRepos`) | the building of one Job and its clone | `WorkdirsAgree`, `ClonedIsTriggered`, `AccessIsJustified` |
| `JobsWatchProofs`, `JobsQueueProofs` (also for `QueueRefinement`), `TriggerCheckProofs` (also for `JobFlow`), `ScheduleTriggersProofs` (also for `Leadership`), `SecretsCacheProofs`, `WebhooksProofs`, `WebhookFrontProofs`, `ActionJobProofs` (also for `Startup` and `GitRepos`) | the theorems, each for the modules it extends | |
| `MC...` | constants for TLC | |

### How state and actions correspond to the code

**JobsWatch.**  `cluster` is what the API server has, `events` what the watch has
still to deliver, `store` the reflector store, `statuses` and `running_jobs` the
variables of `init_and_watch`.  The handler (`Handle`) looks the Job up in the
store, never in the event.  `Desync` is the HTTP 410 of a watch: the watcher lists
again, yields every listed object (`InitApply`) while the store is still the old
one, and swaps the store at the end (`InitDone`); changes in between are never
delivered one by one.  `running_jobs` wraps at `Usize`.  `slots` is history: which
Job each unit of the counter belongs to.  `OneFinalStatus` states what the handler
relies on (its comment: parallelism 1, no restarts): a status that says succeeded or
failed is not followed by another one.

**JobsQueue.**  `run_queue` is cut at its awaits: `BeginPass` takes the lock and
reads the counter and the limit once, `Recv` takes one item, `CreateApplied` and
`CreateOk`/`CreateErr` are the two ends of the request, `EndPass` releases the
lock.  `Wake` is a loop that finds an unseen version in its watch channel.
`enqueue` is two sends, `EnqueuePut` and `EnqueueNotify`.  The task's `select!`
ends with `Shutdown`, which drops both loops wherever they await.  `LeakedSlots`
are slots whose Job is gone and will not be heard of again, as a re-list leaves
them; `NoCapacity` says that they use up the limit (a limit of zero included).

**TriggerCheck.**  One trigger; `Runs` are runs of its task that overlap.  Every
status update is two steps: `UpdateStatus` computes the whole status from the
`cache`, `PatchApplied` replaces the one in the API server (a forced server-side
apply), and the cache follows through `pending`.  A source's state is a commit and
possibly a hash of files; `IsEqual` is the code's comparison.  Fetching, hashing
and enqueuing are results: the commit of the moment, a hash or none, success or
failure.

**Leadership.**  `told` is the lease manager's channel.  `Turn` reads it and
spawns the controllers, `OnSignal` and `OnLeaderChange` are the branches of the
`select!`, `StopControllers` and `Joined` what follows it, `Exit` the end of
`run`.  `Crash` is a process that dies and is restarted under a new identity; its
lease then has to expire.  `LeaseTaskEnds` is the end of the library's task: the
channel is closed, `changed()` fails at once, and the inner loop goes round for ever
with `shutdown` set (`Spin`).  tokio charges each round to the task's budget, so
that the other branch of the `select!`, the signal, is still polled.

**ScheduleTriggers.**  `reconcile` keeps the write lock of `TriggersState` to its
end and kube never reconciles one object twice at a time, so that each way
through it is one action: unchanged, ok, panic, failed before the new task was
recorded, failed at the status update.  Finalizers are modelled as kube's
`finalizer` works: the first call adds the finalizer, a cleaned-up object loses it.
A deposed leader reconciles until it notices; `overlapped` is history and says that
a replica has started its Controllers while those of another were still running.

**SecretsCache, Webhooks.**  The value of a key is the version of the secret it
was read from.  The read lock is held without an await (`Lookup` is one step), the
write lock across the request (`TakeLock` to `Save` or `QueryFails`).  A handler
whose client goes away is dropped where it awaits (`ClientGone`).  At shutdown
`LookAtScheduler` is one turn of the loop that waits for the last reference to
the scheduler, and `ProcessExit` loses what the scheduler has still to run.

**WaitingQueue, QueueRefinement.**  `WaitingQueue` is a line: `Put` at its end,
`Make` or `Drop` at its head, `Close` loses it.  The mapping takes as the line the
Job whose creation is requested (after `Recv`, before the request takes effect or
fails) and then the channel; the queue is open until its task has ended, and made
are the Jobs that the cluster has ever had.  So an answer that is lost after the
request took effect is a stutter, and an error without effect is a `Drop`.

**JobFlow.**  The trigger's task and the abstract queue, which stands for the
detailed one by the refinement above.  `Enqueue` is the task's step that succeeds
and the `Put`.  `CloseQueue` is the end of the queue's task at a signal, while runs
of the trigger's task go on; `Restart` the end of the process, gracefully or not:
the API server keeps the status, everything else starts from nothing.  `starved`
stands for `NoCapacity` of the detailed queue: while it lasts nothing leaves the
queue, not even to expire.  It comes and goes with `ChangeCapacity`.

**Startup.**  `main` is where `run` is, and each detached task has a first poll
(`SetCell`, `SetStores`, `StartQueue`).  A cell is `Unset` or holds the number of
the ConfigMap's content, 0 for the defaults.  The config task is cut at its
awaits: the initial request and its answer are two steps, then a list and single
events of the watch.  `Applied` is the closure of `for_each`; `predicates::generation`
filters nothing, since a ConfigMap has no generation.  `run` does not wait for the
detached tasks anywhere, and neither does the model: a queue's task that is polled
before the config's panics (`StartQueue`), and so does a run of a trigger that finds
the stores or the config unset (`TriggerPanics`).  That `run` awaits answers of the API
server in between makes it improbable; nothing in the code excludes it.

**GitRepos, ActionJob.**  A Job is built by reading the config in five steps
(`Parts`), between which it may be replaced.  The code reads more often: the service
account and the two limits are three reads (`action.rs:266`, `271`, `274`), one step
here, and each variable reads the prefix again (`action.rs:509`), also one step; no
property tells these apart.  `Own` marks a part that the action gives.  `FindChange`
is the trigger's view: the source in the cache, the secrets of the trigger's
namespace, the branch of the moment.  `EnqueueFails` is an `enqueue` without a queue,
or after the queue's task has panicked; nothing is recorded then, and a later run
finds the change again.  `Clone` and `CloneFails` are the cloner's: the source in the
API server, its pod's namespace, the reference in its arguments; `CloneFails` stands
for every `?` of `git_repo_cloner`, transient errors included, and is always
possible.  What a clone depended on is recorded (`at`).  `FetchOutcome` is
`fetch_repo_ref` up to the network, in the order of the code, with the panic of a
credentials callback that misses a key.

**WebhookFront.**  `ParseRefused`, `TlsFails`, `RoutesPanic`, `LimitPanics` and `Serve`
are the ways a command line ends.  The options of TLS are four: `TlsAccepted` is what
`requires` and `conflicts_with_all` of their arguments let through, `TlsConfig` the
match of `build_tls_config`, whose last arm takes everything else for no TLS.
`RoutesPanic` is external: `Cargo.lock` has axum 0.8.9, whose `Router::route` panics on a
segment that begins with a colon, and `build_hooks_web` has `/:namespace/:trigger`
(`web.rs:395-398`).  A build with that version panics there at its start; the rest of
the module models the routes as they are written and documented.  `Arrive` passes a
request through the layers from the outermost to the innermost; each that lets it
through takes a cell of the key of the request (`Charged`; `LayerOrder` has the
positions, the outermost first).  The keys are made of the path as the URI spells it,
while the handlers get it percent-decoded: `Segments` are spellings, and `Decode` tells
which trigger one means, or none.  A trigger with several spellings has a key for each.
The limiter (GCRA, by the `governor` library) is external: one arrival time per key.
`PartsAssumption` says that a random key is never the name of a source: the code draws
a random UUID.

## Runs

| Run | Shows |
|---|---|
| `watch_events` | whatever re-lists swallow, the counter never wraps, forgets a Job known to run or reports one twice; until the first re-list it is exact when all events are handled, and every slot is released |
| `queue_safety` | two loops, changes of the limit, expiry, lost answers, watch errors, a re-list and a shutdown: no pass blocks with the lock, the overshoot is bounded, and the queue implements `WaitingQueue` |
| `queue_liveness` | every accepted Job is created, expires or fails, also after a re-list, unless the limit is zero or used up by leaked slots for good |
| `trigger_overlap` | overlapping runs, a lagging cache, failing updates, edits, missing hashes of files: no status records a state of a source without an enqueued action |
| `trigger_restart` | the latest commit gets its Job across restarts of the process, unless the Job expired, was refused, or waited in memory at the end after its commit was recorded, or the queue has no capacity for good |
| `trigger_repeat` | *violation*: the action runs twice for one commit, because an update from a stale cache erased the record |
| `lead_shutdown` | two replicas: a clean hand-over at shutdown, every signal ends its process (also after the end of the lease task), a lasting loss of the lease stops the controllers |
| `schedule_tasks` | two replicas: failures, crashes and a hand-over never leave an unknown task or one of a deleted trigger; unless something fails the leader ends up with exactly the wanted schedules and deletions complete |
| `schedule_panic` | *violation*: changing a trigger that has never run panics |
| `webhook_requests` | only allowed requests start tasks, all are answered, and accepted tasks survive a shutdown that found the scheduler free |
| `webhook_front` | rate limits neither let the requests for one spelling of a trigger take the cells of all nor hit others than the source they are for; who gives an option of TLS never gets a server without it; the cache of secrets never goes back in time |
| `job_build` | from the start of the process to the clone: the config never goes back and its latest good content is loaded, the folders of a Job are all the action's or all the config's, it works on the commit that was found, and with the access its repository has |

A violation run states what a comment or a document of the repository says and
TLC shows a behaviour of the code that contradicts it; `PROJECT.json` quotes the
line under `findings`.

Some properties hold under a condition that is part of the property, and the
condition is needed.  `CaughtUpCount` and `SlotsAreReleased` speak of the time
before the first re-list (`desyncs = 0`): a Job that is deleted during a re-list
keeps its slot, since no event tells.  `SchedulesAreActual`, `ScheduleConverges`
and `DeletionCompletes` need that no request has failed: `reconcile` replaces the
task before its last request and records the schedule after it, and
`error_policy` waits for the next change instead of trying again.  The last two also
need that some replica can still lead (`Hindered`): one whose lease task has ended
never leads again although its process goes on, and one that got a signal ends.
`SchedulesAreActual`, `GoneIsUnscheduled` and the two liveness properties also need that
no two replicas ran their Controllers at once (`overlapped`).  The attempt to prove
them for several replicas showed it: `cleanup` cancels the task in the memory of the
replica that runs it and then gives the finalizer back, so that a deposed leader that
still reconciles takes the object away while the next leader has a task for it, and
nothing tells that one to cancel it.  `GlobalCellsShared` is about a server that
serves: a limit of zero, with which the process ends, has no period.
`EveryJobSettles` excepts a queue without capacity for good (`NoCapacity`): the
administrator has set the limit to zero, or re-lists have swallowed as many deletions as
it allows; `run_queue` then takes nothing out of the channel, not even what has expired.
`LatestCommitRuns` names the ways in which a commit gets no Job: its Job expired or was
refused; it waited in memory when the process ended, while the trigger's status, which
survives, already said that the commit was processed; or the queue has no capacity for
good.  `GlobalCellsShared` bounds the requests of one spelling of a trigger; all its
spellings together may take as many times more as there are.
`OvershootBounded` says by how much `maxRunningJobs`
("Maximum number of simultaneously running Jobs", `docs/guides/config.md:148`) may
be exceeded: by the Jobs that the watch had not counted when the pass began and
those whose answer was lost.  `WorkdirsAgree` allows what the code does: a reload of
the config between two reads splits a Job whose action gives no `workdir` of its
own, and only such a Job; the folders it mounts, clones to and tells may then differ.
`AcceptedSurvivesShutdown` supposes that the scheduler library, asked to wait for its
tasks (`WaitForFinish`), also waits for those that are queued and have not started.
`ClonedIsTriggered` excludes actions with an override, for which `docs/guides/concepts.md:123` ("Commit hash which is cloned into
workdir") does not describe the clone.

### Bounds

Two Jobs are enough for two passes to meet, for one Job to be affected by
another's event and for one to wait while the other is created. `queue_safety`
and `queue_liveness` leave out Jobs that finish (`JobSteps` is empty: they run until
they are deleted, which gives the slot back as the end does); `watch_events` has them.
`queue_liveness` has a limit of one or zero that changes once, one re-list, which may
leak the only slot, and one tick, after which a Job has expired. Two re-lists make the second one start
from a store the first left behind. Two runs of a task, two commits and a cache
one version behind contain every order of read, record and overwrite. Two replicas make a hand-over
in both directions. The two of `schedule_tasks` hand the lease over once, without
signals, which `lead_shutdown` has; two edits of a trigger are create and change, or
create and delete, and one request fails. Three callers of the cache are one that
returned, one that holds the lock and one that waits; `Attempts` is two instead of
ten because only the last attempt differs. `Usize` is 8: small enough to wrap
visibly, larger than twice the Jobs.

In `trigger_restart` one source, two commits, one waiting Job and one end of the
process are what it takes to lose a Job before, while and after its commit is
recorded.  In `job_build` three contents of the ConfigMap, of which the second does
not parse, make a change between any two reads and one that must be passed over,
one restart of the watch lets it list what it has
delivered, and one change of a repository, a secret or a certificate is enough to
come between the trigger and the cloner; the world changes only while somebody may
look (`Environment`), and only the repositories that the Job involves.  Its specs
have a namespaced repository with a custom authority and with a secret in a
namespace it may not use, one that gives the same key twice, and a cluster-wide one
that verifies nothing; certificates of the system's authorities are accepted for
every spec and are left out of `Certs`.  In `webhook_front` three requests fill a
burst of two and ask for one more, one of two triggers has two spellings, the
command lines have every set of TLS options, a clock of two ticks a second makes a period
that rounds to zero, and two rotations take a key away and bring it back.

Deadlock is not checked where the system really may stop: Jobs, requests and
changes are finite in every run, and processes end.

### Fairness

* The tokio runtime polls every task that is ready: weak fairness of the loops of
  the queue, the handlers, the main loop, the Controller and started trigger runs.
* A kube watch keeps delivering: weak fairness of `WatchEvent`, `CacheEvent`,
  `ControllerEvent`; a list that has begun ends (`OnInitApply`, `OnInitDone`).
* Jobs end and are deleted, because they carry `activeDeadlineSeconds` and
  `ttlSecondsAfterFinished` (`queue_liveness`).
* `trigger_restart` assumes that a schedule keeps firing and that repositories, their
  files and the queue answer again and again (strong fairness): the code retries only
  by running again.  The queue takes what waits unless it is starved for good
  (strong fairness, since capacity may come and go), which `queue_liveness` shows of
  `JobsQueue`, and Kubernetes starts an ended process again.
* The config task is polled and the API server answers it (`LoadConfig`).
* A free lease is taken and that of a dead process expires.

Nothing is assumed of users, pushes, signals, failures or the course of time.

## Proofs

TLAPS proves every safety property that a passing run checks, for every value of
the constants: any number of Jobs, re-lists, loops' passes, sources, runs, replicas,
triggers, requests, secrets, contents of the ConfigMap and command lines.  The
assumptions are the named `ASSUME`s of the modules, which TLC evaluates on every run;
each is a type, a bound that is a number, or says that a placeholder is not a value.

| Module | Theorems | Inductive invariant |
|---|---|---|
| `JobsWatchProofs` | `WatchTypeCorrect`, `CounterCorrect`, `KnownUnfinishedCorrect`, `CompletedOnceCorrect`, `NoSlotAfterCompletionCorrect`, `CaughtUpCorrect` | `CounterInv`, `CompletedInv`, `ReliableInv` |
| `JobsQueueProofs` | `TypeCorrect`, `PassCorrect`, `OvershootCorrect`, `QueueImplementsLine` | `QueueInv`, `PassInv`, `OvershootInv`, `LineInv` |
| `TriggerCheckProofs` | `TriggerTypeCorrect`, `RecordedWasEnqueuedCorrect`, `RecordedAcrossRestarts` | `TriggerInv` |
| `ScheduleTriggersProofs` | `NothingLeftBehindCorrect`; `ScheduleTypeCorrect`, `TasksAreRecordedCorrect`, `GoneIsUnscheduledCorrect`, `SchedulesAreActualCorrect` | `LeadInv`; `ScheduleInv` |
| `SecretsCacheProofs` | lemmas that both webhook modules use | `SecretInv` |
| `WebhooksProofs` | `WebhooksTypeCorrect`, `AcceptedWasAllowedCorrect`, `AcceptedSurvivesShutdownCorrect` | `HookInv` |
| `WebhookFrontProofs` | `FrontTypeCorrect`, `MonotoneReadsCorrect`, `GlobalCellsSharedCorrect`, `RefusedBySourceOnlyCorrect`, `NeverPlainByMistakeCorrect` | `FrontInv` |
| `ActionJobProofs` | `ConfigNeverGoesBackCorrect`, `WorkdirsAgreeCorrect`, `ClonedIsTriggeredCorrect`, `AccessIsJustifiedCorrect` | `StartInv`, `JobInv` |

`ConfigNeverGoesBackCorrect` and `NoSlotAfterCompletionCorrect` are about steps, and
`QueueImplementsLine` is a refinement; the others are invariants.

**The counter.**  `CounterIsSlots` alone is not inductive: the handler
decrements when a status turns final or an unfinished Job vanishes, and the Job
must hold a slot then.  `CounterInv` adds that what the handler knows of a Job
(`statuses`), what the store has, what is on its way and what the cluster has are
in the order in which a Job moves (`KnowledgeInOrder`), that unfinished known Jobs
hold slots, and that a slot held without an entry belongs to a Job that is gone
(`LeakedSlotsAreDeleted`), so that its name is never counted again.
`CompletedInv` and `ReliableInv` build on it.

**The queue.**  `QueueInv` adds mutual exclusion of the passes and that a Job which is
being created has capacity; every step of the queue is a step of the watch or leaves
the counter alone, which carries `CounterInv` over.  For the refinement, `LineInv` adds
that no pass survives the end of the task.  The line is the requested Job and the
channel, so that `Recv` leaves it alone, or drops its head when the item has expired;
mutual exclusion makes the requested Job unique, and `CreatingInv` makes it a Job.

**The status of a trigger.**  An update is computed from a copy that may be old, so
that `RecordedWasEnqueued` has to hold for all copies (`CopiesEnqueued`): in the API
server, in the cache, on the way to it, in the hands of a run and in the patch it is
about to send.  `RunsInOrder` is what a run has established at the line it is at.
`executed` only grows, so that an old copy stays true.  `FlowStep` carries the invariant
over to `JobFlow`: a restart keeps the status alone, and starts from copies of it.

**Schedules.**  `InStep` makes the map of tasks and the tasks of the scheduler stand for
each other, with an id per task: a fresh id never hits another trigger's task.
`FinalizersKept` is why a task's object exists: the finalizer is taken away only by the
`cleanup` of the one replica that runs (`OneRuns`), which has cancelled its task
before, and what a Controller would schedule next still has its finalizer although its
store is old.  `NothingKept` starts a new term from nothing.

**Secrets and webhooks.**  `VersionsInOrder` puts what was returned, the entry, the
answer on its way and the secret into the order of their versions; it is kept because
one caller at a time holds the write lock (`OneLocks`), so that the entry cannot be
replaced while an answer travels.  For the handlers, `HandlersChecked` keeps the leave
that a handler has got: nothing that it depends on is read again.  `DrainsInOrder`
says that before the attempts are used up the shutdown goes on only when no handler,
and then no task, is left.

**Rate limits.**  `CellsCounted`: after n requests of one spelling of a trigger took cells of the global
limit since a, the arrival time of its key is at `a + n * period` or later,
because the layer of the trigger is passed first and every cell moves the time by a
period at least.  A request that conforms finds it at most `(burst - 1) * period` ahead,
which gives the bound of `GlobalCellsShared`.  `KeysWerePassed` finds for every key of the
source's layer a request that passed with it; a key that refuses has been used.

**Start, config and Job.**  `CellsSet` says that only the config task sets the config's
cell, and never clears it.  `ConfigInOrder` bounds the config by what was delivered and
that by the ConfigMap, so that neither the first answer nor a list after a restart is
older.  `PartsInOrder` makes the contents read for a Job ascend, whether or not the run
panics later.  What a clone used is taken from `FetchedIsJustified`, which reads it off
the cases of `FetchOutcome`.

Only model-checked:

* the liveness properties `SlotsAreReleased`, `EveryJobSettles`, `LatestCommitRuns`,
  `SignalEndsProcess`, `DeposedStops`, `ScheduleConverges`, `DeletionCompletes`,
  `EveryRequestAnswered` and `LatestConfigLoads`: fairness and `ENABLED` are out of reach of
  the prover;
* the two violations, `ActionOnChangeOnly` and `NeverPanics`, which are counterexamples.

## Not modelled

* Diagnostics, the event reporter, metrics other than `completed_count`, the
  answers of the utility server and CRD generation: values that nothing in the
  controller reads back.  In particular `/ready` is set without regard to the
  config or to the port of the webhooks.
* Labels, annotations, images, names and owner references of a Job: copied values.
  Labels of the action may replace those that the controller sets
  (`labels.extend`), and a name is a second and two random letters.
* libgit2 behind `fetch_repo_ref`: transport, depth, SSH agents.
* How axum matches routes: the model takes the paths as the documentation has them
  (see WebhookFront for the version that refuses them at the start).  The number of keys
  that the limiter keeps is not bounded in the code and not looked at here.
* Deletion of the ConfigMap: it yields no applied object, the last config stays.
* When a schedule fires: the scheduler library runs a task at any time.  That
  cancelling a known task succeeds is assumed of it.
* Clocks that go backwards (`duration_since(...).unwrap()` in `run_queue`).

## Plan

Done: all modules above, and a theorem for every safety property that a passing run
checks.  Next:

* What holds of schedules while two leaders overlap: which tasks may be left over, and
  that they end with the term of the replica that has them.
