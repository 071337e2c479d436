------------------------------- MODULE JobFlow -------------------------------
(***************************************************************************)
(* From a push to a Job: the trigger's task (TriggerCheck) and the queue   *)
(* it puts Jobs into, as WaitingQueue specifies it, in a process that may  *)
(* stop and be started again.  The status of the trigger survives in the   *)
(* API server; runs of the task, the cache and the queue live in memory.   *)
(***************************************************************************)
EXTENDS TriggerCheck

CONSTANTS
    MaxWaiting,    \* bound: Jobs that wait at a time
    MaxRestarts    \* bound: times the process ends

ASSUME FlowBoundsAssumption == MaxWaiting \in Nat \ {0} /\ MaxRestarts \in Nat

VARIABLES
    open,      \* as in WaitingQueue
    waiting,
    made,
    starved,   \* the queue has no capacity and no prospect of any: NoCapacity of JobsQueue
    restarts,  \* ends of the process so far, up to MaxRestarts
    dropped,   \* history: Jobs that expired or were refused
    lost       \* history: Jobs that waited when the queue closed

flowVars == <<open, waiting, made, starved, restarts, dropped, lost>>

\* A Job is built for a state of a source; what is watched tells them apart.
Jobs == [source : Sources, of : {Watched(state) : state \in CheckedState}]

Queue == INSTANCE WaitingQueue

FlowTypeOK ==
    /\ TypeOK
    /\ open \in BOOLEAN
    /\ waiting \in Seq(Jobs)
    /\ made \in SUBSET Jobs
    /\ starved \in BOOLEAN
    /\ restarts \in 0..MaxRestarts
    /\ dropped \in SUBSET Jobs
    /\ lost \in SUBSET Jobs

FlowInit ==
    /\ Init
    /\ Queue!LineInit
    /\ starved \in BOOLEAN
    /\ restarts = 0
    /\ dropped = {}
    /\ lost = {}

\* The bound delays a run that is about to put one Job more.
Room(r) == pc[r] = "execute" => Len(waiting) < MaxWaiting

\* Action::execute succeeds when the queue has taken the Job.
Enqueue(r) ==
    /\ Room(r)
    /\ ActionEnqueued(r)
    /\ Queue!Put([source |-> source[r], of |-> Watched(found[r])])
    /\ UNCHANGED <<starved, restarts, dropped, lost>>

\* run_queue takes nothing out of the queue, not even to let it expire, while it
\* has no capacity.
MakeJob ==
    /\ ~starved
    /\ Queue!Make
    /\ UNCHANGED <<vars, starved, restarts, dropped, lost>>

DropJob ==
    /\ ~starved
    /\ Queue!Drop
    /\ dropped' = dropped \cup {Head(waiting)}
    /\ UNCHANGED <<vars, starved, restarts, lost>>

\* The limit is set to zero, or a re-list leaks the last slot; or the limit is
\* raised again.
ChangeCapacity ==
    /\ starved' = ~starved
    /\ UNCHANGED <<vars, open, waiting, made, restarts, dropped, lost>>

Waiting == {waiting[n] : n \in DOMAIN waiting}

\* A termination signal ends the queue's task; runs of the trigger's task that
\* are under way go on until the process exits.
CloseQueue ==
    /\ restarts < MaxRestarts
    /\ Queue!Close
    /\ lost' = lost \cup Waiting
    /\ UNCHANGED <<vars, starved, restarts, dropped>>

\* The process exits or dies and a new one starts: the cache is listed again, the
\* counter of running Jobs starts at zero, with the limit of the config.
Restart ==
    /\ restarts < MaxRestarts
    /\ restarts' = restarts + 1
    /\ cache' = api
    /\ pending' = <<>>
    /\ pc' = [r \in Runs |-> "idle"]
    /\ then' = [r \in Runs |-> "idle"]
    /\ todo' = [r \in Runs |-> {}]
    /\ seen' = [r \in Runs |-> NoChecked]
    /\ source' = [r \in Runs |-> None]
    /\ found' = [r \in Runs |-> NoState]
    /\ patch' = [r \in Runs |-> NoStatus]
    /\ open' = TRUE
    /\ waiting' = <<>>
    /\ starved' \in BOOLEAN
    /\ lost' = lost \cup Waiting
    /\ UNCHANGED <<api, head, edits, executed, repeated, made, dropped>>

TriggerStep ==
    /\ \/ Environment
       \/ \E r \in Runs :
             \/ StartAll(r) \/ StartSingle(r) \/ ReconcileStatus(r)
             \/ Room(r) /\ Process(r)
    /\ UNCHANGED flowVars

FlowNext ==
    \/ TriggerStep
    \/ \E r \in Runs : Enqueue(r)
    \/ MakeJob
    \/ DropJob
    \/ ChangeCapacity
    \/ CloseQueue
    \/ Restart

allVars == <<vars, flowVars>>

\* The hash of the watched files was computed.
Hashed(r) == WithFiles => found[r].file_hash # None

\* The cache follows, a started run goes on, the schedule keeps firing, and
\* repositories (their files, too) answer again and again; the queue settles
\* its Jobs unless it is starved for good (EveryJobSettles of JobsQueue), and
\* Kubernetes starts an ended process again.
FlowFairness ==
    /\ WF_allVars(CacheEvent /\ UNCHANGED flowVars)
    /\ SF_allVars(MakeJob \/ DropJob)
    /\ WF_allVars(~open /\ Restart)
    /\ \A r \in Runs :
          /\ SF_allVars(StartAll(r) /\ UNCHANGED flowVars)
          /\ WF_allVars(Enqueue(r) \/ (Room(r) /\ Process(r) /\ UNCHANGED flowVars))
          /\ \A s \in Sources :
                SF_allVars(SourceFetched(r, s) /\ Hashed(r)' /\ UNCHANGED flowVars)
          /\ SF_allVars(Hashed(r) /\ Enqueue(r))

FlowSpec == FlowInit /\ [][FlowNext]_allVars /\ FlowFairness

-----------------------------------------------------------------------------
(* Properties.                                                             *)

Latest == Watched([commit_hash |-> MaxCommit, file_hash |-> FileHash[MaxCommit]])

ForLatest(s) == [source |-> s, of |-> Latest]

RecordedLatest(s) ==
    s \in DOMAIN api.status.checked /\ Watched(api.status.checked[s]) = Latest

\* What is watched in the latest commit gets its Job in the cluster, across
\* restarts of the process, unless the Job expired or was refused.  Two ways are
\* left in which it does not: the Job waited when the process ended and its commit
\* is already recorded, so that nobody asks for it again; or the queue is starved
\* for good.
LatestCommitRuns ==
    \A s \in Sources : head[s] = MaxCommit ~>
        \/ ForLatest(s) \in made \cup dropped
        \/ ForLatest(s) \in lost /\ RecordedLatest(s)
        \/ []starved
        \/ ~api.exists
        \/ s \notin api.names
=============================================================================
