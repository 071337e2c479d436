----------------------------- MODULE TriggerCheck -----------------------------
(***************************************************************************)
(* The task that create_trigger_task builds (src/resources/trigger.rs) and *)
(* update_trigger_status, for one trigger.  Several runs of the task may   *)
(* overlap: a WebhookTrigger starts one per request, and a ScheduleTrigger *)
(* is also written by its reconciler.  They share the trigger's status in  *)
(* the API server, which every one of them replaces as a whole with a      *)
(* value computed from the local cache, and the cache follows the API      *)
(* server with a delay.                                                    *)
(***************************************************************************)
EXTENDS Integers, Sequences, FiniteSets

CONSTANTS
    Sources,       \* names of repositories the trigger may list
    Runs,          \* slots for runs of the task that overlap
    MaxCommit,     \* bound: commits of a repository are 1..MaxCommit
    FileHash,      \* [1..MaxCommit -> hash of the watched files at that commit]
    WithFiles,     \* watchOn.files is set
    OnChangeOnly,  \* watchOn.onChangeOnly
    MaxLag,        \* bound: versions of the object the cache may be behind
    MaxEdits,      \* bound: changes of the trigger by its user
    PatchFailures  \* TRUE: a status update may fail although the trigger exists

None == "none"

ASSUME CommitsAssumption == MaxCommit \in Nat \ {0}
ASSUME FileHashAssumption ==
    /\ DOMAIN FileHash = 1..MaxCommit
    /\ None \notin {FileHash[c] : c \in 1..MaxCommit}
ASSUME FlagsAssumption == WithFiles \in BOOLEAN /\ OnChangeOnly \in BOOLEAN
                          /\ PatchFailures \in BOOLEAN
ASSUME LagAssumption == MaxLag \in Nat /\ MaxEdits \in Nat

Commit == 1..MaxCommit

\* CheckedSourceState: the commit and, when files are watched, their hash.
\* None for file_hash: not watched, or not computed because of an error.
CheckedState == [commit_hash : Commit,
                 file_hash : {FileHash[c] : c \in Commit} \cup {None}]

\* Before a source has been fetched new_source_state is empty.
NoState == [commit_hash |-> 0, file_hash |-> None]

\* What of a state the trigger compares.
Watched(state) == IF WithFiles THEN state.file_hash ELSE state.commit_hash

Checked == UNION {[S -> CheckedState] : S \in SUBSET Sources}

NoChecked == [s \in {} |-> None]

\* set is FALSE while the object has no status at all.
NoStatus == [set |-> FALSE, state |-> "Idle", last_run |-> "Never", checked |-> NoChecked]

Status == [set : BOOLEAN, state : {"Idle", "Running"}, last_run : {"Never", "time"},
           checked : Checked]

Object == [exists : BOOLEAN, names : SUBSET Sources, status : Status]

VARIABLES
    api,       \* the trigger in the API server
    cache,     \* the trigger in the ApiCache reflector
    pending,   \* versions the cache has still to receive, oldest first
    head,      \* [Sources -> latest commit of the watched reference]
    edits,     \* changes by the user so far, up to MaxEdits
    pc,        \* [Runs -> where that run is]
    then,      \* [Runs -> where it goes on after a status update]
    todo,      \* [Runs -> sources still to check]
    seen,      \* [Runs -> checked_sources as read at the start of the run]
    source,    \* [Runs -> the source being processed]
    found,     \* [Runs -> its new_source_state]
    patch,     \* [Runs -> the status on its way to the API server]
    executed,  \* history: [Sources -> what was watched when an action was enqueued]
    repeated   \* history: sources whose action ran again for the same

runVars == <<pc, then, todo, seen, source, found, patch>>
vars == <<api, cache, pending, head, edits, runVars, executed, repeated>>

Location == {"idle", "mark", "loop", "execute", "changed", "unchanged", "patch"}

TypeOK ==
    /\ api \in Object
    /\ cache \in Object
    /\ pending \in Seq(Object)
    /\ head \in [Sources -> Commit]
    /\ edits \in 0..MaxEdits
    /\ pc \in [Runs -> Location]
    /\ then \in [Runs -> Location]
    /\ todo \in [Runs -> SUBSET Sources]
    /\ seen \in [Runs -> Checked]
    /\ source \in [Runs -> Sources \cup {None}]
    /\ found \in [Runs -> CheckedState \cup {NoState}]
    /\ patch \in [Runs -> Status]
    /\ executed \in [Sources -> SUBSET {Watched(state) : state \in CheckedState}]
    /\ repeated \subseteq Sources

Init ==
    /\ api = [exists |-> TRUE, names |-> Sources, status |-> NoStatus]
    /\ cache = api
    /\ pending = <<>>
    /\ head = [s \in Sources |-> 1]
    /\ edits = 0
    /\ pc = [r \in Runs |-> "idle"]
    /\ then = [r \in Runs |-> "idle"]
    /\ todo = [r \in Runs |-> {}]
    /\ seen = [r \in Runs |-> NoChecked]
    /\ source = [r \in Runs |-> None]
    /\ found = [r \in Runs |-> NoState]
    /\ patch = [r \in Runs |-> NoStatus]
    /\ executed = [s \in Sources |-> {}]
    /\ repeated = {}

-----------------------------------------------------------------------------
(* The object and the caches that follow it.                               *)

WriteObject(obj) ==
    /\ api' = obj
    /\ pending' = Append(pending, obj)

\* The reflector applies the next version.
CacheEvent ==
    /\ pending # <<>>
    /\ cache' = Head(pending)
    /\ pending' = Tail(pending)
    /\ UNCHANGED <<api, head, edits, runVars, executed, repeated>>

\* The user replaces the list of sources, or deletes the trigger.
EditTrigger ==
    /\ api.exists
    /\ edits < MaxEdits
    /\ Len(pending) < MaxLag
    /\ edits' = edits + 1
    /\ \E names \in (SUBSET Sources) \ {api.names} :
          WriteObject([api EXCEPT !.names = names])
    /\ UNCHANGED <<cache, head, runVars, executed, repeated>>

DeleteTrigger ==
    /\ api.exists
    /\ edits < MaxEdits
    /\ Len(pending) < MaxLag
    /\ edits' = edits + 1
    /\ WriteObject([api EXCEPT !.exists = FALSE])
    /\ UNCHANGED <<cache, head, runVars, executed, repeated>>

\* Somebody pushes to the repository.
Push(s) ==
    /\ head[s] < MaxCommit
    /\ head' = [head EXCEPT ![s] = @ + 1]
    /\ UNCHANGED <<api, cache, pending, edits, runVars, executed, repeated>>

-----------------------------------------------------------------------------
(* update_trigger_status(state, checked_sources, last_run): the new status *)
(* is computed from the cache at once, the request follows.                *)

Keep(f, names) == [s \in (DOMAIN f) \cap names |-> f[s]]

Merge(old, new) ==
    [s \in (DOMAIN old) \cup (DOMAIN new) |-> IF s \in DOMAIN new THEN new[s] ELSE old[s]]

\* Mutant: a status without lastRun is not completed.
NewStatusUnset(state, checked, last_run) ==
    [set |-> TRUE, state |-> IF state = None THEN cache.status.state ELSE state,
     last_run |-> last_run, checked |-> Keep(Merge(cache.status.checked, checked), cache.names)]

NewStatus(state, checked, last_run) ==
    IF cache.status.set
    THEN [set      |-> TRUE,
          state    |-> IF state = None THEN cache.status.state ELSE state,
          last_run |-> IF last_run = None THEN cache.status.last_run ELSE last_run,
          checked  |-> Keep(Merge(cache.status.checked, checked), cache.names)]
    ELSE [set      |-> TRUE,
          state    |-> IF state = None THEN "Idle" ELSE state,
          last_run |-> IF last_run = None THEN "Never" ELSE last_run,
          checked  |-> checked]

\* A trigger that left the cache makes the update fail at once.
UpdateStatus(r, state, checked, last_run, next) ==
    IF cache.exists
    THEN /\ patch' = [patch EXCEPT ![r] = NewStatus(state, checked, last_run)]
         /\ pc' = [pc EXCEPT ![r] = "patch"]
         /\ then' = [then EXCEPT ![r] = next]
    ELSE /\ pc' = [pc EXCEPT ![r] = next]
         /\ UNCHANGED <<patch, then>>

PatchDone(r) ==
    /\ pc' = [pc EXCEPT ![r] = then[r]]
    /\ then' = [then EXCEPT ![r] = "idle"]
    /\ patch' = [patch EXCEPT ![r] = NoStatus]

\* The forced server-side apply replaces the whole status.
PatchApplied(r) ==
    /\ pc[r] = "patch"
    /\ api.exists
    /\ Len(pending) < MaxLag
    /\ WriteObject([api EXCEPT !.status = patch[r]])
    /\ PatchDone(r)
    /\ UNCHANGED <<cache, head, edits, todo, seen, source, found, executed, repeated>>

\* An error of the request is logged and the run goes on.
PatchFailed(r) ==
    /\ pc[r] = "patch"
    /\ PatchFailures \/ ~api.exists
    /\ PatchDone(r)
    /\ UNCHANGED <<api, cache, pending, head, edits, todo, seen, source, found, executed,
                   repeated>>

-----------------------------------------------------------------------------
(* One run of the task.                                                    *)

\* The run works with the trigger as it is in the cache now.
Start(r, sources_to_check) ==
    /\ pc[r] = "idle"
    /\ cache.exists
    /\ todo' = [todo EXCEPT ![r] = sources_to_check]
    /\ seen' = [seen EXCEPT ![r] = Keep(cache.status.checked, cache.names)]
    /\ pc' = [pc EXCEPT ![r] = "mark"]
    /\ UNCHANGED <<api, cache, pending, head, edits, then, source, found, patch, executed,
                   repeated>>

\* A schedule fires, or a webhook names no source or a single one.
StartAll(r) == Start(r, cache.names)

StartSingle(r) == \E s \in Sources : Start(r, {s})

MarkRunning(r) ==
    /\ pc[r] = "mark"
    /\ UpdateStatus(r, "Running", NoChecked, None, "loop")
    /\ UNCHANGED <<api, cache, pending, head, edits, todo, seen, source, found, executed,
                   repeated>>

\* The end of ScheduleTrigger::reconcile writes the status too.
ReconcileStatus(r) ==
    /\ pc[r] = "idle"
    /\ cache.exists
    /\ UpdateStatus(r, None, NoChecked, None, "idle")
    /\ UNCHANGED <<api, cache, pending, head, edits, todo, seen, source, found, executed,
                   repeated>>

\* The loop goes on to the next source; what the run knew of the sources is of no
\* use after the last one, and the model forgets it.
TakeSource(r, s) ==
    /\ pc[r] = "loop"
    /\ s \in todo[r]
    /\ todo' = [todo EXCEPT ![r] = @ \ {s}]
    /\ seen' = IF todo[r] = {s} THEN [seen EXCEPT ![r] = NoChecked] ELSE seen

\* No folder, no such repository, no access to it or no such reference: the
\* loop continues with the next source.
SourceFails(r, s) ==
    /\ TakeSource(r, s)
    /\ UNCHANGED <<api, cache, pending, head, edits, pc, then, source, found, patch, executed,
                   repeated>>

\* Mutant: any recorded state of the source counts as the current one.
IsEqualRecorded(new, s, checked) == s \in DOMAIN checked

IsEqual(new, s, checked) ==
    /\ s \in DOMAIN checked
    /\ Watched(new) = Watched(checked[s])

\* GitRepo::fetch_repo_ref and get_latest_commit: the commit the watched
\* reference points to now.
FetchRepoRef(s) == head[s]

\* The hash of the watched files at a commit, missing after an error.
GlobHash(commit) == IF WithFiles THEN {FileHash[commit], None} ELSE {None}

\* The repository is fetched, and compared with what the run knows of it.
SourceFetched(r, s) ==
    /\ TakeSource(r, s)
    /\ source' = [source EXCEPT ![r] = s]
    /\ \E file_hash \in GlobHash(FetchRepoRef(s)) :
          LET new == [commit_hash |-> FetchRepoRef(s), file_hash |-> file_hash]
          IN /\ found' = [found EXCEPT ![r] = new]
             /\ \/ /\ ~IsEqual(new, s, seen[r]) \/ ~OnChangeOnly
                   /\ pc' = [pc EXCEPT ![r] = "execute"]
                \/ /\ IsEqual(new, s, seen[r]) /\ OnChangeOnly
                   /\ pc' = [pc EXCEPT ![r] = "unchanged"]
    /\ UNCHANGED <<api, cache, pending, head, edits, then, patch, executed, repeated>>

\* new_source_state goes out of scope.
SourceDone(r) ==
    /\ source' = [source EXCEPT ![r] = None]
    /\ found' = [found EXCEPT ![r] = NoState]

\* Action::execute builds the Job for a state of a source and puts it into
\* the queue (see JobsQueue).
Execute(s, state) ==
    /\ executed' = [executed EXCEPT ![s] = @ \cup {Watched(state)}]
    /\ repeated' = IF Watched(state) \in executed[s] THEN repeated \cup {s} ELSE repeated

ActionEnqueued(r) ==
    /\ pc[r] = "execute"
    /\ Execute(source[r], found[r])
    /\ pc' = [pc EXCEPT ![r] = "changed"]
    /\ UNCHANGED <<api, cache, pending, head, edits, then, todo, seen, source, found, patch>>

\* Mutant: the state is recorded before the action is enqueued.
ActionFailsRecorded(r) ==
    /\ pc[r] = "execute"
    /\ pc' = [pc EXCEPT ![r] = "changed"]
    /\ UNCHANGED <<api, cache, pending, head, edits, then, todo, seen, source, found, patch,
                   executed, repeated>>

\* No such action, or the queue refuses the Job: nothing is recorded.
ActionFails(r) ==
    /\ pc[r] = "execute"
    /\ pc' = [pc EXCEPT ![r] = "loop"]
    /\ SourceDone(r)
    /\ UNCHANGED <<api, cache, pending, head, edits, then, todo, seen, patch, executed,
                   repeated>>

RecordChanged(r) ==
    /\ pc[r] = "changed"
    /\ UpdateStatus(r, "Running", [s \in {source[r]} |-> found[r]], "time", "loop")
    /\ SourceDone(r)
    /\ UNCHANGED <<api, cache, pending, head, edits, todo, seen, executed, repeated>>

RecordUnchanged(r) ==
    /\ pc[r] = "unchanged"
    /\ UpdateStatus(r, None, [s \in {source[r]} |-> found[r]], None, "loop")
    /\ SourceDone(r)
    /\ UNCHANGED <<api, cache, pending, head, edits, todo, seen, executed, repeated>>

SetIdle(r) ==
    /\ pc[r] = "loop"
    /\ todo[r] = {}
    /\ UpdateStatus(r, "Idle", NoChecked, "time", "idle")
    /\ seen' = [seen EXCEPT ![r] = NoChecked]
    /\ UNCHANGED <<api, cache, pending, head, edits, todo, source, found, executed, repeated>>

-----------------------------------------------------------------------------
\* Every step of a run but the one that puts a Job into the queue.
Process(r) ==
    \/ MarkRunning(r) \/ PatchApplied(r) \/ PatchFailed(r)
    \/ \E s \in Sources : SourceFails(r, s) \/ SourceFetched(r, s)
    \/ ActionFails(r)
    \/ RecordChanged(r) \/ RecordUnchanged(r) \/ SetIdle(r)

Step(r) == ActionEnqueued(r) \/ Process(r)

Environment ==
    \/ CacheEvent
    \/ EditTrigger
    \/ DeleteTrigger
    \/ \E s \in Sources : Push(s)

Next ==
    \/ Environment
    \/ \E r \in Runs : StartAll(r) \/ StartSingle(r) \/ ReconcileStatus(r) \/ Step(r)

Spec == Init /\ [][Next]_vars

-----------------------------------------------------------------------------
(* Properties.                                                             *)

\* At least once: whatever stale caches, overlapping runs and failed updates
\* do to the status, it never records a state of a source for which no action
\* was enqueued, so that no change is passed over.
RecordedWasEnqueued ==
    \A s \in DOMAIN api.status.checked : Watched(api.status.checked[s]) \in executed[s]

\* "run action if repo was changed only": the action does not run a second
\* time for a state of the source that it already ran for.
ActionOnChangeOnly == repeated = {}
=============================================================================
