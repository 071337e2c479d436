-------------------------- MODULE TriggerCheckProofs --------------------------
(***************************************************************************)
(* Types and the at-least-once guarantee of create_trigger_task, for every *)
(* set of sources, any number of overlapping runs and of versions that the *)
(* cache is behind.  The status is read from a cache, merged and written   *)
(* by several runs, so that the guarantee has to hold for every copy of it *)
(* that is under way: in the API server, the cache, the versions the cache *)
(* still has to see, what a run read at its start and what it is about to  *)
(* write.  The last part adds the queue and the ends of the process.       *)
(***************************************************************************)
EXTENDS JobFlow, SequenceTheorems, TLAPS

\* Every state a status records is one whose action was enqueued.
Enqueued(checked) == \A s \in DOMAIN checked : Watched(checked[s]) \in executed[s]

CopiesEnqueued ==
    /\ Enqueued(api.status.checked)
    /\ Enqueued(cache.status.checked)
    /\ \A n \in 1..Len(pending) : Enqueued(pending[n].status.checked)
    /\ \A r \in Runs : Enqueued(seen[r]) /\ Enqueued(patch[r].checked)

\* A run that is about to execute or to record has a source and its state; it
\* records only what was enqueued, by itself or by an earlier run.
RunsInOrder ==
    \A r \in Runs :
        /\ then[r] \in {"idle", "loop"}
        /\ pc[r] \in {"execute", "changed", "unchanged"} =>
              source[r] \in Sources /\ found[r] \in CheckedState
        /\ pc[r] \in {"changed", "unchanged"} => Watched(found[r]) \in executed[source[r]]

TriggerInv == TypeOK /\ RunsInOrder /\ CopiesEnqueued

-----------------------------------------------------------------------------
(* checked_sources: which functions they are, and what keeps them so.      *)

\* A map of checked sources is a function from some of the sources.
LEMMA CheckedIs ==
    ASSUME NEW f
    PROVE  f \in Checked <=> DOMAIN f \subseteq Sources /\ f \in [DOMAIN f -> CheckedState]
<1>1. ASSUME f \in Checked PROVE DOMAIN f \subseteq Sources /\ f \in [DOMAIN f -> CheckedState]
  <2>1. PICK S \in SUBSET Sources : f \in [S -> CheckedState]
    BY <1>1 DEF Checked
  <2> QED
    BY <2>1
<1>2. ASSUME DOMAIN f \subseteq Sources, f \in [DOMAIN f -> CheckedState] PROVE f \in Checked
  BY <1>2 DEF Checked
<1> QED
  BY <1>1, <1>2

LEMMA NoCheckedType == NoChecked \in Checked /\ DOMAIN NoChecked = {}
<1>1. DOMAIN NoChecked = {} /\ NoChecked \in [{} -> CheckedState]
  BY DEF NoChecked
<1> QED
  BY <1>1, CheckedIs

LEMMA SingleType ==
    ASSUME NEW s \in Sources, NEW state \in CheckedState
    PROVE  /\ [x \in {s} |-> state] \in Checked
           /\ DOMAIN [x \in {s} |-> state] = {s}
           /\ [x \in {s} |-> state][s] = state
<1> DEFINE f == [x \in {s} |-> state]
<1>1. DOMAIN f = {s} /\ f \in [{s} -> CheckedState] /\ f[s] = state
  OBVIOUS
<1> HIDE DEF f
<1>2. f \in Checked
  BY <1>1, CheckedIs
<1> QED
  BY <1>1, <1>2 DEF f

LEMMA KeepType ==
    ASSUME NEW f \in Checked, NEW names
    PROVE  /\ Keep(f, names) \in Checked
           /\ \A s \in DOMAIN Keep(f, names) : s \in DOMAIN f /\ Keep(f, names)[s] = f[s]
<1> DEFINE g == Keep(f, names)
<1>1. DOMAIN f \subseteq Sources /\ f \in [DOMAIN f -> CheckedState]
  BY CheckedIs
<1>2. /\ DOMAIN g = DOMAIN f \cap names
      /\ \A s \in DOMAIN g : s \in DOMAIN f /\ g[s] = f[s]
  BY DEF Keep
<1>3. g \in [DOMAIN g -> CheckedState]
  BY <1>1, <1>2 DEF Keep
<1> HIDE DEF g
<1>4. g \in Checked
  BY <1>1, <1>2, <1>3, CheckedIs
<1> QED
  BY <1>2, <1>4 DEF g

LEMMA MergeType ==
    ASSUME NEW old \in Checked, NEW new \in Checked
    PROVE  /\ Merge(old, new) \in Checked
           /\ \A s \in DOMAIN Merge(old, new) :
                 \/ s \in DOMAIN new /\ Merge(old, new)[s] = new[s]
                 \/ s \in DOMAIN old /\ Merge(old, new)[s] = old[s]
<1> DEFINE g == Merge(old, new)
<1>1. /\ DOMAIN old \subseteq Sources /\ old \in [DOMAIN old -> CheckedState]
      /\ DOMAIN new \subseteq Sources /\ new \in [DOMAIN new -> CheckedState]
  BY CheckedIs
<1>2. /\ DOMAIN g = DOMAIN old \cup DOMAIN new
      /\ \A s \in DOMAIN g : g[s] = IF s \in DOMAIN new THEN new[s] ELSE old[s]
  BY DEF Merge
<1>3. \A s \in DOMAIN g : \/ s \in DOMAIN new /\ g[s] = new[s]
                          \/ s \in DOMAIN old /\ g[s] = old[s]
  BY <1>2
<1>4. g \in [DOMAIN g -> CheckedState]
  BY <1>1, <1>2 DEF Merge
<1> HIDE DEF g
<1>5. g \in Checked
  BY <1>1, <1>2, <1>4, CheckedIs
<1> QED
  BY <1>3, <1>5 DEF g

-----------------------------------------------------------------------------
(* What update_trigger_status computes from the cache.                     *)

LEMMA NewStatusType ==
    ASSUME cache \in Object, NEW state \in {None, "Idle", "Running"}, NEW checked \in Checked,
           NEW last_run \in {None, "Never", "time"}
    PROVE  NewStatus(state, checked, last_run) \in Status
<1>1. cache.status \in Status /\ cache.names \subseteq Sources
  BY DEF Object
<1>2. /\ cache.status.checked \in Checked /\ cache.status.state \in {"Idle", "Running"}
      /\ cache.status.last_run \in {"Never", "time"}
  BY <1>1 DEF Status
<1>3. Keep(Merge(cache.status.checked, checked), cache.names) \in Checked
  BY <1>2, KeepType, MergeType
<1> QED
  BY <1>2, <1>3 DEF NewStatus, Status, None

\* The new status records nothing but what the cache or the caller does.
LEMMA NewStatusEnqueued ==
    ASSUME cache \in Object, NEW state, NEW checked \in Checked, NEW last_run,
           Enqueued(cache.status.checked), Enqueued(checked)
    PROVE  Enqueued(NewStatus(state, checked, last_run).checked)
<1> DEFINE old == cache.status.checked
           merged == Merge(old, checked)
<1>1. old \in Checked
  BY DEF Object, Status
<1>2. merged \in Checked /\ Enqueued(merged)
  BY <1>1, MergeType DEF Enqueued
<1>3. Enqueued(Keep(merged, cache.names))
  <2> HIDE DEF merged
  <2> QED
    BY <1>2, KeepType DEF Enqueued
<1>4. NewStatus(state, checked, last_run).checked =
        IF cache.status.set THEN Keep(merged, cache.names) ELSE checked
  BY DEF NewStatus
<1> QED
  BY <1>3, <1>4

LEMMA NothingEnqueued == Enqueued(NoChecked) /\ NoStatus \in Status /\ NoStatus.checked = NoChecked
BY NoCheckedType DEF Enqueued, NoStatus, Status

\* What UpdateStatus does to the run that calls it, and to no other.
LEMMA UpdateMoves ==
    ASSUME TypeOK, NEW r \in Runs, NEW state \in {None, "Idle", "Running"},
           NEW checked \in Checked, NEW last_run \in {None, "Never", "time"},
           NEW next \in {"idle", "loop"}, UpdateStatus(r, state, checked, last_run, next)
    PROVE  /\ pc' \in [Runs -> Location] /\ then' \in [Runs -> Location]
           /\ patch' \in [Runs -> Status]
           /\ \A q \in Runs \ {r} : /\ pc'[q] = pc[q] /\ then'[q] = then[q]
                                    /\ patch'[q] = patch[q]
           /\ pc'[r] \in {"patch", next} /\ then'[r] \in {next, then[r]}
           /\ patch'[r] \in {NewStatus(state, checked, last_run), patch[r]}
<1> DEFINE new == NewStatus(state, checked, last_run)
<1>1. new \in Status
  BY NewStatusType DEF TypeOK
<1>2. /\ pc \in [Runs -> Location] /\ then \in [Runs -> Location] /\ patch \in [Runs -> Status]
      /\ next \in Location /\ "patch" \in Location
  BY DEF TypeOK, Location
<1>3. \/ /\ patch' = [patch EXCEPT ![r] = new] /\ pc' = [pc EXCEPT ![r] = "patch"]
         /\ then' = [then EXCEPT ![r] = next]
      \/ pc' = [pc EXCEPT ![r] = next] /\ UNCHANGED <<patch, then>>
  BY DEF UpdateStatus
<1> HIDE DEF new
<1>4. /\ pc' \in [Runs -> Location] /\ then' \in [Runs -> Location]
      /\ patch' \in [Runs -> Status]
  BY <1>1, <1>2, <1>3
<1>5. /\ \A q \in Runs \ {r} : pc'[q] = pc[q] /\ then'[q] = then[q] /\ patch'[q] = patch[q]
      /\ pc'[r] \in {"patch", next} /\ then'[r] \in {next, then[r]} /\ patch'[r] \in {new, patch[r]}
  BY <1>2, <1>3
<1> QED
  BY <1>4, <1>5 DEF new

\* What a finished request does.
LEMMA PatchMoves ==
    ASSUME TypeOK, RunsInOrder, NEW r \in Runs, PatchDone(r)
    PROVE  /\ pc' \in [Runs -> Location] /\ then' \in [Runs -> Location]
           /\ patch' \in [Runs -> Status]
           /\ \A q \in Runs \ {r} : /\ pc'[q] = pc[q] /\ then'[q] = then[q]
                                    /\ patch'[q] = patch[q]
           /\ pc'[r] \in {"idle", "loop"} /\ then'[r] = "idle" /\ patch'[r] = NoStatus
<1>1. /\ pc \in [Runs -> Location] /\ then \in [Runs -> Location] /\ patch \in [Runs -> Status]
      /\ then[r] \in {"idle", "loop"} /\ "idle" \in Location /\ "loop" \in Location
  BY DEF TypeOK, RunsInOrder, Location
<1> QED
  BY <1>1, NothingEnqueued DEF PatchDone

\* A new version of the object reaches the API server and the cache's stream.
LEMMA WriteMoves ==
    ASSUME pending \in Seq(Object), NEW obj \in Object, WriteObject(obj)
    PROVE  /\ api' = obj /\ pending' \in Seq(Object)
           /\ \A n \in 1..Len(pending') :
                 \/ n \in 1..Len(pending) /\ pending'[n] = pending[n]
                 \/ pending'[n] = obj
<1>1. /\ pending' = Append(pending, obj) /\ api' = obj
  BY DEF WriteObject
<1>2. /\ pending' \in Seq(Object) /\ Len(pending') = Len(pending) + 1 /\ Len(pending) \in Nat
      /\ \A n \in 1..Len(pending) : pending'[n] = pending[n]
      /\ pending'[Len(pending) + 1] = obj
  BY <1>1
<1> QED
  BY <1>1, <1>2

-----------------------------------------------------------------------------
(* Types.                                                                  *)

LEMMA TypeInit == Init => TypeOK
<1> SUFFICES ASSUME Init PROVE TypeOK
  OBVIOUS
<1>1. api \in Object /\ cache \in Object
  BY NothingEnqueued DEF Init, Object
<1>2. 1 \in Commit /\ 0 \in 0..MaxEdits
  BY CommitsAssumption, LagAssumption DEF Commit
<1>3. pending \in Seq(Object)
  BY DEF Init
<1>4. /\ head \in [Sources -> Commit] /\ edits \in 0..MaxEdits
      /\ executed \in [Sources -> SUBSET {Watched(state) : state \in CheckedState}]
      /\ repeated \subseteq Sources
  BY <1>2 DEF Init
<1>5. /\ pc \in [Runs -> Location] /\ then \in [Runs -> Location]
      /\ todo \in [Runs -> SUBSET Sources] /\ source \in [Runs -> Sources \cup {None}]
      /\ found \in [Runs -> CheckedState \cup {NoState}]
  BY DEF Init, Location
<1>6. seen \in [Runs -> Checked] /\ patch \in [Runs -> Status]
  BY NoCheckedType, NothingEnqueued DEF Init
<1> QED
  BY <1>1, <1>3, <1>4, <1>5, <1>6 DEF TypeOK

\* The state that a fetch finds.
LEMMA FetchedType ==
    ASSUME TypeOK, NEW s \in Sources, NEW file_hash \in GlobHash(FetchRepoRef(s))
    PROVE  [commit_hash |-> FetchRepoRef(s), file_hash |-> file_hash] \in CheckedState
<1>1. head[s] \in Commit
  BY DEF TypeOK
<1>2. file_hash \in {FileHash[c] : c \in Commit} \cup {None}
  BY <1>1 DEF GlobHash, FetchRepoRef
<1> QED
  BY <1>1, <1>2 DEF CheckedState, FetchRepoRef

\* What TakeSource and SourceFetched do to the run.
LEMMA TakeMoves ==
    ASSUME TypeOK, NEW r \in Runs, NEW s \in Sources, TakeSource(r, s)
    PROVE  /\ todo' \in [Runs -> SUBSET Sources] /\ seen' \in [Runs -> Checked]
           /\ \A q \in Runs : seen'[q] \in {seen[q], NoChecked}
<1>1. /\ todo \in [Runs -> SUBSET Sources] /\ seen \in [Runs -> Checked] /\ NoChecked \in Checked
  BY NoCheckedType DEF TypeOK
<1>2. /\ todo' = [todo EXCEPT ![r] = todo[r] \ {s}]
      /\ seen' = [seen EXCEPT ![r] = NoChecked] \/ seen' = seen
  BY DEF TakeSource
<1> QED
  BY <1>1, <1>2

LEMMA FetchMoves ==
    ASSUME TypeOK, NEW r \in Runs, NEW s \in Sources, SourceFetched(r, s)
    PROVE  \E new \in CheckedState :
              /\ found' = [found EXCEPT ![r] = new]
              /\ source' = [source EXCEPT ![r] = s]
              /\ \/ pc' = [pc EXCEPT ![r] = "execute"]
                 \/ pc' = [pc EXCEPT ![r] = "unchanged"] /\ IsEqual(new, s, seen[r])
<1>1. PICK file_hash \in GlobHash(FetchRepoRef(s)) :
        LET new == [commit_hash |-> FetchRepoRef(s), file_hash |-> file_hash]
        IN /\ found' = [found EXCEPT ![r] = new]
           /\ \/ /\ ~IsEqual(new, s, seen[r]) \/ ~OnChangeOnly
                 /\ pc' = [pc EXCEPT ![r] = "execute"]
              \/ /\ IsEqual(new, s, seen[r]) /\ OnChangeOnly
                 /\ pc' = [pc EXCEPT ![r] = "unchanged"]
  BY DEF SourceFetched
<1> DEFINE n == [commit_hash |-> FetchRepoRef(s), file_hash |-> file_hash]
<1>2. n \in CheckedState
  BY FetchedType
<1>3. /\ found' = [found EXCEPT ![r] = n]
      /\ \/ pc' = [pc EXCEPT ![r] = "execute"]
         \/ pc' = [pc EXCEPT ![r] = "unchanged"] /\ IsEqual(n, s, seen[r])
  BY <1>1
<1>4. source' = [source EXCEPT ![r] = s]
  BY DEF SourceFetched
<1> HIDE DEF n
<1> QED
  BY <1>2, <1>3, <1>4

\* The environment: the cache, the user and the repositories.
LEMMA TypeEnvironment ==
    ASSUME TypeOK, Environment
    PROVE  TypeOK'
<1>t. /\ api \in Object /\ pending \in Seq(Object) /\ edits \in 0..MaxEdits
      /\ head \in [Sources -> Commit]
  BY DEF TypeOK
<1>1. CASE CacheEvent
  <2>1. cache' \in Object /\ pending' \in Seq(Object)
    BY <1>1, <1>t DEF CacheEvent
  <2> QED
    BY <1>1, <2>1 DEF CacheEvent, TypeOK, runVars
<1>2. CASE EditTrigger \/ DeleteTrigger
  <2>1. PICK obj \in Object : WriteObject(obj)
    <3>1. ASSUME NEW names \in SUBSET Sources PROVE [api EXCEPT !.names = names] \in Object
      BY <1>t DEF Object
    <3>2. [api EXCEPT !.exists = FALSE] \in Object
      BY <1>t DEF Object
    <3> QED
      BY <1>2, <3>1, <3>2 DEF EditTrigger, DeleteTrigger
  <2>2. api' \in Object /\ pending' \in Seq(Object)
    BY <1>t, <2>1, WriteMoves
  <2>3. edits' \in 0..MaxEdits
    BY <1>2, <1>t, LagAssumption DEF EditTrigger, DeleteTrigger
  <2>4. UNCHANGED <<cache, head, runVars, executed, repeated>>
    BY <1>2 DEF EditTrigger, DeleteTrigger
  <2> QED
    BY <2>2, <2>3, <2>4 DEF TypeOK, runVars
<1>3. ASSUME NEW s \in Sources, Push(s) PROVE TypeOK'
  <2>1. head[s] + 1 \in Commit
    BY <1>3, <1>t, CommitsAssumption DEF Push, Commit
  <2>2. head' \in [Sources -> Commit]
    BY <1>3, <1>t, <2>1 DEF Push
  <2> QED
    BY <1>3, <2>2 DEF Push, TypeOK, runVars
<1> QED
  BY <1>1, <1>2, <1>3 DEF Environment

\* The steps that write or finish a status update.
LEMMA TypeUpdates ==
    ASSUME TypeOK, RunsInOrder, NEW r \in Runs,
           \/ PatchApplied(r) \/ PatchFailed(r) \/ MarkRunning(r) \/ ReconcileStatus(r)
           \/ RecordChanged(r) \/ RecordUnchanged(r) \/ SetIdle(r)
    PROVE  TypeOK'
<1>t. /\ api \in Object /\ pending \in Seq(Object) /\ patch \in [Runs -> Status]
      /\ source \in [Runs -> Sources \cup {None}] /\ seen \in [Runs -> Checked]
      /\ found \in [Runs -> CheckedState \cup {NoState}] /\ NoChecked \in Checked
  BY NoCheckedType DEF TypeOK
<1>1. CASE PatchApplied(r)
  <2>1. [api EXCEPT !.status = patch[r]] \in Object
    BY <1>t DEF Object
  <2>2. api' \in Object /\ pending' \in Seq(Object)
    BY <1>1, <1>t, <2>1, WriteMoves DEF PatchApplied
  <2>3. /\ pc' \in [Runs -> Location] /\ then' \in [Runs -> Location]
        /\ patch' \in [Runs -> Status]
    BY <1>1, PatchMoves DEF PatchApplied
  <2> QED
    BY <1>1, <2>2, <2>3 DEF PatchApplied, TypeOK
<1>2. CASE PatchFailed(r)
  <2>1. /\ pc' \in [Runs -> Location] /\ then' \in [Runs -> Location]
        /\ patch' \in [Runs -> Status]
    BY <1>2, PatchMoves DEF PatchFailed
  <2> QED
    BY <1>2, <2>1 DEF PatchFailed, TypeOK
<1>3. CASE MarkRunning(r) \/ ReconcileStatus(r) \/ SetIdle(r)
  <2>1. /\ pc' \in [Runs -> Location] /\ then' \in [Runs -> Location]
        /\ patch' \in [Runs -> Status]
    BY <1>3, <1>t, UpdateMoves DEF MarkRunning, ReconcileStatus, SetIdle
  <2>2. seen' \in [Runs -> Checked]
    BY <1>3, <1>t DEF MarkRunning, ReconcileStatus, SetIdle
  <2>3. UNCHANGED <<api, cache, pending, head, edits, todo, source, found, executed, repeated>>
    BY <1>3 DEF MarkRunning, ReconcileStatus, SetIdle
  <2> QED
    BY <2>1, <2>2, <2>3 DEF TypeOK
<1>4. CASE RecordChanged(r) \/ RecordUnchanged(r)
  <2>1. source[r] \in Sources /\ found[r] \in CheckedState
    BY <1>4 DEF RecordChanged, RecordUnchanged, RunsInOrder
  <2>2. [s \in {source[r]} |-> found[r]] \in Checked
    BY <2>1, SingleType
  <2>3. /\ pc' \in [Runs -> Location] /\ then' \in [Runs -> Location]
        /\ patch' \in [Runs -> Status]
    BY <1>4, <2>2, UpdateMoves DEF RecordChanged, RecordUnchanged
  <2>4. source' \in [Runs -> Sources \cup {None}] /\ found' \in [Runs -> CheckedState \cup {NoState}]
    BY <1>4, <1>t DEF RecordChanged, RecordUnchanged, SourceDone
  <2>5. UNCHANGED <<api, cache, pending, head, edits, todo, seen, executed, repeated>>
    BY <1>4 DEF RecordChanged, RecordUnchanged
  <2> QED
    BY <2>3, <2>4, <2>5 DEF TypeOK
<1> QED
  BY <1>1, <1>2, <1>3, <1>4

\* The steps of a run that leave the status alone.
LEMMA TypeRuns ==
    ASSUME TypeOK, RunsInOrder, NEW r \in Runs,
           \/ StartAll(r) \/ StartSingle(r) \/ ActionEnqueued(r) \/ ActionFails(r)
           \/ \E s \in Sources : SourceFails(r, s) \/ SourceFetched(r, s)
    PROVE  TypeOK'
<1>t. /\ cache \in Object /\ pc \in [Runs -> Location] /\ todo \in [Runs -> SUBSET Sources]
      /\ source \in [Runs -> Sources \cup {None}] /\ seen \in [Runs -> Checked]
      /\ found \in [Runs -> CheckedState \cup {NoState}]
      /\ executed \in [Sources -> SUBSET {Watched(state) : state \in CheckedState}]
      /\ repeated \subseteq Sources
  BY DEF TypeOK
<1>l. {"mark", "loop", "execute", "changed", "unchanged"} \subseteq Location
  BY DEF Location
<1>1. ASSUME NEW S \in SUBSET Sources, Start(r, S) PROVE TypeOK'
  <2>1. Keep(cache.status.checked, cache.names) \in Checked
    BY <1>t, KeepType DEF Object, Status
  <2>2. /\ todo' \in [Runs -> SUBSET Sources] /\ seen' \in [Runs -> Checked]
        /\ pc' \in [Runs -> Location]
    BY <1>1, <1>t, <1>l, <2>1 DEF Start
  <2> QED
    BY <1>1, <2>2 DEF Start, TypeOK
<1>2. CASE StartAll(r) \/ StartSingle(r)
  <2>1. cache.names \in SUBSET Sources /\ \A s \in Sources : {s} \in SUBSET Sources
    BY <1>t DEF Object
  <2> QED
    BY <1>1, <1>2, <2>1 DEF StartAll, StartSingle
<1>3. CASE ActionEnqueued(r)
  <2>1. source[r] \in Sources /\ found[r] \in CheckedState
    BY <1>3 DEF ActionEnqueued, RunsInOrder
  <2> DEFINE w == Watched(found[r])
  <2>2. /\ executed' = [executed EXCEPT ![source[r]] = executed[source[r]] \cup {w}]
        /\ repeated' = repeated \/ repeated' = repeated \cup {source[r]}
        /\ pc' = [pc EXCEPT ![r] = "changed"]
    BY <1>3 DEF ActionEnqueued, Execute
  <2>3. w \in {Watched(state) : state \in CheckedState}
    BY <2>1
  <2> HIDE DEF w
  <2>4. /\ executed' \in [Sources -> SUBSET {Watched(state) : state \in CheckedState}]
        /\ repeated' \subseteq Sources
    BY <1>t, <2>1, <2>2, <2>3
  <2>5. pc' \in [Runs -> Location]
    BY <1>t, <1>l, <2>2
  <2> QED
    BY <1>3, <2>4, <2>5 DEF ActionEnqueued, TypeOK
<1>4. CASE ActionFails(r)
  <2>1. /\ pc' \in [Runs -> Location] /\ source' \in [Runs -> Sources \cup {None}]
        /\ found' \in [Runs -> CheckedState \cup {NoState}]
    BY <1>4, <1>t, <1>l DEF ActionFails, SourceDone
  <2> QED
    BY <1>4, <2>1 DEF ActionFails, TypeOK
<1>5. ASSUME NEW s \in Sources, SourceFails(r, s) PROVE TypeOK'
  <2>1. todo' \in [Runs -> SUBSET Sources] /\ seen' \in [Runs -> Checked]
    BY <1>5, TakeMoves DEF SourceFails
  <2> QED
    BY <1>5, <2>1 DEF SourceFails, TypeOK
<1>6. ASSUME NEW s \in Sources, SourceFetched(r, s) PROVE TypeOK'
  <2>1. todo' \in [Runs -> SUBSET Sources] /\ seen' \in [Runs -> Checked]
    BY <1>6, TakeMoves DEF SourceFetched
  <2>2. /\ found' \in [Runs -> CheckedState \cup {NoState}]
        /\ source' \in [Runs -> Sources \cup {None}]
        /\ pc' \in [Runs -> Location]
    BY <1>6, <1>t, <1>l, FetchMoves
  <2> QED
    BY <1>6, <2>1, <2>2 DEF SourceFetched, TypeOK
<1> QED
  BY <1>2, <1>3, <1>4, <1>5, <1>6

LEMMA TypeStep ==
    ASSUME TypeOK, RunsInOrder, [Next]_vars
    PROVE  TypeOK'
<1>1. ASSUME UNCHANGED vars PROVE TypeOK'
  BY <1>1 DEF vars, runVars, TypeOK
<1> QED
  BY <1>1, TypeEnvironment, TypeUpdates, TypeRuns DEF Next, Step, Process

-----------------------------------------------------------------------------
(* What the runs do, one after the other.                                  *)

\* What was enqueued stays enqueued.
ExecutedGrows == \A s \in Sources : executed[s] \subseteq executed'[s]

\* Only ActionEnqueued enqueues.
LEMMA RunsWait ==
    ASSUME NEW r \in Runs, StartAll(r) \/ StartSingle(r) \/ ReconcileStatus(r) \/ Process(r)
    PROVE  UNCHANGED executed
BY DEF StartAll, StartSingle, Start, ReconcileStatus, Process, MarkRunning, PatchApplied,
       PatchFailed, SourceFails, SourceFetched, ActionFails, RecordChanged, RecordUnchanged,
       SetIdle

LEMMA ExecutedStep ==
    ASSUME TypeOK, RunsInOrder, [Next]_vars
    PROVE  ExecutedGrows
<1>1. ASSUME NEW r \in Runs, ActionEnqueued(r) PROVE ExecutedGrows
  <2>1. source[r] \in Sources /\ executed \in [Sources -> SUBSET {Watched(state) : state \in CheckedState}]
    BY <1>1 DEF ActionEnqueued, RunsInOrder, TypeOK
  <2>2. executed' = [executed EXCEPT ![source[r]] = executed[source[r]] \cup {Watched(found[r])}]
    BY <1>1 DEF ActionEnqueued, Execute
  <2> QED
    BY <2>1, <2>2 DEF ExecutedGrows
<1>2. ASSUME UNCHANGED executed PROVE ExecutedGrows
  BY <1>2 DEF ExecutedGrows
<1>3. Environment \/ UNCHANGED vars => UNCHANGED executed
  BY DEF Environment, CacheEvent, EditTrigger, DeleteTrigger, Push, vars
<1> QED
  BY <1>1, <1>2, <1>3, RunsWait DEF Next, Step

\* The facts of RunsInOrder about one run.
InOrder(r) ==
    /\ then[r] \in {"idle", "loop"}
    /\ pc[r] \in {"execute", "changed", "unchanged"} =>
          source[r] \in Sources /\ found[r] \in CheckedState
    /\ pc[r] \in {"changed", "unchanged"} => Watched(found[r]) \in executed[source[r]]

\* A run that does not move stays in order.
LEMMA OrderOthers ==
    ASSUME RunsInOrder, ExecutedGrows, NEW q \in Runs,
           pc'[q] = pc[q], then'[q] = then[q], source'[q] = source[q], found'[q] = found[q]
    PROVE  InOrder(q)'
<1>1. InOrder(q)
  BY DEF RunsInOrder, InOrder
<1>2. source[q] \in Sources => executed[source[q]] \subseteq executed'[source[q]]
  BY DEF ExecutedGrows
<1>3. Watched(found[q])' = Watched(found[q])
  BY DEF Watched
<1> QED
  BY <1>1, <1>2, <1>3 DEF InOrder

\* One run moves: it has to be shown in order.
LEMMA OrderMoves ==
    ASSUME RunsInOrder, ExecutedGrows, NEW r \in Runs, InOrder(r)',
           \A q \in Runs \ {r} : /\ pc'[q] = pc[q] /\ then'[q] = then[q]
                                /\ source'[q] = source[q] /\ found'[q] = found[q]
    PROVE  RunsInOrder'
<1>1. ASSUME NEW q \in Runs PROVE InOrder(q)'
  <2>1. CASE q = r
    BY <2>1
  <2>2. CASE q # r
    BY <2>2, OrderOthers
  <2> QED
    BY <2>1, <2>2
<1> QED
  BY <1>1 DEF RunsInOrder, InOrder

\* A run that is in none of the three places is in order when its return
\* location is.
LEMMA OrderElsewhere ==
    ASSUME NEW r \in Runs, pc'[r] \notin {"execute", "changed", "unchanged"},
           then'[r] \in {"idle", "loop"}
    PROVE  InOrder(r)'
BY DEF InOrder

LEMMA OrderStep ==
    ASSUME TypeOK, RunsInOrder, CopiesEnqueued, ExecutedGrows, [Next]_vars
    PROVE  RunsInOrder'
<1>t. /\ pc \in [Runs -> Location] /\ then \in [Runs -> Location]
      /\ source \in [Runs -> Sources \cup {None}]
      /\ found \in [Runs -> CheckedState \cup {NoState}] /\ NoChecked \in Checked
      /\ executed \in [Sources -> SUBSET {Watched(state) : state \in CheckedState}]
      /\ \A r \in Runs : then[r] \in {"idle", "loop"}
  BY NoCheckedType DEF TypeOK, RunsInOrder
<1>1. ASSUME UNCHANGED <<pc, then, source, found>> PROVE RunsInOrder'
  <2>1. \A q \in Runs : InOrder(q)'
    BY <1>1, OrderOthers
  <2> QED
    BY <2>1 DEF RunsInOrder, InOrder
<1>2. Environment \/ UNCHANGED vars => UNCHANGED <<pc, then, source, found>>
  BY DEF Environment, CacheEvent, EditTrigger, DeleteTrigger, Push, runVars, vars
<1>3. ASSUME NEW r \in Runs, StartAll(r) \/ StartSingle(r) PROVE RunsInOrder'
  <2>1. pc' = [pc EXCEPT ![r] = "mark"] /\ UNCHANGED <<then, source, found>>
    BY <1>3 DEF StartAll, StartSingle, Start
  <2>2. /\ pc'[r] = "mark" /\ then'[r] = then[r] /\ \A q \in Runs \ {r} : pc'[q] = pc[q]
    BY <1>t, <2>1
  <2> QED
    BY <1>t, <2>1, <2>2, OrderElsewhere, OrderMoves
<1>4. ASSUME NEW r \in Runs, NEW state \in {None, "Idle", "Running"}, NEW checked \in Checked,
             NEW last_run \in {None, "Never", "time"}, NEW next \in {"idle", "loop"},
             UpdateStatus(r, state, checked, last_run, next),
             \A q \in Runs \ {r} : source'[q] = source[q] /\ found'[q] = found[q]
      PROVE  RunsInOrder'
  <2>1. /\ \A q \in Runs \ {r} : pc'[q] = pc[q] /\ then'[q] = then[q]
        /\ pc'[r] \in {"patch", next} /\ then'[r] \in {next, then[r]}
    BY <1>4, UpdateMoves
  <2>2. pc'[r] \notin {"execute", "changed", "unchanged"} /\ then'[r] \in {"idle", "loop"}
    BY <1>t, <2>1
  <2> QED
    BY <1>4, <2>1, <2>2, OrderElsewhere, OrderMoves
<1>5. ASSUME NEW r \in Runs, MarkRunning(r) \/ ReconcileStatus(r) \/ SetIdle(r)
      PROVE  RunsInOrder'
  BY <1>4, <1>5, <1>t DEF MarkRunning, ReconcileStatus, SetIdle
<1>6. ASSUME NEW r \in Runs, RecordChanged(r) \/ RecordUnchanged(r) PROVE RunsInOrder'
  <2>1. source[r] \in Sources /\ found[r] \in CheckedState
    BY <1>6 DEF RecordChanged, RecordUnchanged, RunsInOrder
  <2>2. [s \in {source[r]} |-> found[r]] \in Checked
    BY <2>1, SingleType
  <2>3. \A q \in Runs \ {r} : source'[q] = source[q] /\ found'[q] = found[q]
    BY <1>6, <1>t DEF RecordChanged, RecordUnchanged, SourceDone
  <2> QED
    BY <1>4, <1>6, <2>2, <2>3 DEF RecordChanged, RecordUnchanged
<1>7. ASSUME NEW r \in Runs, PatchApplied(r) \/ PatchFailed(r) PROVE RunsInOrder'
  <2>1. /\ \A q \in Runs \ {r} : pc'[q] = pc[q] /\ then'[q] = then[q]
        /\ pc'[r] \in {"idle", "loop"} /\ then'[r] = "idle"
    BY <1>7, PatchMoves DEF PatchApplied, PatchFailed
  <2>2. UNCHANGED <<source, found>>
    BY <1>7 DEF PatchApplied, PatchFailed
  <2> QED
    BY <2>1, <2>2, OrderElsewhere, OrderMoves
<1>8. ASSUME NEW r \in Runs, NEW s \in Sources, SourceFails(r, s) PROVE RunsInOrder'
  BY <1>1, <1>8 DEF SourceFails
<1>9. ASSUME NEW r \in Runs, NEW s \in Sources, SourceFetched(r, s) PROVE RunsInOrder'
  <2>1. PICK new \in CheckedState :
           /\ found' = [found EXCEPT ![r] = new]
           /\ source' = [source EXCEPT ![r] = s]
           /\ \/ pc' = [pc EXCEPT ![r] = "execute"]
              \/ pc' = [pc EXCEPT ![r] = "unchanged"] /\ IsEqual(new, s, seen[r])
    BY <1>9, FetchMoves
  <2>2. UNCHANGED <<then, executed>>
    BY <1>9 DEF SourceFetched
  <2>3. IsEqual(new, s, seen[r]) => Watched(new) \in executed[s]
    BY DEF IsEqual, CopiesEnqueued, Enqueued
  <2>4. /\ found'[r] = new /\ source'[r] = s /\ then'[r] = then[r]
        /\ pc'[r] = "execute" \/ (pc'[r] = "unchanged" /\ IsEqual(new, s, seen[r]))
        /\ \A q \in Runs \ {r} : /\ pc'[q] = pc[q] /\ then'[q] = then[q]
                                 /\ source'[q] = source[q] /\ found'[q] = found[q]
    BY <1>t, <2>1, <2>2
  <2>5. InOrder(r)'
    BY <1>t, <2>2, <2>3, <2>4 DEF InOrder, Watched
  <2> QED
    BY <2>4, <2>5, OrderMoves
<1>10. ASSUME NEW r \in Runs, ActionEnqueued(r) PROVE RunsInOrder'
  <2>1. source[r] \in Sources /\ found[r] \in CheckedState
    BY <1>10 DEF ActionEnqueued, RunsInOrder
  <2>2. /\ executed' = [executed EXCEPT ![source[r]] = executed[source[r]] \cup {Watched(found[r])}]
        /\ pc' = [pc EXCEPT ![r] = "changed"] /\ UNCHANGED <<then, source, found>>
    BY <1>10 DEF ActionEnqueued, Execute
  <2>3. Watched(found[r]) \in executed'[source[r]]
    BY <1>t, <2>1, <2>2
  <2>4. InOrder(r)'
    BY <1>t, <2>1, <2>2, <2>3 DEF InOrder, Watched
  <2>5. \A q \in Runs \ {r} : pc'[q] = pc[q]
    BY <1>t, <2>2
  <2> QED
    BY <2>2, <2>4, <2>5, OrderMoves
<1>11. ASSUME NEW r \in Runs, ActionFails(r) PROVE RunsInOrder'
  <2>1. /\ pc'[r] = "loop" /\ then'[r] = then[r]
        /\ \A q \in Runs \ {r} : /\ pc'[q] = pc[q] /\ then'[q] = then[q]
                                 /\ source'[q] = source[q] /\ found'[q] = found[q]
    BY <1>11, <1>t DEF ActionFails, SourceDone
  <2> QED
    BY <1>t, <2>1, OrderElsewhere, OrderMoves
<1> QED
  BY <1>1, <1>2, <1>3, <1>5, <1>6, <1>7, <1>8, <1>9, <1>10, <1>11 DEF Next, Step, Process

-----------------------------------------------------------------------------
(* Every copy of the status records enqueued states only.                  *)

\* A copy stays good.
LEMMA EnqueuedGrows ==
    ASSUME ExecutedGrows
    PROVE  \A f \in Checked :
              Enqueued(f) => \A s \in DOMAIN f : Watched(f[s]) \in executed'[s]
<1> SUFFICES ASSUME NEW f \in Checked, Enqueued(f), NEW s \in DOMAIN f
             PROVE  Watched(f[s]) \in executed'[s]
  OBVIOUS
<1>1. s \in Sources
  BY CheckedIs
<1> QED
  BY <1>1 DEF Enqueued, ExecutedGrows

\* f is a good copy after the step.
WillBeEnqueued(f) == \A s \in DOMAIN f : Watched(f[s]) \in executed'[s]

\* Each copy after a step is one from before it, empty, or computed by the step.
LEMMA CopiesFrom ==
    ASSUME TypeOK, CopiesEnqueued, ExecutedGrows,
           WillBeEnqueued(api'.status.checked),
           WillBeEnqueued(cache'.status.checked),
           \A n \in 1..Len(pending') : WillBeEnqueued(pending'[n].status.checked),
           \A r \in Runs : WillBeEnqueued(seen'[r]) /\ WillBeEnqueued(patch'[r].checked)
    PROVE  CopiesEnqueued'
BY DEF CopiesEnqueued, Enqueued, WillBeEnqueued, Watched

\* The copies there are before a step.
LEMMA CopiesNow ==
    ASSUME TypeOK, CopiesEnqueued, ExecutedGrows
    PROVE  /\ WillBeEnqueued(api.status.checked)
           /\ WillBeEnqueued(cache.status.checked)
           /\ \A n \in 1..Len(pending) : WillBeEnqueued(pending[n].status.checked)
           /\ \A r \in Runs : WillBeEnqueued(seen[r]) /\ WillBeEnqueued(patch[r].checked)
           /\ WillBeEnqueued(NoChecked) /\ WillBeEnqueued(NoStatus.checked)
<1>0. \A o \in Object : o.status.checked \in Checked
  BY DEF Object, Status
<1>1. api.status.checked \in Checked /\ cache.status.checked \in Checked
  BY <1>0 DEF TypeOK
<1>2. \A n \in 1..Len(pending) : pending[n].status.checked \in Checked
  BY <1>0 DEF TypeOK
<1>3. \A r \in Runs : seen[r] \in Checked /\ patch[r].checked \in Checked
  BY DEF TypeOK, Status
<1>4. WillBeEnqueued(NoChecked) /\ WillBeEnqueued(NoStatus.checked)
  BY NoCheckedType, NothingEnqueued DEF WillBeEnqueued
<1>5. ASSUME NEW f \in Checked, Enqueued(f) PROVE WillBeEnqueued(f)
  BY <1>5, EnqueuedGrows DEF WillBeEnqueued
<1> QED
  BY <1>1, <1>2, <1>3, <1>4, <1>5 DEF CopiesEnqueued

\* A step that calls update_trigger_status with enqueued states.
LEMMA CopiesUpdate ==
    ASSUME TypeOK, CopiesEnqueued, ExecutedGrows, NEW r \in Runs,
           NEW state \in {None, "Idle", "Running"}, NEW checked \in Checked,
           NEW last_run \in {None, "Never", "time"}, NEW next \in {"idle", "loop"},
           UpdateStatus(r, state, checked, last_run, next), Enqueued(checked),
           UNCHANGED <<api, cache, pending>>, \A q \in Runs : seen'[q] \in {seen[q], NoChecked}
    PROVE  CopiesEnqueued'
<1> DEFINE new == NewStatus(state, checked, last_run)
<1>1. cache \in Object /\ Enqueued(cache.status.checked)
  BY DEF TypeOK, CopiesEnqueued
<1>2. new \in Status /\ Enqueued(new.checked)
  BY <1>1, NewStatusType, NewStatusEnqueued
<1>3. \A q \in Runs : patch'[q] \in {new, patch[q]}
  BY UpdateMoves
<1> HIDE DEF new
<1>4. WillBeEnqueued(new.checked)
  BY <1>2, EnqueuedGrows DEF WillBeEnqueued, Status
<1>5. \A q \in Runs : WillBeEnqueued(seen'[q]) /\ WillBeEnqueued(patch'[q].checked)
  BY <1>3, <1>4, CopiesNow
<1> QED
  BY <1>5, CopiesNow, CopiesFrom

\* The object is written: its status is the one it had or the patch of a run.
LEMMA CopiesWrite ==
    ASSUME TypeOK, CopiesEnqueued, ExecutedGrows, NEW obj \in Object, WriteObject(obj),
           WillBeEnqueued(obj.status.checked), UNCHANGED <<cache, seen>>,
           \A q \in Runs : patch'[q] \in {patch[q], NoStatus}
    PROVE  CopiesEnqueued'
<1>1. /\ api' = obj
      /\ \A n \in 1..Len(pending') : \/ n \in 1..Len(pending) /\ pending'[n] = pending[n]
                                     \/ pending'[n] = obj
  BY WriteMoves DEF TypeOK
<1>2. \A n \in 1..Len(pending') : WillBeEnqueued(pending'[n].status.checked)
  BY <1>1, CopiesNow
<1>3. \A q \in Runs : WillBeEnqueued(seen'[q]) /\ WillBeEnqueued(patch'[q].checked)
  BY CopiesNow
<1> QED
  BY <1>1, <1>2, <1>3, CopiesNow, CopiesFrom

LEMMA CopiesStep ==
    ASSUME TypeOK, RunsInOrder, CopiesEnqueued, ExecutedGrows, [Next]_vars
    PROVE  CopiesEnqueued'
<1>t. /\ api \in Object /\ cache \in Object /\ pending \in Seq(Object)
      /\ seen \in [Runs -> Checked] /\ patch \in [Runs -> Status]
  BY DEF TypeOK
<1>e. NoChecked \in Checked /\ Enqueued(NoChecked)
  BY NoCheckedType, NothingEnqueued
<1>1. ASSUME UNCHANGED <<api, cache, pending, patch>>,
             \A r \in Runs : seen'[r] \in {seen[r], NoChecked}
      PROVE  CopiesEnqueued'
  BY <1>1, CopiesNow, CopiesFrom
<1>2. ASSUME CacheEvent PROVE CopiesEnqueued'
  <2>1. pending # <<>> /\ cache' = Head(pending) /\ pending' = Tail(pending)
        /\ UNCHANGED <<api, seen, patch>>
    BY <1>2 DEF CacheEvent, runVars
  <2>2. /\ Len(pending) \in Nat /\ 1 \in 1..Len(pending) /\ cache' = pending[1]
        /\ Len(pending') = Len(pending) - 1
        /\ \A n \in 1..Len(pending') : n + 1 \in 1..Len(pending) /\ pending'[n] = pending[n + 1]
    BY <1>t, <2>1
  <2>3. /\ WillBeEnqueued(cache'.status.checked)
        /\ \A n \in 1..Len(pending') : WillBeEnqueued(pending'[n].status.checked)
    BY <2>2, CopiesNow
  <2> QED
    BY <2>1, <2>3, CopiesNow, CopiesFrom
<1>3. ASSUME EditTrigger \/ DeleteTrigger PROVE CopiesEnqueued'
  <2>1. PICK obj \in Object : WriteObject(obj) /\ obj.status = api.status
    <3>1. ASSUME NEW names \in SUBSET Sources
          PROVE  /\ [api EXCEPT !.names = names] \in Object
                 /\ [api EXCEPT !.names = names].status = api.status
      BY <1>t DEF Object
    <3>2. /\ [api EXCEPT !.exists = FALSE] \in Object
          /\ [api EXCEPT !.exists = FALSE].status = api.status
      BY <1>t DEF Object
    <3> QED
      BY <1>3, <3>1, <3>2 DEF EditTrigger, DeleteTrigger
  <2>2. UNCHANGED <<cache, seen, patch>>
    BY <1>3 DEF EditTrigger, DeleteTrigger, runVars
  <2> QED
    BY <2>1, <2>2, CopiesNow, CopiesWrite
<1>4. ASSUME NEW s \in Sources, Push(s) PROVE CopiesEnqueued'
  BY <1>1, <1>4 DEF Push, runVars
<1>5. ASSUME NEW r \in Runs, PatchApplied(r) PROVE CopiesEnqueued'
  <2> DEFINE obj == [api EXCEPT !.status = patch[r]]
  <2>1. obj \in Object /\ obj.status = patch[r]
    BY <1>t DEF Object
  <2>2. WriteObject(obj) /\ UNCHANGED <<cache, seen>>
    BY <1>5 DEF PatchApplied
  <2>3. \A q \in Runs : patch'[q] \in {patch[q], NoStatus}
    BY <1>5, <1>t DEF PatchApplied, PatchDone
  <2> HIDE DEF obj
  <2> QED
    BY <2>1, <2>2, <2>3, CopiesNow, CopiesWrite
<1>6. ASSUME NEW r \in Runs, PatchFailed(r) PROVE CopiesEnqueued'
  <2>1. \A q \in Runs : patch'[q] \in {patch[q], NoStatus}
    BY <1>6, <1>t DEF PatchFailed, PatchDone
  <2>2. UNCHANGED <<api, cache, pending, seen>>
    BY <1>6 DEF PatchFailed
  <2> QED
    BY <2>1, <2>2, CopiesNow, CopiesFrom
<1>7. ASSUME NEW r \in Runs, MarkRunning(r) \/ ReconcileStatus(r) \/ SetIdle(r)
      PROVE  CopiesEnqueued'
  <2>1. UNCHANGED <<api, cache, pending>> /\ \A q \in Runs : seen'[q] \in {seen[q], NoChecked}
    BY <1>7, <1>t DEF MarkRunning, ReconcileStatus, SetIdle
  <2> QED
    BY <1>7, <1>e, <2>1, CopiesUpdate DEF MarkRunning, ReconcileStatus, SetIdle
<1>8. ASSUME NEW r \in Runs, RecordChanged(r) \/ RecordUnchanged(r) PROVE CopiesEnqueued'
  <2> DEFINE f == [s \in {source[r]} |-> found[r]]
  <2>1. /\ source[r] \in Sources /\ found[r] \in CheckedState
        /\ Watched(found[r]) \in executed[source[r]]
    BY <1>8 DEF RecordChanged, RecordUnchanged, RunsInOrder
  <2>2. f \in Checked /\ Enqueued(f)
    BY <2>1, SingleType DEF Enqueued
  <2>3. UNCHANGED <<api, cache, pending, seen>>
    BY <1>8 DEF RecordChanged, RecordUnchanged
  <2>4. UpdateStatus(r, "Running", f, "time", "loop") \/ UpdateStatus(r, None, f, None, "loop")
    BY <1>8 DEF RecordChanged, RecordUnchanged
  <2> HIDE DEF f
  <2> QED
    BY <2>2, <2>3, <2>4, CopiesUpdate
<1>9. ASSUME NEW r \in Runs, StartAll(r) \/ StartSingle(r) PROVE CopiesEnqueued'
  <2> DEFINE f == Keep(cache.status.checked, cache.names)
  <2>1. /\ seen' = [seen EXCEPT ![r] = f] /\ UNCHANGED <<api, cache, pending, patch>>
    BY <1>9 DEF StartAll, StartSingle, Start
  <2>2. cache.status.checked \in Checked
    BY <1>t DEF Object, Status
  <2>3. WillBeEnqueued(f)
    BY <2>2, KeepType, CopiesNow DEF WillBeEnqueued
  <2> HIDE DEF f
  <2>4. \A q \in Runs : seen'[q] \in {seen[q], f}
    BY <1>t, <2>1
  <2> QED
    BY <2>1, <2>3, <2>4, CopiesNow, CopiesFrom
<1>10. ASSUME NEW r \in Runs, NEW s \in Sources, SourceFails(r, s) \/ SourceFetched(r, s)
       PROVE  CopiesEnqueued'
  BY <1>1, <1>10, TakeMoves DEF SourceFails, SourceFetched
<1>11. ASSUME NEW r \in Runs, ActionEnqueued(r) \/ ActionFails(r) PROVE CopiesEnqueued'
  BY <1>1, <1>11 DEF ActionEnqueued, ActionFails
<1>12. ASSUME UNCHANGED vars PROVE CopiesEnqueued'
  BY <1>1, <1>12 DEF vars, runVars
<1> QED
  BY <1>2, <1>3, <1>4, <1>5, <1>6, <1>7, <1>8, <1>9, <1>10, <1>11, <1>12
  DEF Next, Environment, Step, Process

-----------------------------------------------------------------------------
LEMMA TriggerInvInit == Init => TriggerInv
<1> SUFFICES ASSUME Init PROVE TriggerInv
  OBVIOUS
<1>1. RunsInOrder
  BY DEF Init, RunsInOrder
<1>2. CopiesEnqueued
  BY NothingEnqueued DEF Init, CopiesEnqueued
<1> QED
  BY <1>1, <1>2, TypeInit DEF TriggerInv

LEMMA TriggerInvStep == TriggerInv /\ [Next]_vars => TriggerInv'
BY TypeStep, ExecutedStep, OrderStep, CopiesStep DEF TriggerInv

\* The status, the caches and the runs keep their types.
THEOREM TriggerTypeCorrect == Spec => []TypeOK
<1>1. TriggerInv => TypeOK
  BY DEF TriggerInv
<1> QED
  BY <1>1, TriggerInvInit, TriggerInvStep, PTL DEF Spec

\* At least once, for every number of sources, overlapping runs, versions the
\* cache is behind and failed updates: checked_sources of the trigger in the
\* API server never holds a state for which Action::execute put no Job into
\* the queue.
THEOREM RecordedWasEnqueuedCorrect == Spec => []RecordedWasEnqueued
<1>1. TriggerInv => RecordedWasEnqueued
  BY DEF TriggerInv, CopiesEnqueued, Enqueued, RecordedWasEnqueued
<1> QED
  BY <1>1, TriggerInvInit, TriggerInvStep, PTL DEF Spec

-----------------------------------------------------------------------------
(* The trigger's task and the queue, in a process that ends and starts     *)
(* again.                                                                  *)

LEMMA RestartStep ==
    ASSUME TriggerInv, Restart
    PROVE  TriggerInv'
<1>1. /\ UNCHANGED <<api, head, edits, executed, repeated>>
      /\ cache' = api /\ pending' = <<>>
      /\ pc' = [r \in Runs |-> "idle"] /\ then' = [r \in Runs |-> "idle"]
      /\ todo' = [r \in Runs |-> {}] /\ seen' = [r \in Runs |-> NoChecked]
      /\ source' = [r \in Runs |-> None] /\ found' = [r \in Runs |-> NoState]
      /\ patch' = [r \in Runs |-> NoStatus]
  BY DEF Restart
<1>t. TypeOK
  BY DEF TriggerInv
<1>2. TypeOK'
  <2>1. api' \in Object /\ cache' \in Object /\ pending' \in Seq(Object)
    BY <1>1, <1>t DEF TypeOK
  <2>2. /\ head' \in [Sources -> Commit] /\ edits' \in 0..MaxEdits
        /\ executed' \in [Sources -> SUBSET {Watched(state) : state \in CheckedState}]
        /\ repeated' \subseteq Sources
    BY <1>1, <1>t DEF TypeOK
  <2>3. /\ pc' \in [Runs -> Location] /\ then' \in [Runs -> Location]
        /\ todo' \in [Runs -> SUBSET Sources] /\ source' \in [Runs -> Sources \cup {None}]
        /\ found' \in [Runs -> CheckedState \cup {NoState}]
    BY <1>1 DEF Location
  <2>4. seen' \in [Runs -> Checked] /\ patch' \in [Runs -> Status]
    BY <1>1, NoCheckedType, NothingEnqueued
  <2> QED
    BY <2>1, <2>2, <2>3, <2>4 DEF TypeOK
<1>3. RunsInOrder'
  BY <1>1 DEF RunsInOrder
<1>4. CopiesEnqueued'
  <2>1. \A c : Enqueued(c)' = Enqueued(c)
    BY <1>1 DEF Enqueued
  <2>2. Enqueued(api.status.checked)
    BY DEF TriggerInv, CopiesEnqueued
  <2>3. Enqueued(api.status.checked)' /\ Enqueued(cache.status.checked)'
    BY <1>1, <2>2 DEF Enqueued
  <2>4. \A r \in Runs : Enqueued(seen[r])' /\ Enqueued(patch[r].checked)'
    BY <1>1, NothingEnqueued, NoCheckedType DEF Enqueued
  <2>5. Len(pending') = 0
    BY <1>1
  <2> QED
    BY <2>3, <2>4, <2>5 DEF CopiesEnqueued
<1> QED
  BY <1>2, <1>3, <1>4 DEF TriggerInv

\* The steps of the composition are steps of the trigger's task, leave it alone, or
\* end the process.
LEMMA FlowStep == TriggerInv /\ [FlowNext]_allVars => TriggerInv'
<1> SUFFICES ASSUME TriggerInv, [FlowNext]_allVars PROVE TriggerInv'
  OBVIOUS
<1>1. CASE TriggerStep \/ UNCHANGED allVars
  <2>1. [Next]_vars
    BY <1>1 DEF TriggerStep, Next, Step, allVars
  <2> QED
    BY <2>1, TriggerInvStep
<1>2. ASSUME NEW r \in Runs, Enqueue(r) PROVE TriggerInv'
  <2>1. [Next]_vars
    BY <1>2 DEF Enqueue, Next, Step
  <2> QED
    BY <2>1, TriggerInvStep
<1>3. CASE MakeJob \/ DropJob \/ ChangeCapacity \/ CloseQueue
  <2>1. [Next]_vars
    BY <1>3 DEF MakeJob, DropJob, ChangeCapacity, CloseQueue
  <2> QED
    BY <2>1, TriggerInvStep
<1>4. CASE Restart
  BY <1>4, RestartStep
<1> QED
  BY <1>1, <1>2, <1>3, <1>4 DEF FlowNext

\* The end of a process at any point of any run, with updates of the status under way
\* and Jobs waiting, never leaves checked_sources with a state for which no Job was
\* enqueued by this or an earlier process.
THEOREM RecordedAcrossRestarts == FlowSpec => []RecordedWasEnqueued
<1>1. TriggerInv => RecordedWasEnqueued
  BY DEF TriggerInv, CopiesEnqueued, Enqueued, RecordedWasEnqueued
<1>2. FlowInit => TriggerInv
  BY TriggerInvInit DEF FlowInit
<1> QED
  BY <1>1, <1>2, FlowStep, PTL DEF FlowSpec
=============================================================================
