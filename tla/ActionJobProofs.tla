--------------------------- MODULE ActionJobProofs ----------------------------
(***************************************************************************)
(* Theorems about the start of the process, the runtime config and the way *)
(* of a Job from the change a trigger found to its clone, for any contents *)
(* of the ConfigMap, any actions, repositories and secrets.                *)
(***************************************************************************)
EXTENDS ActionJob, SequenceTheorems, TLAPS

-----------------------------------------------------------------------------
(* The start of the process and the config.                                *)

\* The config task is the only one that sets the config's cell, and never clears it.
CellsSet ==
    /\ config_task \notin {"none", "spawned"} => config # Unset
    /\ main = "spawn" => config_task = "none"

\* The config is never newer than what its readers have seen of the ConfigMap.
ConfigInOrder ==
    /\ config_task \in {"none", "spawned"} => config = Unset
    /\ config_task \in {"get", "reply"} => config = 0
    /\ config <= cm /\ delivered <= cm /\ fetched <= cm
    /\ config_task = "watch" => config <= delivered

StartInv == StartTypeOK /\ CellsSet /\ ConfigInOrder

LEMMA StartInvInit == StartInit => StartInv
<1> SUFFICES ASSUME StartInit PROVE StartInv
  OBVIOUS
<1>1. StartTypeOK
  BY ContentAssumption, DesyncsAssumption DEF StartInit, StartTypeOK, Content
<1>2. CellsSet /\ ConfigInOrder
  BY DEF StartInit, CellsSet, ConfigInOrder, Unset
<1> QED
  BY <1>1, <1>2 DEF StartInv

\* run itself, up to its main loop.
LEMMA RunStep ==
    ASSUME StartInv, Run
    PROVE  StartInv' /\ UNCHANGED config
<1>t. StartTypeOK /\ CellsSet /\ ConfigInOrder
  BY DEF StartInv
<1>c. UNCHANGED <<cm, fetched, delivered, desyncs, config>>
  BY DEF Run, SpawnDetached, BuildLease, LeaseFails, SpawnQueue, BuildWeb, BuildWebFails, Abort,
         Continue
<1>1. CASE SpawnDetached
  <2>1. /\ main = "spawn" /\ main' = "lease" /\ config_task' = "spawned" /\ cache_task' = "spawned"
        /\ UNCHANGED queue_task
    BY <1>1 DEF SpawnDetached, Continue
  <2>2. config = Unset
    BY <1>t, <2>1 DEF CellsSet, ConfigInOrder
  <2> QED
    BY <1>c, <1>t, <2>1, <2>2 DEF StartInv, StartTypeOK, CellsSet, ConfigInOrder
<1>2. CASE BuildLease
  BY <1>2, <1>c, <1>t DEF BuildLease, Continue, StartInv, StartTypeOK, CellsSet, ConfigInOrder
<1>3. CASE LeaseFails \/ BuildWebFails
  BY <1>3, <1>c, <1>t DEF LeaseFails, BuildWebFails, Abort, Continue, StartInv, StartTypeOK,
                          CellsSet, ConfigInOrder
<1>4. CASE SpawnQueue
  BY <1>4, <1>c, <1>t DEF SpawnQueue, Continue, StartInv, StartTypeOK, CellsSet, ConfigInOrder
<1>5. CASE BuildWeb
  BY <1>5, <1>c, <1>t DEF BuildWeb, Continue, StartInv, StartTypeOK, CellsSet, ConfigInOrder
<1> QED
  BY <1>1, <1>2, <1>3, <1>4, <1>5, <1>c DEF Run
\* The first poll of the tasks that run has spawned.
LEMMA PollStep ==
    ASSUME StartInv, SetStores \/ StartQueue
    PROVE  StartInv' /\ UNCHANGED config
<1>t. StartTypeOK /\ CellsSet /\ ConfigInOrder
  BY DEF StartInv
<1>1. CASE SetStores
  BY <1>1, <1>t DEF SetStores, StartInv, StartTypeOK, CellsSet, ConfigInOrder
<1>2. CASE StartQueue
  <2>1. /\ queue_task' \in {"panicked", "running"}
        /\ UNCHANGED <<cm, main, config_task, fetched, delivered, desyncs, config, cache_task>>
    BY <1>2 DEF StartQueue
  <2> QED
    BY <1>t, <2>1 DEF StartInv, StartTypeOK, CellsSet, ConfigInOrder
<1> QED
  BY <1>1, <1>2

LEMMA TryFromType ==
    ASSUME NEW c \in Content, NEW d \in Content
    PROVE  TryFrom(c, d) \in {c, d}
BY DEF TryFrom

\* The task of the config, and the ConfigMap it reads.
LEMMA ConfigStep ==
    ASSUME StartInv, LoadConfig \/ Desync \/ WriteConfigMap
    PROVE  StartInv' /\ (config # Unset => config' >= config)
<1>t. /\ StartTypeOK /\ CellsSet /\ ConfigInOrder
      /\ cm \in 0..MaxContent /\ fetched \in 0..MaxContent /\ delivered \in 0..MaxContent
      /\ config \in 0..MaxContent \cup {-1} /\ MaxContent \in Nat
  BY ContentAssumption DEF StartInv, StartTypeOK, Content, Unset
<1>1. CASE SetCell
  <2>1. /\ config_task = "spawned" /\ config_task' = "get" /\ config' = 0
        /\ UNCHANGED <<cm, main, cache_task, queue_task, fetched, delivered, desyncs>>
    BY <1>1 DEF SetCell, ConfigTask
  <2>2. config = Unset
    BY <1>t, <2>1 DEF ConfigInOrder
  <2>3. StartTypeOK'
    BY <1>t, <2>1 DEF StartTypeOK, Content
  <2>4. CellsSet' /\ ConfigInOrder'
    BY <1>t, <2>1 DEF CellsSet, ConfigInOrder, Unset
  <2> QED
    BY <2>2, <2>3, <2>4 DEF StartInv
<1>2. CASE GetAnswered
  <2>1. /\ config_task = "get" /\ config_task' = "reply" /\ fetched' \in {cm, 0}
        /\ UNCHANGED <<cm, main, cache_task, queue_task, config, delivered, desyncs>>
    BY <1>2 DEF GetAnswered, ConfigTask
  <2>2. StartTypeOK'
    BY <1>t, <2>1 DEF StartTypeOK, Content
  <2>3. CellsSet' /\ ConfigInOrder'
    BY <1>t, <2>1 DEF CellsSet, ConfigInOrder
  <2> QED
    BY <1>t, <2>1, <2>2, <2>3 DEF StartInv
<1>3. CASE LoadInitial
  <2>1. /\ config_task = "reply" /\ config_task' = "list" /\ config' = TryFrom(fetched, 0)
        /\ fetched' = 0
        /\ UNCHANGED <<cm, main, cache_task, queue_task, delivered, desyncs>>
    BY <1>3 DEF LoadInitial, ConfigTask
  <2>2. config = 0 /\ config' \in {fetched, 0}
    BY <1>t, <2>1 DEF ConfigInOrder, TryFrom
  <2>3. StartTypeOK'
    BY <1>t, <2>1, <2>2 DEF StartTypeOK, Content
  <2>4. CellsSet' /\ ConfigInOrder'
    BY <1>t, <2>1, <2>2 DEF CellsSet, ConfigInOrder, Unset
  <2> QED
    BY <1>t, <2>2, <2>3, <2>4 DEF StartInv
<1>4. CASE List
  <2>1. /\ config_task = "list" /\ config_task' = "watch" /\ delivered' = cm
        /\ config' = TryFrom(cm, config)
        /\ UNCHANGED <<cm, main, cache_task, queue_task, fetched, desyncs>>
    BY <1>4 DEF List, ConfigTask, Applied
  <2>2. config # Unset /\ config <= cm /\ config' \in {cm, config}
    BY <1>t, <2>1 DEF CellsSet, ConfigInOrder, TryFrom
  <2>3. StartTypeOK'
    BY <1>t, <2>1, <2>2 DEF StartTypeOK, Content
  <2>4. CellsSet' /\ ConfigInOrder'
    BY <1>t, <2>1, <2>2 DEF CellsSet, ConfigInOrder, Unset
  <2> QED
    BY <1>t, <2>2, <2>3, <2>4 DEF StartInv
<1>5. CASE WatchEvent
  <2>1. /\ config_task = "watch" /\ delivered < cm /\ delivered' = delivered + 1
        /\ config' = TryFrom(delivered + 1, config)
        /\ UNCHANGED <<cm, main, config_task, cache_task, queue_task, fetched, desyncs>>
    BY <1>5 DEF WatchEvent, ConfigTask, Applied
  <2>2. config # Unset /\ config <= delivered /\ config' \in {delivered + 1, config}
    BY <1>t, <2>1 DEF CellsSet, ConfigInOrder, TryFrom
  <2>3. StartTypeOK'
    BY <1>t, <2>1, <2>2 DEF StartTypeOK, Content
  <2>4. CellsSet' /\ ConfigInOrder'
    BY <1>t, <2>1, <2>2 DEF CellsSet, ConfigInOrder, Unset
  <2> QED
    BY <1>t, <2>1, <2>2, <2>3, <2>4 DEF StartInv
<1>6. CASE Desync
  <2>1. /\ config_task = "watch" /\ config_task' = "list" /\ desyncs' \in 0..MaxDesyncs
        /\ UNCHANGED <<cm, main, cache_task, queue_task, config, fetched, delivered>>
    BY <1>6, <1>t, DesyncsAssumption DEF Desync, ConfigTask, StartTypeOK
  <2>2. StartTypeOK' /\ CellsSet' /\ ConfigInOrder'
    BY <1>t, <2>1 DEF StartTypeOK, CellsSet, ConfigInOrder
  <2> QED
    BY <1>t, <2>1, <2>2 DEF StartInv
<1>7. CASE WriteConfigMap
  <2>1. /\ cm' = cm + 1 /\ cm' \in Content
        /\ UNCHANGED <<main, config_task, fetched, delivered, desyncs, config, cache_task,
                       queue_task>>
    BY <1>7, <1>t DEF WriteConfigMap, Content
  <2>2. StartTypeOK' /\ CellsSet'
    BY <1>t, <2>1 DEF StartTypeOK, CellsSet
  <2>3. ConfigInOrder'
    BY <1>t, <2>1 DEF ConfigInOrder
  <2> QED
    BY <1>t, <2>1, <2>2, <2>3 DEF StartInv
<1> QED
  BY <1>1, <1>2, <1>3, <1>4, <1>5, <1>6, <1>7 DEF LoadConfig

LEMMA StartInvStep ==
    ASSUME StartInv, StartNext \/ UNCHANGED startVars
    PROVE  StartInv' /\ (config # Unset => config' >= config)
<1>1. config >= config
  BY DEF StartInv, StartTypeOK, Content, Unset
<1>2. CASE UNCHANGED startVars
  BY <1>1, <1>2 DEF startVars, StartInv, StartTypeOK, CellsSet, ConfigInOrder
<1> QED
  BY <1>1, <1>2, RunStep, PollStep, ConfigStep DEF StartNext

-----------------------------------------------------------------------------
(* The Job.                                                                *)

JobShape ==
    job = [phase |-> job.phase, commit |-> job.commit, parts |-> job.parts,
           cloned |-> job.cloned, at |-> job.at]

\* What has been read of the config: the action's own parts, and contents of which a
\* later one is never older.
PartsInOrder ==
    /\ job.parts \in Seq(Int)
    /\ \A i \in 1..Len(job.parts) :
          IF Parts[i] \in action.own THEN job.parts[i] = Own
          ELSE job.parts[i] \in Content /\ job.parts[i] <= config
    /\ \A i, j \in 1..Len(job.parts) :
          i < j /\ Parts[j] \notin action.own => job.parts[i] <= job.parts[j]

JobInv ==
    /\ StartInv /\ JobShape /\ PartsInOrder
    /\ action \in Actions /\ kind \in Kinds
    /\ ClonedIsTriggered /\ AccessIsJustified

LEMMA JobInvInit == JobInit => JobInv
<1> SUFFICES ASSUME JobInit PROVE JobInv
  OBVIOUS
<1>1. StartInv /\ action \in Actions /\ kind \in Kinds /\ job = NoJob
  BY StartInvInit DEF JobInit
<1>2. JobShape /\ job.phase = "none" /\ job.parts = <<>>
  BY <1>1 DEF JobShape, NoJob
<1>3. PartsInOrder
  BY <1>2 DEF PartsInOrder
<1> QED
  BY <1>1, <1>2, <1>3 DEF JobInv, ClonedIsTriggered, AccessIsJustified

\* The config goes on under a Job that has been begun.
LEMMA ConfigUnderJob ==
    ASSUME JobInv, StartInv', config # Unset => config' >= config,
           UNCHANGED <<action, kind, job>>
    PROVE  JobInv'
<1>1. config \in Content \cup {Unset} /\ config' \in Content \cup {Unset}
  BY DEF JobInv, StartInv, StartTypeOK
<1>2. config <= config'
  BY <1>1, ContentAssumption DEF Content, Unset
<1>3. PartsInOrder'
  <2>1. ASSUME NEW i \in 1..Len(job.parts), job.parts[i] \in Content, job.parts[i] <= config
        PROVE  job.parts[i] <= config'
    BY <1>1, <1>2, <2>1 DEF Content, Unset
  <2> QED
    BY <2>1 DEF JobInv, PartsInOrder
<1>4. JobShape' /\ ClonedIsTriggered' /\ AccessIsJustified'
  BY DEF JobInv, JobShape, ClonedIsTriggered, AccessIsJustified, ClonerArgs, SourceOverride
<1> QED
  BY <1>3, <1>4 DEF JobInv

LEMMA WorldStep ==
    ASSUME JobInv, World
    PROVE  JobInv'
<1>1. Environment
  BY DEF World, CacheRepo, EditRepo, Push, EditSecret, ChangeServer, Change
<1>2. UNCHANGED <<startVars, action, kind, job>>
  BY <1>1 DEF Environment
<1>3. StartInv' /\ (config # Unset => config' >= config)
  BY <1>2, StartInvStep DEF JobInv
<1> QED
  BY <1>2, <1>3, ConfigUnderJob

\* What a step of the Job leaves alone.
LEMMA JobStepKeeps ==
    ASSUME JobInv, JobStep
    PROVE  /\ StartInv' /\ UNCHANGED config
           /\ UNCHANGED <<action, kind, repos, secrets, cert, head, served>>
           /\ action \in Actions /\ kind \in Kinds
<1>1. UNCHANGED <<startVars, action, kind, accessVars>>
  BY DEF JobStep
<1>2. StartInv'
  BY <1>1, StartInvStep DEF JobInv
<1> QED
  BY <1>1, <1>2 DEF startVars, accessVars, JobInv

\* A step that neither reads a part nor clones.
LEMMA PhaseStep ==
    ASSUME JobInv, JobStep, NEW p, NEW c, p # "cloned", NEW q, q \in {job.parts, <<>>},
           job' = [job EXCEPT !.phase = p, !.commit = c, !.parts = q]
    PROVE  JobInv'
<1>1. /\ StartInv' /\ UNCHANGED <<config, action, kind>>
      /\ action \in Actions /\ kind \in Kinds
  BY JobStepKeeps
<1>2. job' = [phase |-> p, commit |-> c, parts |-> q, cloned |-> job.cloned, at |-> job.at]
  BY DEF JobInv, JobShape
<1>3. job'.phase = p /\ job'.parts = q /\ JobShape'
  BY <1>2 DEF JobShape
<1>4. CASE q = job.parts
  <2>1. PartsInOrder'
    BY <1>1, <1>3, <1>4 DEF JobInv, PartsInOrder
  <2> QED
    BY <1>1, <1>3, <2>1 DEF JobInv, ClonedIsTriggered, AccessIsJustified
<1>5. CASE q = <<>>
  <2>1. PartsInOrder'
    BY <1>3, <1>5 DEF PartsInOrder
  <2> QED
    BY <1>1, <1>3, <2>1 DEF JobInv, ClonedIsTriggered, AccessIsJustified
<1> QED
  BY <1>4, <1>5

\* The run panics, finds a change, or hands the Job to the queue; or the clone fails.
LEMMA PanicStep ==
    ASSUME JobInv, TriggerPanics
    PROVE  JobInv'
<1>1. JobStep /\ job' = [job EXCEPT !.phase = "panicked"]
  BY DEF TriggerPanics
<1>2. job' = [job EXCEPT !.phase = "panicked", !.commit = job.commit, !.parts = job.parts]
  BY <1>1 DEF JobInv, JobShape
<1> QED
  BY <1>1, <1>2, PhaseStep

LEMMA FindChangeStep ==
    ASSUME JobInv, FindChange
    PROVE  JobInv'
<1>1. CASE cache_task # "running"
  BY <1>1, PanicStep DEF FindChange
<1>2. CASE cache_task = "running"
  <2>1. JobStep /\ job' = [job EXCEPT !.phase = "build", !.commit = head[kind]]
    BY <1>2 DEF FindChange
  <2>2. job' = [job EXCEPT !.phase = "build", !.commit = head[kind], !.parts = job.parts]
    BY <2>1 DEF JobInv, JobShape
  <2> QED
    BY <2>1, <2>2, PhaseStep
<1> QED
  BY <1>1, <1>2

LEMMA EnqueueStep ==
    ASSUME JobInv, EnqueueJob
    PROVE  JobInv'
<1>1. JobStep /\ job' = [job EXCEPT !.phase = "queued", !.parts = <<>>]
  BY DEF EnqueueJob
<1>2. job' = [job EXCEPT !.phase = "queued", !.commit = job.commit, !.parts = <<>>]
  BY <1>1 DEF JobInv, JobShape
<1> QED
  BY <1>1, <1>2, PhaseStep

LEMMA EnqueueFailsStep ==
    ASSUME JobInv, EnqueueFails
    PROVE  JobInv'
<1>1. JobStep /\ job' = NoJob
  BY DEF EnqueueFails
<1>2. /\ StartInv' /\ UNCHANGED <<config, action, kind>>
      /\ action \in Actions /\ kind \in Kinds
  BY <1>1, JobStepKeeps
<1>3. JobShape' /\ job'.phase = "none" /\ job'.parts = <<>>
  BY <1>1 DEF JobShape, NoJob
<1>4. PartsInOrder'
  BY <1>3 DEF PartsInOrder
<1> QED
  BY <1>2, <1>3, <1>4 DEF JobInv, ClonedIsTriggered, AccessIsJustified

LEMMA CloneFailsStep ==
    ASSUME JobInv, CloneFails
    PROVE  JobInv'
<1>1. JobStep /\ job' = [job EXCEPT !.phase = "failed"]
  BY DEF CloneFails
<1>2. job' = [job EXCEPT !.phase = "failed", !.commit = job.commit, !.parts = job.parts]
  BY <1>1 DEF JobInv, JobShape
<1> QED
  BY <1>1, <1>2, PhaseStep

\* The parts are read in order, each with the config as it is by then.
LEMMA PartReadStep ==
    ASSUME JobInv, ReadPart, config # Unset
    PROVE  JobInv'
<1> DEFINE n == Len(job.parts)
           new == ReadConfig(Parts[n + 1])
<1>1. /\ job.phase = "build" /\ n < Len(Parts) /\ JobStep
      /\ job' = [job EXCEPT !.parts = Append(job.parts, new)]
  BY DEF ReadPart
<1>2. /\ StartInv' /\ UNCHANGED <<config, action, kind>> /\ action \in Actions /\ kind \in Kinds
  BY <1>1, JobStepKeeps
<1>3. job' = [phase |-> job.phase, commit |-> job.commit, parts |-> Append(job.parts, new),
              cloned |-> job.cloned, at |-> job.at]
  BY <1>1 DEF JobInv, JobShape
<1>4. config \in Content /\ config \in Int /\ n \in Nat /\ job.parts \in Seq(Int)
  BY DEF JobInv, StartInv, StartTypeOK, Content, PartsInOrder
<1>5. IF Parts[n + 1] \in action.own THEN new = Own ELSE new = config
  BY DEF ReadConfig
<1>6. new \in Int
  BY <1>4, <1>5 DEF Own
<1> HIDE DEF new
<1>7. /\ job'.phase = "build" /\ JobShape' /\ job'.parts = Append(job.parts, new)
  BY <1>1, <1>3 DEF JobShape
<1>8. /\ job'.parts \in Seq(Int) /\ Len(job'.parts) = n + 1 /\ job'.parts[n + 1] = new
      /\ \A i \in 1..n : job'.parts[i] = job.parts[i]
  BY <1>4, <1>6, <1>7
<1>9. ASSUME NEW i \in 1..Len(job'.parts)
       PROVE  IF Parts[i] \in action.own THEN job'.parts[i] = Own
              ELSE job'.parts[i] \in Content /\ job'.parts[i] <= config
  <2>1. CASE i = n + 1
    BY <1>4, <1>5, <1>8, <2>1
  <2>2. CASE i \in 1..n
    BY <1>8, <2>2 DEF JobInv, PartsInOrder
  <2> QED
    BY <1>4, <1>8, <2>1, <2>2
<1>10. ASSUME NEW i \in 1..Len(job'.parts), NEW j \in 1..Len(job'.parts), i < j,
              Parts[j] \notin action.own
       PROVE  job'.parts[i] <= job'.parts[j]
  <2>1. i \in 1..n
    BY <1>4, <1>8, <1>10
  <2>2. CASE j \in 1..n
    BY <1>8, <1>10, <2>1, <2>2 DEF JobInv, PartsInOrder
  <2>3. CASE j = n + 1
    <3>1. job'.parts[j] = config
      BY <1>5, <1>8, <1>10, <2>3
    <3>2. job'.parts[i] = Own \/ job'.parts[i] <= config
      BY <1>9
    <3> QED
      BY <1>4, <3>1, <3>2 DEF Own, Content
  <2> QED
    BY <1>4, <1>8, <2>2, <2>3
<1>11. PartsInOrder'
  BY <1>2, <1>8, <1>9, <1>10 DEF PartsInOrder
<1> QED
  BY <1>2, <1>7, <1>11 DEF JobInv, ClonedIsTriggered, AccessIsJustified

LEMMA ReadPartStep ==
    ASSUME JobInv, ReadPart
    PROVE  JobInv'
<1>1. config = Unset => TriggerPanics
  BY DEF ReadPart
<1> QED
  BY <1>1, PanicStep, PartReadStep

-----------------------------------------------------------------------------
(* The cloner.                                                             *)

\* What has been fetched was readable and came from a server that is trusted.
LEMMA FetchedIsJustified ==
    ASSUME NEW k, NEW repo, NEW ns, NEW s, NEW c, FetchOutcome(k, repo, ns, s, c) = "ok"
    PROVE  /\ k = "GitRepo" /\ repo.auth # Absent => <<ns, repo.auth.secret_ref.name>> \in DOMAIN s
           /\ k = "GitRepo" /\ repo.tls # Absent /\ repo.tls.ca_cert # Absent =>
                 <<ns, repo.tls.ca_cert.name>> \in DOMAIN s
           /\ \/ repo.schema # "https"
              \/ c = "system"
              \/ c = "custom" /\ repo.tls # Absent /\ repo.tls.ca_cert # Absent
              \/ repo.tls # Absent /\ repo.tls.no_verify_ssl
<1>1. AuthReadable(k, repo, ns, s) /\ CaReadable(k, repo, ns, s) /\ CertificateOk(repo, c)
  BY DEF FetchOutcome
<1>2. \A ref : k = "GitRepo" => SecretNs(k, ref, ns) = ns
  BY DEF SecretNs, IsNamespaced
<1>3. k = "GitRepo" /\ repo.auth # Absent => <<ns, repo.auth.secret_ref.name>> \in DOMAIN s
  BY <1>1, <1>2 DEF AuthReadable, HasKeys
<1>4. k = "GitRepo" /\ repo.tls # Absent /\ repo.tls.ca_cert # Absent =>
         <<ns, repo.tls.ca_cert.name>> \in DOMAIN s
  BY <1>1, <1>2 DEF CaReadable, HasKeys
<1>5. \/ repo.schema # "https"
      \/ c = "system"
      \/ c = "custom" /\ repo.tls # Absent /\ repo.tls.ca_cert # Absent
      \/ repo.tls # Absent /\ repo.tls.no_verify_ssl
  BY <1>1 DEF CertificateOk
<1> QED
  BY <1>3, <1>4, <1>5

\* Without an override the arguments name the source and the commit of the trigger.
LEMMA ArgsOfTrigger ==
    ASSUME action.override = Absent
    PROVE  ClonerArgs.kind = kind /\ Wanted(ClonerArgs) = job.commit
<1>1. ClonerArgs = [kind |-> kind, reference |-> "commit"]
  BY DEF ClonerArgs, SourceOverride
<1> QED
  BY <1>1 DEF Wanted

LEMMA CloneStep ==
    ASSUME JobInv, Clone
    PROVE  JobInv'
<1> DEFINE args == ClonerArgs
           repo == repos[args.kind]
<1>1. /\ job.phase = "queued" /\ CanClone(args) /\ JobStep
      /\ job' = [job EXCEPT !.phase = "cloned", !.cloned = Wanted(args), !.at = Access(repo)]
  BY DEF Clone
<1>2. /\ StartInv' /\ UNCHANGED <<config, action, kind>>
      /\ action \in Actions /\ kind \in Kinds
  BY <1>1, JobStepKeeps
<1>3. job' = [phase |-> "cloned", commit |-> job.commit, parts |-> job.parts,
              cloned |-> Wanted(args), at |-> Access(repo)]
  BY <1>1 DEF JobInv, JobShape
<1>4. /\ job'.phase = "cloned" /\ job'.parts = job.parts
      /\ job'.commit = job.commit /\ job'.cloned = Wanted(args)
      /\ job'.at.repo = repo /\ job'.at.secrets = secrets /\ job'.at.cert = cert
      /\ JobShape'
  BY <1>3 DEF JobShape, Access
<1>5. PartsInOrder'
  BY <1>2, <1>4 DEF JobInv, PartsInOrder
<1>6. ClonedIsTriggered'
  BY <1>2, <1>4, ArgsOfTrigger DEF ClonedIsTriggered
<1>7. FetchOutcome(args.kind, repo, TriggerNs, secrets, cert) = "ok"
  BY <1>1 DEF CanClone, ClonerNs
<1>8. UNCHANGED ClonerArgs
  BY <1>2 DEF ClonerArgs, SourceOverride
<1> HIDE DEF args, repo
<1>9. /\ args.kind = "GitRepo" /\ repo.auth # Absent =>
            <<TriggerNs, repo.auth.secret_ref.name>> \in DOMAIN secrets
      /\ args.kind = "GitRepo" /\ repo.tls # Absent /\ repo.tls.ca_cert # Absent =>
            <<TriggerNs, repo.tls.ca_cert.name>> \in DOMAIN secrets
      /\ \/ repo.schema # "https"
         \/ cert = "system"
         \/ cert = "custom" /\ repo.tls # Absent /\ repo.tls.ca_cert # Absent
         \/ repo.tls # Absent /\ repo.tls.no_verify_ssl
  BY <1>7, FetchedIsJustified
<1>10. AccessIsJustified'
  BY <1>4, <1>8, <1>9 DEF AccessIsJustified, args
<1> QED
  BY <1>2, <1>4, <1>5, <1>6, <1>10 DEF JobInv

-----------------------------------------------------------------------------
LEMMA JobInvStep ==
    ASSUME JobInv, [JobNext]_jobVars
    PROVE  JobInv' /\ (config # Unset => config' >= config)
<1>1. ASSUME StartNext \/ UNCHANGED startVars, UNCHANGED <<action, kind, accessVars, job>>
      PROVE  JobInv' /\ (config # Unset => config' >= config)
  <2>1. StartInv' /\ (config # Unset => config' >= config)
    BY <1>1, StartInvStep DEF JobInv
  <2> QED
    BY <1>1, <2>1, ConfigUnderJob DEF accessVars
<1>2. config >= config
  BY DEF JobInv, StartInv, StartTypeOK, Content, Unset
<1>3. CASE World
  <2>1. UNCHANGED config
    BY <1>3 DEF World, CacheRepo, EditRepo, Push, EditSecret, ChangeServer, Change, Environment,
                startVars
  <2> QED
    BY <1>2, <1>3, <2>1, WorldStep
<1>4. CASE BuildJob
  <2>1. UNCHANGED config
    BY <1>4 DEF BuildJob, FindChange, ReadPart, EnqueueJob, EnqueueFails, Clone, CloneFails,
                TriggerPanics, JobStep, startVars
  <2> QED
    BY <1>2, <1>4, <2>1, FindChangeStep, ReadPartStep, EnqueueStep,
       EnqueueFailsStep, CloneStep, CloneFailsStep DEF BuildJob
<1>5. UNCHANGED jobVars => UNCHANGED startVars /\ UNCHANGED <<action, kind, accessVars, job>>
  BY DEF jobVars
<1> QED
  BY <1>1, <1>3, <1>4, <1>5 DEF JobNext

LEMMA JobInvariant == JobSpec => []JobInv
<1>1. JobInv /\ [JobNext]_jobVars => JobInv'
  BY JobInvStep
<1> QED
  BY <1>1, JobInvInit, PTL DEF JobSpec

\* RuntimeConfig::init_and_watch of src/config.rs never replaces the config by an older
\* content of the ConfigMap, however often the watch starts again.
THEOREM ConfigNeverGoesBackCorrect == JobSpec => ConfigNeverGoesBack
<1>1. JobInv /\ [JobNext]_jobVars => [config # Unset => config' >= config]_startVars
  BY JobInvStep
<1> QED
  BY <1>1, JobInvariant, PTL DEF JobSpec, ConfigNeverGoesBack

\* create_job_spec of src/resources/action.rs asks for the config several times: the
\* cloner's folder, the mount and the variables agree on whether they are the action's
\* own, and a later read is never older.
THEOREM WorkdirsAgreeCorrect == JobSpec => []WorkdirsAgree
<1>1. ASSUME JobInv PROVE WorkdirsAgree
  <2> SUFFICES ASSUME Len(job.parts) = Len(Parts)
               PROVE  /\ job.parts[1] = Own <=> job.parts[2] = Own
                      /\ job.parts[1] = Own <=> job.parts[4] = Own
                      /\ job.parts[1] <= job.parts[2] /\ job.parts[2] <= job.parts[4]
                      /\ job.parts[4] <= config
    BY DEF WorkdirsAgree
  <2>1. /\ Len(job.parts) = 5 /\ Parts[1] = "mount" /\ Parts[2] = "destination"
        /\ Parts[4] = "workdir"
    BY DEF Parts
  <2>2. action.own \in {{}, {"mount", "destination", "workdir"}}
    BY <1>1, ActionsAssumption DEF JobInv
  <2>3. config \in Content \cup {Unset}
    BY <1>1 DEF JobInv, StartInv, StartTypeOK
  <2>4. /\ \A i \in 1..5 : IF Parts[i] \in action.own THEN job.parts[i] = Own
                            ELSE job.parts[i] \in Content /\ job.parts[i] <= config
        /\ \A i, j \in 1..5 : i < j /\ Parts[j] \notin action.own => job.parts[i] <= job.parts[j]
    BY <1>1, <2>1 DEF JobInv, PartsInOrder
  <2>5. CASE action.own = {}
    <3>1. /\ \A i \in {1, 2, 4} : job.parts[i] \in Content /\ job.parts[i] <= config
          /\ job.parts[1] <= job.parts[2] /\ job.parts[2] <= job.parts[4]
      BY <2>4, <2>5
    <3> QED
      BY <3>1 DEF Content, Own
  <2>6. CASE action.own = {"mount", "destination", "workdir"}
    <3>1. \A i \in {1, 2, 4} : job.parts[i] = Own
      BY <2>1, <2>4, <2>6
    <3> QED
      BY <2>3, <3>1 DEF Own, Content, Unset
  <2> QED
    BY <2>2, <2>5, <2>6
<1> QED
  BY <1>1, JobInvariant, PTL

\* The commit that made the trigger fire is the one that the arguments of the gitrepo-cloner
\* name, whatever is pushed while the Job waits.
THEOREM ClonedIsTriggeredCorrect == JobSpec => []ClonedIsTriggered
<1>1. JobInv => ClonedIsTriggered
  BY DEF JobInv
<1> QED
  BY <1>1, JobInvariant, PTL

\* For every spec of a repository: a clone needs the secrets of a GitRepo, of its
\* credentials and of its authority, in its own namespace, and a certificate that neither
\* the system nor that authority confirms is taken only where the spec says so.
THEOREM AccessIsJustifiedCorrect == JobSpec => []AccessIsJustified
<1>1. JobInv => AccessIsJustified
  BY DEF JobInv
<1> QED
  BY <1>1, JobInvariant, PTL
=============================================================================
