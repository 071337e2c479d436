------------------------------ MODULE ActionJob -------------------------------
(***************************************************************************)
(* From a change that a trigger has found to the clone its Job works on:   *)
(* ActionExecutor::execute (src/resources/action.rs), which builds the Job *)
(* and asks for the runtime config again for every part of it, and the     *)
(* gitrepo-cloner (src/bin/gitrepo-cloner.rs), which runs in the Job's pod *)
(* much later and finds the repository, its secrets and its server as they *)
(* are by then.  It extends the start of the process (Startup), since a    *)
(* trigger may fire while the config is still being loaded.                *)
(***************************************************************************)
EXTENDS Startup, GitRepos, Sequences

CONSTANTS
    Actions,     \* the actions the trigger may have
    Specs,       \* [Kinds -> specs a repository of that kind may have]
    Secrets,     \* secrets that may exist: [<<namespace, name>> -> keys]
    Certs,       \* who may have signed the certificate of a git server
    TriggerNs,   \* namespace of the trigger, of its Job and of its GitRepo
    MaxCommit,   \* bound: commits of a repository are 1..MaxCommit
    MaxChanges   \* bound: changes of repositories, secrets and servers

\* The schema of a ClusterAction allows a ClusterGitRepo as its override only, and
\* a workdir of the action is one for all the parts that use it.
ASSUME ActionsAssumption ==
    \A a \in Actions :
        /\ \/ a.kind = "Action" /\ a.override \in Kinds \cup {Absent}
           \/ a.kind = "ClusterAction" /\ a.override \in {"ClusterGitRepo", Absent}
        /\ a.own \in {{}, {"mount", "destination", "workdir"}}
ASSUME SpecsAssumption == DOMAIN Specs = Kinds
ASSUME CertsAssumption == Certs \subseteq {"system", "custom", "unknown"}
ASSUME CommitsAssumption == MaxCommit \in Nat \ {0}
ASSUME ChangesAssumption == MaxChanges \in Nat

\* The parts of a Job that come from the config, in the order they are read:
\* images, mount paths and volume from one copy; the folder to clone to; the
\* service account and the two limits, three reads in the code; the folder the
\* variables tell; their prefix, one read per variable in the code.  No property
\* tells the reads of limits apart, nor those of prefix.
Parts == <<"mount", "destination", "limits", "workdir", "prefix">>

Own == -2    \* a part that the action gives itself

VARIABLES
    action,   \* the action of the trigger: its kind, its override, its own parts
    kind,     \* the kind of the trigger's source
    repos,    \* [Kinds -> the repository in the API server, or Absent]
    cached,   \* the trigger's source in the ApiCache
    secrets,  \* the secrets that exist
    cert,     \* who signed the certificate of the git server
    head,     \* [Kinds -> commit of the branch]
    served,   \* [Kinds -> commits the server still has]
    changes,  \* changes so far, up to MaxChanges
    job       \* the Job: its phase, commit, parts, and what it saw

accessVars == <<repos, cached, secrets, cert, head, served, changes>>
jobVars == <<startVars, action, kind, accessVars, job>>

\* Everything the outcome of a fetch depends on.
Access(repo) == [repo |-> repo, secrets |-> secrets, cert |-> cert]

NoAccess == [repo |-> Absent, secrets |-> Absent, cert |-> Absent]

NoJob == [phase |-> "none", commit |-> 0, parts |-> <<>>, cloned |-> 0, at |-> NoAccess]

JobTypeOK ==
    /\ StartTypeOK
    /\ action \in Actions
    /\ kind \in Kinds
    /\ \A k \in Kinds : repos[k] \in Specs[k] \cup {Absent}
    /\ cached \in Specs[kind] \cup {Absent}
    /\ DOMAIN secrets \subseteq DOMAIN Secrets
    /\ cert \in Certs
    /\ head \in [Kinds -> 1..MaxCommit]
    /\ served \in [Kinds -> SUBSET (1..MaxCommit)]
    /\ changes \in 0..MaxChanges
    /\ job.phase \in {"none", "build", "queued", "cloned", "failed", "panicked"}
    /\ Len(job.parts) <= Len(Parts)
    /\ \A i \in 1..Len(job.parts) : job.parts[i] \in Content \cup {Own}

JobInit ==
    /\ StartInit
    /\ action \in Actions
    /\ kind \in Kinds
    /\ repos \in {r \in [Kinds -> UNION {Specs[k] : k \in Kinds}] :
                    \A k \in Kinds : r[k] \in Specs[k]}
    /\ cached = Absent
    /\ secrets = Secrets
    /\ cert \in Certs
    /\ head = [k \in Kinds |-> 1]
    /\ served = [k \in Kinds |-> {1}]
    /\ changes = 0
    /\ job = NoJob

-----------------------------------------------------------------------------
\* source_override_spec: what a ClusterAction is overridden by is a ClusterGitRepo.
SourceOverride ==
    IF action.override = Absent \/ action.kind = "Action" THEN action.override
    ELSE "ClusterGitRepo"

\* The repositories that make a difference.
Involved == {kind, SourceOverride} \cap Kinds

-----------------------------------------------------------------------------
(* The world around: the API server, the git servers and the cache.        *)

\* Nobody looks at it before the main loop, while the Job is built and after the
\* clone: what changes then may as well have changed before or change later.
Environment ==
    /\ main = "loop"
    /\ job.phase \in {"none", "queued"}
    /\ UNCHANGED <<startVars, action, kind, job>>

\* The reflector delivers the trigger's source.
CacheRepo ==
    /\ cache_task = "running"
    /\ job.phase = "none"
    /\ cached # repos[kind]
    /\ Environment
    /\ cached' = repos[kind]
    /\ UNCHANGED <<repos, secrets, cert, head, served, changes>>

Change ==
    /\ changes < MaxChanges
    /\ Environment
    /\ changes' = changes + 1

EditRepo(k) ==
    /\ Change
    /\ \E spec \in (Specs[k] \cup {Absent}) \ {repos[k]} :
          repos' = [repos EXCEPT ![k] = spec]
    /\ UNCHANGED <<cached, secrets, cert, head, served>>

EditSecret ==
    /\ Change
    /\ \E s \in DOMAIN Secrets :
          secrets' = IF s \in DOMAIN secrets
                     THEN [t \in DOMAIN secrets \ {s} |-> secrets[t]]
                     ELSE [t \in DOMAIN secrets \cup {s} |-> Secrets[t]]
    /\ UNCHANGED <<repos, cached, cert, head, served>>

ChangeServer ==
    /\ Change
    /\ cert' \in Certs \ {cert}
    /\ UNCHANGED <<repos, cached, secrets, head, served>>

\* A push moves the branch; a forced one also takes away what it pointed to.
Push(k) ==
    /\ Environment
    /\ head[k] < MaxCommit
    /\ head' = [head EXCEPT ![k] = @ + 1]
    /\ \/ served' = [served EXCEPT ![k] = @ \cup {head'[k]}]
       \/ served' = [served EXCEPT ![k] = {head'[k]}]
    /\ UNCHANGED <<repos, cached, secrets, cert, changes>>

-----------------------------------------------------------------------------
(* The trigger's task (see TriggerCheck) and execute.                      *)

JobStep ==
    /\ main = "loop"
    /\ UNCHANGED <<startVars, action, kind, accessVars>>

\* A cell that is not set when it is unwrapped ends the trigger's task.
TriggerPanics ==
    /\ JobStep
    /\ job' = [job EXCEPT !.phase = "panicked"]

\* A run of the task finds a change: the source was in the cache and could be
\* fetched, with the secrets of the trigger's namespace.
FindChange ==
    /\ job.phase = "none"
    /\ IF cache_task # "running" THEN TriggerPanics
       ELSE /\ cached # Absent
            /\ FetchOutcome(kind, cached, TriggerNs, secrets, cert) = "ok"
            /\ JobStep
            /\ job' = [job EXCEPT !.phase = "build", !.commit = head[kind]]

\* Mutant: the destination of the clone does not look at the action's workdir.
ReadDestinationOnly(part) ==
    IF part \in action.own /\ part # "destination" THEN Own ELSE config

\* What a part gets: the action's own value or the one of the config now.
ReadConfig(part) == IF part \in action.own THEN Own ELSE config

\* create_job_spec, one read of the config at a time.
ReadPart ==
    /\ job.phase = "build"
    /\ Len(job.parts) < Len(Parts)
    /\ IF config = Unset THEN TriggerPanics
       ELSE /\ JobStep
            /\ job' = [job EXCEPT !.parts = Append(@, ReadConfig(Parts[Len(@) + 1]))]

\* The Job is put into the queue and created in the trigger's namespace later;
\* its parts stay as they are, and the model forgets them.
EnqueueJob ==
    /\ job.phase = "build"
    /\ Len(job.parts) = Len(Parts)
    /\ queue_task = "running"
    /\ JobStep
    /\ job' = [job EXCEPT !.phase = "queued", !.parts = <<>>]

\* The queue's cell is not set yet, or the receiver of its events went with its
\* task: execute returns the error, nothing is recorded, and a later run of the
\* trigger finds the change again.
EnqueueFails ==
    /\ job.phase = "build"
    /\ Len(job.parts) = Len(Parts)
    /\ queue_task # "running"
    /\ JobStep
    /\ job' = NoJob

-----------------------------------------------------------------------------
(* The cloner.                                                             *)

\* Mutant: the Job clones what the trigger watches.
ClonerArgsBranch ==
    IF SourceOverride = Absent THEN [kind |-> kind, reference |-> "branch"]
    ELSE [kind |-> SourceOverride, reference |-> "branch"]

\* The arguments: the commit that was found, or the reference of the override.
ClonerArgs ==
    IF SourceOverride = Absent THEN [kind |-> kind, reference |-> "commit"]
    ELSE [kind |-> SourceOverride, reference |-> "branch"]

\* The commit that the reference means now.
Wanted(args) == IF args.reference = "branch" THEN head[args.kind] ELSE job.commit

\* client.default_namespace() in the pod.
ClonerNs == TriggerNs

CanClone(args) ==
    LET repo == repos[args.kind]
    IN /\ repo # Absent
       /\ FetchOutcome(args.kind, repo, ClonerNs, secrets, cert) = "ok"
       /\ Wanted(args) \in served[args.kind]

\* get the repository, fetch_repo_ref, get_latest_commit and the checkout.
Clone ==
    /\ job.phase = "queued"
    /\ CanClone(ClonerArgs)
    /\ JobStep
    /\ job' = [job EXCEPT !.phase = "cloned", !.cloned = Wanted(ClonerArgs),
                          !.at = Access(repos[ClonerArgs.kind])]

\* An error of any step ends the pod, and the Job without another try: what keeps
\* the source from being fetched, and also an API server, a network or a disk that
\* fails for a moment.
CloneFails ==
    /\ job.phase = "queued"
    /\ JobStep
    /\ job' = [job EXCEPT !.phase = "failed"]

-----------------------------------------------------------------------------
BuildJob ==
    \/ FindChange
    \/ ReadPart
    \/ EnqueueJob \/ EnqueueFails
    \/ Clone \/ CloneFails

World ==
    \/ CacheRepo
    \/ \E k \in Involved : EditRepo(k) \/ Push(k)
    \/ EditSecret
    \/ ChangeServer

JobNext ==
    \/ StartNext /\ UNCHANGED <<action, kind, accessVars, job>>
    \/ World
    \/ BuildJob

\* The runtime polls the config task, and the API server answers it.
JobSpec == JobInit /\ [][JobNext]_jobVars /\ WF_jobVars(LoadConfig /\ UNCHANGED <<action, kind, accessVars, job>>)

-----------------------------------------------------------------------------
(* Properties.                                                             *)

\* The worker finds the clone: the folder the cloner writes to, the one where
\* the volume is mounted and the one the variables tell are the action's own,
\* or come from the same config, unless it was loaded again between the reads;
\* a later read never gets an older config.
WorkdirsAgree ==
    Len(job.parts) = Len(Parts) =>
        LET mount == job.parts[1]
            destination == job.parts[2]
            workdir == job.parts[4]
        IN /\ mount = Own <=> destination = Own
           /\ mount = Own <=> workdir = Own
           /\ mount <= destination /\ destination <= workdir /\ workdir <= config

\* However long a Job waits and whatever is pushed meanwhile, what it works on
\* is the commit that made the trigger fire, unless the action has an override.
ClonedIsTriggered ==
    job.phase = "cloned" /\ action.override = Absent => job.cloned = job.commit

\* Nothing is cloned without leave: a GitRepo takes its credentials and its
\* authority from secrets of its own namespace only, whatever namespace it names,
\* and a server whose certificate neither the system nor an authority of the spec
\* confirms is used only where the spec turns the verification off.
AccessIsJustified ==
    job.phase = "cloned" =>
        LET repo == job.at.repo
            has_ca == repo.tls # Absent /\ repo.tls.ca_cert # Absent
            confirmed == job.at.cert = "system" \/ (job.at.cert = "custom" /\ has_ca)
            in_own_ns(ref) == <<TriggerNs, ref.name>> \in DOMAIN job.at.secrets
        IN /\ ClonerArgs.kind = "GitRepo" =>
                 /\ repo.auth # Absent => in_own_ns(repo.auth.secret_ref)
                 /\ has_ca => in_own_ns(repo.tls.ca_cert)
           /\ repo.schema = "https" /\ ~confirmed =>
                 repo.tls # Absent /\ repo.tls.no_verify_ssl
=============================================================================
