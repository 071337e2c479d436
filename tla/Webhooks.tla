------------------------------- MODULE Webhooks -------------------------------
(***************************************************************************)
(* The webhook server of src/web.rs for one WebhookTrigger: the handlers   *)
(* of the two kinds of requests, check_hook_authorization on top of the    *)
(* SecretsCache, and the shutdown of build_hooks_web, which waits for the  *)
(* handlers a bounded number of times before it shuts the scheduler down.  *)
(***************************************************************************)
EXTENDS SecretsCache, FiniteSets

CONSTANTS
    Names,       \* names of sources
    Hooks,       \* what the user may make of the trigger
    Headers,     \* values of the authorization header; Err: it is missing
    MaxEdits,    \* bound: changes of the trigger
    Attempts     \* how often the shutdown looks whether the scheduler is free

NoHook == [exists |-> FALSE, auth |-> FALSE, multi_source |-> FALSE, names |-> {}]

All == "all_sources"

ASSUME HooksAssumption ==
    Hooks \subseteq [exists : {TRUE}, auth : BOOLEAN, multi_source : BOOLEAN,
                     names : SUBSET Names]
ASSUME HeadersAssumption == Headers \subseteq Version \cup {Err}
ASSUME AttemptsAssumption == Attempts \in Nat \ {0} /\ MaxEdits \in Nat

VARIABLES
    hook,      \* the trigger in the ApiCache
    edits,     \* changes of it so far, up to MaxEdits
    handler,   \* [Requests -> where its handler is]
    wants,     \* [Requests -> All or the source of the request's path]
    header,    \* [Requests -> its authorization header]
    seen,      \* [Requests -> the trigger as the handler read it]
    response,  \* [Requests -> the answer]
    task,      \* [Requests -> the task added to the scheduler]
    server,    \* build_hooks_web
    attempts   \* what is left of the loop that waits for the handlers

hookVars == <<hook, edits, handler, wants, header, seen, response, task, server, attempts>>
vars == <<secretVars, hookVars>>

Answers == {"Accepted", "ForbiddenMultiSource", "TriggerNotFound", "SourceNotFound",
            "Unauthorized", "Forbidden", "SchedulerError", "AuthorizationError"}

TypeOK ==
    /\ SecretTypeOK
    /\ hook \in Hooks \cup {NoHook}
    /\ edits \in 0..MaxEdits
    /\ handler \in [Requests -> {"new", "open", "secret", "add", "done"}]
    /\ wants \in [Requests -> Names \cup {All}]
    /\ header \in [Requests -> Headers]
    /\ seen \in [Requests -> Hooks \cup {NoHook}]
    /\ response \in [Requests -> Answers \cup {"none"}]
    /\ task \in [Requests -> {"none", "waiting", "finished", "dropped"}]
    /\ server \in {"running", "draining", "finishing", "finished", "stopped"}
    /\ attempts \in 0..Attempts

Init ==
    /\ SecretInit
    /\ hook \in Hooks
    /\ edits = 0
    /\ handler = [r \in Requests |-> "new"]
    /\ wants \in [Requests -> Names \cup {All}]
    /\ header \in [Requests -> Headers]
    /\ seen = [r \in Requests |-> NoHook]
    /\ response = [r \in Requests |-> "none"]
    /\ task = [r \in Requests |-> "none"]
    /\ server = "running"
    /\ attempts = Attempts

\* The trigger is changed or deleted.
EditHook ==
    /\ edits < MaxEdits
    /\ edits' = edits + 1
    /\ hook' \in (Hooks \cup {NoHook}) \ {hook}
    /\ UNCHANGED <<secretVars, handler, wants, header, seen, response, task, server, attempts>>

-----------------------------------------------------------------------------
(* The handlers.                                                           *)

Respond(r, answer) ==
    /\ handler' = [handler EXCEPT ![r] = "done"]
    /\ response' = [response EXCEPT ![r] = answer]

\* Why an authorized request is refused, "none" if it is not.
Refusal(r, h) ==
    CASE wants[r] = All /\ ~h.multi_source -> "ForbiddenMultiSource"
      [] wants[r] # All /\ wants[r] \notin h.names -> "SourceNotFound"
      [] OTHER -> "none"

\* What follows check_hook_authorization.
Authorized(r, h) ==
    \/ /\ Refusal(r, h) = "none"
       /\ handler' = [handler EXCEPT ![r] = "add"]
       /\ UNCHANGED response
    \/ /\ Refusal(r, h) # "none"
       /\ Respond(r, Refusal(r, h))

\* External: a client connects.  Its connection has a reference to the
\* scheduler, and is closed once the server shuts down gracefully.
Connect(r) ==
    /\ server = "running"
    /\ handler[r] = "new"
    /\ handler' = [handler EXCEPT ![r] = "open"]
    /\ UNCHANGED <<secretVars, hook, edits, wants, header, seen, response, task, server,
                   attempts>>

Disconnect(r) ==
    /\ server # "running"
    /\ handler[r] = "open"
    /\ handler' = [handler EXCEPT ![r] = "done"]
    /\ UNCHANGED <<secretVars, hook, edits, wants, header, seen, response, task, server,
                   attempts>>

\* A request comes in.  Without the header no secret is read.
Handle(r) ==
    /\ handler[r] = "open"
    /\ seen' = [seen EXCEPT ![r] = hook]
    /\ \/ /\ ~hook.exists
          /\ Respond(r, "TriggerNotFound")
          /\ UNCHANGED secretVars
       \/ /\ hook.exists /\ hook.auth /\ header[r] = Err
          /\ Respond(r, "Unauthorized")
          /\ UNCHANGED secretVars
       \/ /\ hook.exists /\ hook.auth /\ header[r] # Err
          /\ handler' = [handler EXCEPT ![r] = "secret"]
          /\ GetKeyValue(r)
          /\ UNCHANGED response
       \/ /\ hook.exists /\ ~hook.auth
          /\ Authorized(r, hook)
          /\ UNCHANGED secretVars
    /\ UNCHANGED <<hook, edits, wants, header, task, server, attempts>>

\* Mutant: a secret that cannot be read lets the request pass.
CheckSecretLenient(r) ==
    /\ handler[r] = "secret"
    /\ get[r] = "done"
    /\ \/ value[r] \notin {Err, header[r]} /\ Respond(r, "Forbidden")
       \/ value[r] \in {Err, header[r]} /\ Authorized(r, seen[r])
    /\ UNCHANGED <<secretVars, hook, edits, wants, header, seen, task, server, attempts>>

\* check_hook_authorization goes on with what the cache returned.
CheckSecret(r) ==
    /\ handler[r] = "secret"
    /\ get[r] = "done"
    /\ \/ value[r] = Err /\ Respond(r, "AuthorizationError")
       \/ value[r] \notin {Err, header[r]} /\ Respond(r, "Forbidden")
       \/ value[r] # Err /\ value[r] = header[r] /\ Authorized(r, seen[r])
    /\ UNCHANGED <<secretVars, hook, edits, wants, header, seen, task, server, attempts>>

\* scheduler.add
AddTask(r) ==
    /\ handler[r] = "add"
    /\ \/ /\ task' = [task EXCEPT ![r] = "waiting"]
          /\ Respond(r, "Accepted")
       \/ /\ Respond(r, "SchedulerError")
          /\ UNCHANGED task
    /\ UNCHANGED <<secretVars, hook, edits, wants, header, seen, server, attempts>>

\* The cache works for a handler.
ReadSecret(r) ==
    /\ handler[r] = "secret"
    /\ GetStep(r)
    /\ UNCHANGED hookVars

\* Mutant: the lock of the cache outlives the call.
ClientGoneLocked(r) ==
    /\ handler[r] \in {"secret", "add"}
    /\ handler' = [handler EXCEPT ![r] = "done"]
    /\ UNCHANGED <<secretVars, hook, edits, wants, header, seen, response, task, server,
                   attempts>>

\* The client is gone and the handler is dropped at an await, which drops the
\* guard of the lock with it.
ClientGone(r) ==
    /\ handler[r] \in {"secret", "add"}
    /\ handler' = [handler EXCEPT ![r] = "done"]
    /\ Cancel(r)
    /\ UNCHANGED <<hook, edits, wants, header, seen, response, task, server, attempts>>

\* The scheduler runs the task (see TriggerCheck).
TaskFinishes(r) ==
    /\ task[r] = "waiting"
    /\ task' = [task EXCEPT ![r] = "finished"]
    /\ UNCHANGED <<secretVars, hook, edits, handler, wants, header, seen, response, server,
                   attempts>>

-----------------------------------------------------------------------------
(* build_hooks_web: the shutdown event, and the loop that waits until no   *)
(* handler has a reference to the scheduler.                               *)

InFlight == {r \in Requests : handler[r] \in {"open", "secret", "add"}}

ShutdownEvent ==
    /\ server = "running"
    /\ server' = "draining"
    /\ UNCHANGED <<secretVars, hook, edits, handler, wants, header, seen, response, task,
                   attempts>>

\* Mutant: the loop does not count.
LookAtSchedulerMore ==
    /\ server = "draining"
    /\ IF InFlight = {} THEN server' = "finishing" /\ UNCHANGED attempts
                        ELSE attempts' = attempts - 1 /\ UNCHANGED server
    /\ UNCHANGED <<secretVars, hook, edits, handler, wants, header, seen, response, task>>

\* The last attempt that fails leaves the loop with the scheduler running.
LookAtScheduler ==
    /\ server = "draining"
    /\ \/ /\ InFlight = {}
          /\ server' = "finishing"
          /\ UNCHANGED attempts
       \/ /\ InFlight # {}
          /\ attempts' = attempts - 1
          /\ server' = IF attempts = 1 THEN "finished" ELSE "draining"
    /\ UNCHANGED <<secretVars, hook, edits, handler, wants, header, seen, response, task>>

\* Mutant: the scheduler is shut down without waiting for its tasks.
SchedulerShutdownNow ==
    /\ server = "finishing"
    /\ server' = "finished"
    /\ UNCHANGED <<secretVars, hook, edits, handler, wants, header, seen, response, task,
                   attempts>>

\* ShutdownOpts::WaitForFinish
SchedulerShutdown ==
    /\ server = "finishing"
    /\ \A r \in Requests : task[r] # "waiting"
    /\ server' = "finished"
    /\ UNCHANGED <<secretVars, hook, edits, handler, wants, header, seen, response, task,
                   attempts>>

\* main has joined the server (see Leadership): the process exits with whatever
\* the scheduler still has to run.
ProcessExit ==
    /\ server = "finished"
    /\ server' = "stopped"
    /\ task' = [r \in Requests |-> IF task[r] = "waiting" THEN "dropped" ELSE task[r]]
    /\ UNCHANGED <<secretVars, hook, edits, handler, wants, header, seen, response, attempts>>

-----------------------------------------------------------------------------
HandlerStep(r) == ReadSecret(r) \/ CheckSecret(r) \/ AddTask(r)

\* The process is gone when the server has stopped.
Next ==
    \/ (Rotate \/ Tick) /\ UNCHANGED hookVars
    \/ EditHook
    \/ /\ server # "stopped"
       /\ \E r \in Requests :
             \/ Connect(r) \/ Disconnect(r) \/ Handle(r) \/ HandlerStep(r)
             \/ ClientGone(r) \/ TaskFinishes(r)
    \/ ShutdownEvent
    \/ LookAtScheduler
    \/ SchedulerShutdown
    \/ ProcessExit

Spec == Init /\ [][Next]_vars

\* The runtime polls every handler and task, and the API server answers.
Fairness ==
    /\ \A r \in Requests :
          /\ WF_vars(server # "stopped" /\ HandlerStep(r))
          /\ WF_vars(server # "stopped" /\ TaskFinishes(r))
    /\ WF_vars(LookAtScheduler) /\ WF_vars(SchedulerShutdown)

FairSpec == Spec /\ Fairness

-----------------------------------------------------------------------------
(* Properties.                                                             *)

\* A task is started only for a request that the trigger allowed when the
\* handler read it, and whose header is a value that the secret really had.
AcceptedWasAllowed ==
    \A r \in Requests : response[r] = "Accepted" =>
        /\ seen[r].auth => header[r] \in {v \in Version : v <= version /\ key[r] \in KeysAt[v]}
        /\ IF wants[r] = All THEN seen[r].multi_source ELSE wants[r] \in seen[r].names

\* Whoever waits for the lock of the cache, and whichever clients go away
\* while their handler holds it, every request is answered or its client is
\* gone, unless the process stops first.
EveryRequestAnswered ==
    \A r \in Requests :
        handler[r] \in {"secret", "add"} ~> handler[r] = "done" \/ server = "stopped"

\* A task that was accepted is lost by a shutdown only if the handlers kept
\* the scheduler busy through all the attempts.
AcceptedSurvivesShutdown ==
    \A r \in Requests : task[r] = "dropped" => attempts = 0
=============================================================================
