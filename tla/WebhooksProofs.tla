---------------------------- MODULE WebhooksProofs ----------------------------
(***************************************************************************)
(* Theorems about the webhook server, for any number of requests, any      *)
(* triggers and any secret: who is let through to the scheduler, and what  *)
(* a shutdown may lose.                                                    *)
(***************************************************************************)
EXTENDS Webhooks, SecretsCacheProofs

\* What AcceptedWasAllowed asks of a request.
Permitted(r) ==
    /\ seen[r].auth => header[r] \in {v \in Version : v <= version /\ key[r] \in KeysAt[v]}
    /\ IF wants[r] = All THEN seen[r].multi_source ELSE wants[r] \in seen[r].names

\* The handler goes on to the scheduler with leave only, and nothing that the leave
\* depends on is read again.
HandlersChecked ==
    \A r \in Requests :
        /\ handler[r] = "add" \/ response[r] = "Accepted" => Permitted(r)
        /\ response[r] = "Accepted" => handler[r] = "done"

\* Before its attempts are used up the shutdown goes on only when no handler is left, and
\* the scheduler ends only when no task is: nothing can be added any more.
DrainsInOrder ==
    /\ server \in {"running", "draining"} => attempts # 0
    /\ server \in {"finishing", "finished", "stopped"} /\ attempts # 0 =>
          \A r \in Requests : handler[r] \in {"new", "done"}
    /\ server \in {"finished", "stopped"} /\ attempts # 0 =>
          \A r \in Requests : task[r] # "waiting"
    /\ \A r \in Requests : task[r] = "dropped" => attempts = 0

HookTypeOK ==
    /\ hook \in Hooks \cup {NoHook}
    /\ edits \in 0..MaxEdits
    /\ handler \in [Requests -> {"new", "open", "secret", "add", "done"}]
    /\ wants \in [Requests -> Names \cup {All}]
    /\ header \in [Requests -> Headers]
    /\ seen \in [Requests -> Hooks \cup {NoHook}]
    /\ response \in [Requests -> Answers \cup {"none"}]
    /\ task \in [Requests -> {"none", "waiting", "finished", "dropped"}]
    /\ server \in {"running", "draining", "finishing", "finished", "stopped"}
    /\ attempts \in 0..Attempts

HookInv == SecretInv /\ HookTypeOK /\ HandlersChecked /\ DrainsInOrder

-----------------------------------------------------------------------------
LEMMA HookInvInit == Init => HookInv
<1> SUFFICES ASSUME Init PROVE HookInv
  OBVIOUS
<1>1. SecretInv
  BY SecretInvInit DEF Init
<1>2. edits \in 0..MaxEdits /\ attempts \in 0..Attempts /\ attempts # 0
  BY AttemptsAssumption DEF Init
<1>3. HookTypeOK
  BY <1>2 DEF Init, HookTypeOK
<1>4. HandlersChecked /\ DrainsInOrder
  BY <1>2 DEF Init, HandlersChecked, DrainsInOrder
<1> QED
  BY <1>1, <1>3, <1>4 DEF HookInv

\* Every step is one of the cache or leaves the cache alone.
LEMMA NextReads == [Next]_vars => SecretStep \/ UNCHANGED secretVars
<1> SUFFICES ASSUME [Next]_vars PROVE SecretStep \/ UNCHANGED secretVars
  OBVIOUS
<1>1. ASSUME NEW r \in Requests, Connect(r) \/ Disconnect(r) \/ TaskFinishes(r)
      PROVE  UNCHANGED secretVars
  BY <1>1 DEF Connect, Disconnect, TaskFinishes
<1>2. ASSUME NEW r \in Requests, Handle(r) PROVE GetKeyValue(r) \/ UNCHANGED secretVars
  BY <1>2 DEF Handle
<1>3. ASSUME NEW r \in Requests, HandlerStep(r) PROVE GetStep(r) \/ UNCHANGED secretVars
  BY <1>3 DEF HandlerStep, ReadSecret, CheckSecret, AddTask
<1>4. ASSUME NEW r \in Requests, ClientGone(r) PROVE Cancel(r)
  BY <1>4 DEF ClientGone
<1>5. CASE EditHook \/ ShutdownEvent \/ LookAtScheduler \/ SchedulerShutdown \/ ProcessExit
  BY <1>5 DEF EditHook, ShutdownEvent, LookAtScheduler, SchedulerShutdown, ProcessExit
<1>6. CASE UNCHANGED vars
  BY <1>6 DEF vars
<1> QED
  BY <1>1, <1>2, <1>3, <1>4, <1>5, <1>6 DEF Next, SecretStep

\* The leave once given stays: versions only grow.
LEMMA PermittedStays ==
    ASSUME version \in Version, version' \in Version, version' >= version, UNCHANGED key,
           NEW r \in Requests, Permitted(r),
           seen'[r] = seen[r], header'[r] = header[r], wants'[r] = wants[r]
    PROVE  Permitted(r)'
BY DEF Permitted, Version

-----------------------------------------------------------------------------
(* The handlers.                                                           *)

\* What the handler of r may make of it, nobody else being touched.
Moves(r) ==
    /\ \A q \in Requests \ {r} : /\ handler'[q] = handler[q] /\ seen'[q] = seen[q]
                                 /\ response'[q] = response[q]
    /\ UNCHANGED <<wants, header>>
    /\ response[r] # "Accepted" \/ (response'[r] = response[r] /\ seen'[r] = seen[r])
    /\ handler'[r] = "add" \/ response'[r] = "Accepted" => Permitted(r)'
    /\ response'[r] = "Accepted" => handler'[r] = "done"

LEMMA HandlersMove ==
    ASSUME HookInv, SecretInv', version' >= version, UNCHANGED key,
           NEW r \in Requests, Moves(r)
    PROVE  HandlersChecked'
<1>1. version \in Version /\ version' \in Version
  BY DEF HookInv, SecretInv, SecretTypeOK
<1>2. ASSUME NEW q \in Requests \ {r}, Permitted(q) PROVE Permitted(q)'
  <2>1. seen'[q] = seen[q] /\ header'[q] = header[q] /\ wants'[q] = wants[q]
    BY DEF Moves
  <2> QED
    BY <1>1, <1>2, <2>1, PermittedStays
<1>3. ASSUME NEW q \in Requests
      PROVE  /\ handler'[q] = "add" \/ response'[q] = "Accepted" => Permitted(q)'
             /\ response'[q] = "Accepted" => handler'[q] = "done"
  <2>1. CASE q = r
    BY <2>1 DEF Moves
  <2>2. CASE q # r
    <3>1. handler'[q] = handler[q] /\ response'[q] = response[q]
      BY <2>2 DEF Moves
    <3>2. /\ handler[q] = "add" \/ response[q] = "Accepted" => Permitted(q)
          /\ response[q] = "Accepted" => handler[q] = "done"
      BY DEF HookInv, HandlersChecked
    <3> QED
      BY <1>2, <2>2, <3>1, <3>2
  <2> QED
    BY <2>1, <2>2
<1> QED
  BY <1>3 DEF HandlersChecked

\* Nothing that the leave depends on is touched by the steps around the handlers.
LEMMA HandlersRest ==
    ASSUME HookInv, SecretInv', version' >= version, UNCHANGED key,
           UNCHANGED <<handler, wants, header, seen, response>>
    PROVE  HandlersChecked'
<1>1. version \in Version /\ version' \in Version
  BY DEF HookInv, SecretInv, SecretTypeOK
<1>2. ASSUME NEW q \in Requests, Permitted(q) PROVE Permitted(q)'
  BY <1>1, <1>2, PermittedStays
<1>3. ASSUME NEW q \in Requests
      PROVE  /\ handler'[q] = "add" \/ response'[q] = "Accepted" => Permitted(q)'
             /\ response'[q] = "Accepted" => handler'[q] = "done"
  BY <1>2 DEF HookInv, HandlersChecked
<1> QED
  BY <1>3 DEF HandlersChecked

\* Refusal and what follows it: a request that is let through is asked for by the trigger.
LEMMA AuthorizedMoves ==
    ASSUME HookTypeOK, NEW r \in Requests, NEW h, Authorized(r, h)
    PROVE  /\ handler' \in [Requests -> {"new", "open", "secret", "add", "done"}]
           /\ response' \in [Requests -> Answers \cup {"none"}]
           /\ \A q \in Requests \ {r} : handler'[q] = handler[q] /\ response'[q] = response[q]
           /\ handler'[r] \in {"add", "done"}
           /\ response'[r] # "Accepted" \/ response' = response
           /\ handler'[r] = "add" => IF wants[r] = All THEN h.multi_source ELSE wants[r] \in h.names
<1>1. Refusal(r, h) \in {"none", "ForbiddenMultiSource", "SourceNotFound"}
  BY DEF Refusal
<1>2. Refusal(r, h) = "none" => IF wants[r] = All THEN h.multi_source ELSE wants[r] \in h.names
  BY DEF Refusal
<1> QED
  BY <1>1, <1>2 DEF Authorized, Respond, HookTypeOK, Answers
\* The steps of one request, and the fact that each keeps all the parts.
LEMMA RequestStep ==
    ASSUME HookInv, SecretInv', version' >= version, UNCHANGED key, server # "stopped",
           NEW r \in Requests,
           \/ Connect(r) \/ Disconnect(r) \/ Handle(r) \/ HandlerStep(r)
           \/ ClientGone(r) \/ TaskFinishes(r)
    PROVE  HookTypeOK' /\ HandlersChecked' /\ DrainsInOrder'
<1>t. /\ hook \in Hooks \cup {NoHook}
      /\ handler \in [Requests -> {"new", "open", "secret", "add", "done"}]
      /\ wants \in [Requests -> Names \cup {All}] /\ header \in [Requests -> Headers]
      /\ seen \in [Requests -> Hooks \cup {NoHook}]
      /\ response \in [Requests -> Answers \cup {"none"}]
      /\ task \in [Requests -> {"none", "waiting", "finished", "dropped"}]
      /\ HookTypeOK /\ DrainsInOrder
      /\ response[r] = "Accepted" => handler[r] = "done"
  BY DEF HookInv, HookTypeOK, HandlersChecked
<1>v. /\ version \in Version /\ version' \in Version
      /\ value[r] # Err => value[r] \in Version /\ value[r] <= version /\ key[r] \in KeysAt[value[r]]
  BY DEF HookInv, SecretInv, SecretTypeOK, ValuesGood
<1>d. ASSUME handler[r] \in {"open", "secret", "add"}, UNCHANGED <<server, attempts>>,
             \A q \in Requests \ {r} : handler'[q] = handler[q],
             \A q \in Requests : task'[q] = "dropped" => task[q] = "dropped"
      PROVE  DrainsInOrder'
  BY <1>d, <1>t DEF DrainsInOrder
<1>1. CASE Connect(r)
  <2>1. /\ handler[r] = "new" /\ handler' = [handler EXCEPT ![r] = "open"] /\ server = "running"
        /\ UNCHANGED <<hook, edits, wants, header, seen, response, task, server, attempts>>
    BY <1>1 DEF Connect
  <2>2. HookTypeOK' /\ DrainsInOrder'
    BY <1>t, <2>1 DEF HookTypeOK, DrainsInOrder
  <2>3. Moves(r)
    BY <1>t, <2>1 DEF Moves
  <2> QED
    BY <2>2, <2>3, HandlersMove
<1>2. CASE Disconnect(r)
  <2>1. /\ handler[r] = "open" /\ handler' = [handler EXCEPT ![r] = "done"]
        /\ UNCHANGED <<hook, edits, wants, header, seen, response, task, server, attempts>>
    BY <1>2 DEF Disconnect
  <2>2. HookTypeOK' /\ DrainsInOrder'
    BY <1>t, <1>d, <2>1 DEF HookTypeOK
  <2>3. Moves(r)
    BY <1>t, <2>1 DEF Moves
  <2> QED
    BY <2>2, <2>3, HandlersMove
<1>3. CASE Handle(r)
  <2>1. /\ handler[r] = "open" /\ seen' = [seen EXCEPT ![r] = hook]
        /\ UNCHANGED <<hook, edits, wants, header, task, server, attempts>>
    BY <1>3 DEF Handle
  <2>2. /\ handler' \in [Requests -> {"new", "open", "secret", "add", "done"}]
        /\ response' \in [Requests -> Answers \cup {"none"}]
        /\ \A q \in Requests \ {r} : handler'[q] = handler[q] /\ response'[q] = response[q]
        /\ response'[r] # "Accepted"
        /\ handler'[r] = "add" =>
              ~hook.auth /\ IF wants[r] = All THEN hook.multi_source ELSE wants[r] \in hook.names
    <3>1. CASE Respond(r, "TriggerNotFound") \/ Respond(r, "Unauthorized")
      BY <1>t, <2>1, <3>1 DEF Respond, Answers
    <3>2. CASE handler' = [handler EXCEPT ![r] = "secret"] /\ UNCHANGED response
      BY <1>t, <2>1, <3>2
    <3>3. CASE ~hook.auth /\ Authorized(r, hook)
      BY <1>t, <2>1, <3>3, AuthorizedMoves
    <3> QED
      BY <1>3, <3>1, <3>2, <3>3 DEF Handle
  <2>3. HookTypeOK'
    BY <1>t, <2>1, <2>2 DEF HookTypeOK
  <2>4. DrainsInOrder'
    BY <1>d, <2>1, <2>2
  <2>5. handler'[r] = "add" => Permitted(r)'
    BY <1>t, <2>1, <2>2 DEF Permitted
  <2>6. Moves(r)
    BY <1>t, <2>1, <2>2, <2>5 DEF Moves
  <2> QED
    BY <2>3, <2>4, <2>6, HandlersMove
<1>4. CASE ReadSecret(r)
  <2>1. UNCHANGED hookVars
    BY <1>4 DEF ReadSecret
  <2>2. HookTypeOK' /\ DrainsInOrder'
    BY <1>t, <2>1 DEF hookVars, HookTypeOK, DrainsInOrder
  <2> QED
    BY <2>1, <2>2, HandlersRest DEF hookVars
<1>5. CASE CheckSecret(r)
  <2>1. /\ handler[r] = "secret"
        /\ UNCHANGED <<secretVars, hook, edits, wants, header, seen, task, server, attempts>>
    BY <1>5 DEF CheckSecret
  <2>2. /\ handler' \in [Requests -> {"new", "open", "secret", "add", "done"}]
        /\ response' \in [Requests -> Answers \cup {"none"}]
        /\ \A q \in Requests \ {r} : handler'[q] = handler[q] /\ response'[q] = response[q]
        /\ response'[r] # "Accepted"
        /\ handler'[r] = "add" =>
              /\ value[r] # Err /\ value[r] = header[r]
              /\ IF wants[r] = All THEN seen[r].multi_source ELSE wants[r] \in seen[r].names
    <3>1. CASE Respond(r, "AuthorizationError") \/ Respond(r, "Forbidden")
      BY <1>t, <2>1, <3>1 DEF Respond, Answers
    <3>2. CASE value[r] # Err /\ value[r] = header[r] /\ Authorized(r, seen[r])
      BY <1>t, <2>1, <3>2, AuthorizedMoves
    <3> QED
      BY <1>5, <3>1, <3>2 DEF CheckSecret
  <2>3. HookTypeOK'
    BY <1>t, <2>1, <2>2 DEF HookTypeOK
  <2>4. DrainsInOrder'
    BY <1>d, <2>1, <2>2
  <2>5. handler'[r] = "add" => Permitted(r)'
    <3>1. UNCHANGED <<version, key, header, seen, wants>>
      BY <2>1 DEF secretVars
    <3> QED
      BY <1>v, <2>2, <3>1 DEF Permitted
  <2>6. Moves(r)
    BY <1>t, <2>1, <2>2, <2>5 DEF Moves
  <2> QED
    BY <2>3, <2>4, <2>6, HandlersMove
<1>6. CASE AddTask(r)
  <2>1. /\ handler[r] = "add" /\ handler' = [handler EXCEPT ![r] = "done"]
        /\ UNCHANGED <<secretVars, hook, edits, wants, header, seen, server, attempts>>
        /\ \/ task' = [task EXCEPT ![r] = "waiting"] /\ response' = [response EXCEPT ![r] = "Accepted"]
           \/ task' = task /\ response' = [response EXCEPT ![r] = "SchedulerError"]
    BY <1>6 DEF AddTask, Respond
  <2>2. HookTypeOK'
    BY <1>t, <2>1 DEF HookTypeOK, Answers
  <2>3. DrainsInOrder'
    BY <1>d, <1>t, <2>1
  <2>4. Permitted(r)'
    <3>1. Permitted(r)
      BY <2>1 DEF HookInv, HandlersChecked
    <3> QED
      BY <1>v, <2>1, <3>1, PermittedStays
  <2>5. Moves(r)
    BY <1>t, <2>1, <2>4 DEF Moves
  <2> QED
    BY <2>2, <2>3, <2>5, HandlersMove
<1>7. CASE ClientGone(r)
  <2>1. /\ handler[r] \in {"secret", "add"} /\ handler' = [handler EXCEPT ![r] = "done"]
        /\ UNCHANGED <<hook, edits, wants, header, seen, response, task, server, attempts>>
    BY <1>7 DEF ClientGone
  <2>2. HookTypeOK' /\ DrainsInOrder'
    BY <1>t, <1>d, <2>1 DEF HookTypeOK
  <2>3. Moves(r)
    BY <1>t, <2>1 DEF Moves
  <2> QED
    BY <2>2, <2>3, HandlersMove
<1>8. CASE TaskFinishes(r)
  <2>1. /\ task[r] = "waiting" /\ task' = [task EXCEPT ![r] = "finished"]
        /\ UNCHANGED <<hook, edits, handler, wants, header, seen, response, server, attempts>>
    BY <1>8 DEF TaskFinishes
  <2>2. HookTypeOK' /\ DrainsInOrder'
    BY <1>t, <2>1 DEF HookTypeOK, DrainsInOrder
  <2> QED
    BY <2>1, <2>2, HandlersRest
<1> QED
  BY <1>1, <1>2, <1>3, <1>4, <1>5, <1>6, <1>7, <1>8 DEF HandlerStep

-----------------------------------------------------------------------------
(* The shutdown of build_hooks_web.                                        *)

LEMMA ShutdownStep ==
    ASSUME HookInv, SecretInv', version' >= version, UNCHANGED key,
           EditHook \/ ShutdownEvent \/ LookAtScheduler \/ SchedulerShutdown \/ ProcessExit
    PROVE  HookTypeOK' /\ HandlersChecked' /\ DrainsInOrder'
<1>t. /\ HookTypeOK /\ DrainsInOrder /\ attempts \in 0..Attempts /\ edits \in 0..MaxEdits
      /\ handler \in [Requests -> {"new", "open", "secret", "add", "done"}]
      /\ task \in [Requests -> {"none", "waiting", "finished", "dropped"}]
  BY DEF HookInv, HookTypeOK
<1>1. UNCHANGED <<handler, wants, header, seen, response>>
  BY DEF EditHook, ShutdownEvent, LookAtScheduler, SchedulerShutdown, ProcessExit
<1>2. HandlersChecked'
  BY <1>1, HandlersRest
<1>3. CASE EditHook
  <2>1. /\ edits' \in 0..MaxEdits /\ hook' \in Hooks \cup {NoHook}
        /\ UNCHANGED <<task, server, attempts>>
    BY <1>3, <1>t, AttemptsAssumption DEF EditHook
  <2> QED
    BY <1>1, <1>2, <1>t, <2>1 DEF HookTypeOK, DrainsInOrder
<1>4. CASE ShutdownEvent
  BY <1>1, <1>2, <1>4, <1>t DEF ShutdownEvent, HookTypeOK, DrainsInOrder
<1>5. CASE LookAtScheduler
  <2>1. server = "draining" /\ attempts # 0 /\ UNCHANGED <<hook, edits, task>>
    BY <1>5, <1>t DEF LookAtScheduler, DrainsInOrder
  <2>2. CASE InFlight = {} /\ server' = "finishing" /\ UNCHANGED attempts
    <3>1. \A r \in Requests : handler[r] \in {"new", "done"}
      BY <1>t, <2>2 DEF InFlight
    <3> QED
      BY <1>1, <1>2, <1>t, <2>1, <2>2, <3>1 DEF HookTypeOK, DrainsInOrder
  <2>3. CASE /\ attempts' = attempts - 1
             /\ server' = IF attempts = 1 THEN "finished" ELSE "draining"
    <3>1. /\ attempts' \in 0..Attempts /\ server' \in {"finished", "draining"}
          /\ server' = "finished" <=> attempts' = 0
      BY <1>t, <2>1, <2>3, AttemptsAssumption
    <3> QED
      BY <1>1, <1>2, <1>t, <2>1, <3>1 DEF HookTypeOK, DrainsInOrder
  <2> QED
    BY <1>5, <2>2, <2>3 DEF LookAtScheduler
<1>6. CASE SchedulerShutdown
  BY <1>1, <1>2, <1>6, <1>t DEF SchedulerShutdown, HookTypeOK, DrainsInOrder
<1>7. CASE ProcessExit
  <2>1. /\ server = "finished" /\ server' = "stopped" /\ UNCHANGED <<hook, edits, attempts>>
        /\ task' = [r \in Requests |-> IF task[r] = "waiting" THEN "dropped" ELSE task[r]]
    BY <1>7 DEF ProcessExit
  <2>2. task' \in [Requests -> {"none", "waiting", "finished", "dropped"}]
    BY <1>t, <2>1
  <2>3. \A r \in Requests : /\ task'[r] # "waiting"
                            /\ task'[r] = "dropped" => task[r] \in {"waiting", "dropped"}
    BY <1>t, <2>1
  <2> QED
    BY <1>1, <1>2, <1>t, <2>1, <2>2, <2>3 DEF HookTypeOK, DrainsInOrder
<1> QED
  BY <1>3, <1>4, <1>5, <1>6, <1>7

LEMMA HookInvStep == HookInv /\ [Next]_vars => HookInv'
<1> SUFFICES ASSUME HookInv, [Next]_vars PROVE HookInv'
  OBVIOUS
<1>1. SecretStep \/ UNCHANGED secretVars
  BY NextReads
<1>2. SecretInv' /\ version' >= version /\ UNCHANGED key
  BY <1>1, SecretInvStep, SecretGoesOn DEF HookInv
<1>3. ASSUME UNCHANGED hookVars PROVE HookTypeOK' /\ HandlersChecked' /\ DrainsInOrder'
  <2>1. HookTypeOK' /\ DrainsInOrder'
    BY <1>3 DEF hookVars, HookInv, HookTypeOK, DrainsInOrder
  <2> QED
    BY <1>2, <1>3, <2>1, HandlersRest DEF hookVars
<1>4. UNCHANGED vars => UNCHANGED hookVars
  BY DEF vars
<1>5. HookTypeOK' /\ HandlersChecked' /\ DrainsInOrder'
  BY <1>2, <1>3, <1>4, RequestStep, ShutdownStep DEF Next
<1> QED
  BY <1>2, <1>5 DEF HookInv

LEMMA HookInvariant == Spec => []HookInv
BY HookInvInit, HookInvStep, PTL DEF Spec

\* Every value of the model keeps its type.
THEOREM WebhooksTypeCorrect == Spec => []TypeOK
<1>1. HookInv => TypeOK
  BY DEF HookInv, SecretInv, HookTypeOK, TypeOK
<1> QED
  BY <1>1, HookInvariant, PTL

\* check_hook_authorization and the handlers of src/web.rs: whatever is changed between
\* the reads of the trigger and of the secret, the scheduler gets a task only for a
\* request that the trigger allowed and whose header the secret had.
THEOREM AcceptedWasAllowedCorrect == Spec => []AcceptedWasAllowed
<1>1. HookInv => AcceptedWasAllowed
  BY DEF HookInv, HandlersChecked, Permitted, AcceptedWasAllowed
<1> QED
  BY <1>1, HookInvariant, PTL

\* build_hooks_web of src/web.rs: a shutdown loses an accepted task only after all its
\* attempts, whatever the number of attempts and of requests.
THEOREM AcceptedSurvivesShutdownCorrect == Spec => []AcceptedSurvivesShutdown
<1>1. HookInv => AcceptedSurvivesShutdown
  BY DEF HookInv, DrainsInOrder, AcceptedSurvivesShutdown
<1> QED
  BY <1>1, HookInvariant, PTL
=============================================================================
