------------------------------ MODULE Leadership ------------------------------
(***************************************************************************)
(* The main loop of src/bin/git-events-runner.rs in every replica, and the *)
(* life of run_leader_controllers (src/controller.rs) as that loop sees    *)
(* it.  The lease is held through an external library: it tells a replica  *)
(* over a watch channel whether it leads, and gives the lease up when the  *)
(* replica drops the channel.  Its task may also end on its own, which the *)
(* main loop meets as an error of the channel.                             *)
(***************************************************************************)
EXTENDS Integers, FiniteSets

CONSTANTS
    Replicas,        \* processes
    MaxLeaseMoves,   \* bound: times a replica loses the lease, its lease task or its life
    MaxSignals       \* bound: replicas that receive a termination signal

ASSUME ReplicasAssumption == Replicas # {}
ASSUME LeaseBoundsAssumption == MaxLeaseMoves \in Nat /\ MaxSignals \in Nat

VARIABLES
    lease,       \* holder of the lease, Dead or NoOne
    told,        \* [Replicas -> value in leader_lease_channel]
    lease_task,  \* [Replicas -> leader_lease_task, which owns the sender]
    moves,       \* losses and deaths so far, up to MaxLeaseMoves
    loop,        \* [Replicas -> where the main loop is]
    is_leader,   \* [Replicas -> is_leader of this turn of the loop]
    controllers, \* [Replicas -> the spawned run_leader_controllers]
    signalled,   \* [Replicas -> a termination signal has arrived]
    shutdown     \* [Replicas -> shutdown; a signal sends it over shutdown_tx too]

leadVars == <<lease, told, lease_task, moves, loop, is_leader, controllers, signalled, shutdown>>

NoOne == "no_one"
Dead == "dead"      \* an identity whose process is gone

\* "stopping": told to stop, reconciles in flight and running tasks finish.
LeadTypeOK ==
    /\ lease \in Replicas \cup {NoOne, Dead}
    /\ told \in [Replicas -> BOOLEAN]
    /\ lease_task \in [Replicas -> {"running", "ended"}]
    /\ moves \in 0..MaxLeaseMoves
    /\ loop \in [Replicas -> {"top", "select", "stop", "join", "drain", "exited"}]
    /\ is_leader \in [Replicas -> BOOLEAN]
    /\ controllers \in [Replicas -> {"none", "running", "stopping"}]
    /\ signalled \in [Replicas -> BOOLEAN]
    /\ shutdown \in [Replicas -> BOOLEAN]

LeadInit ==
    /\ lease = NoOne
    /\ told = [p \in Replicas |-> FALSE]
    /\ lease_task = [p \in Replicas |-> "running"]
    /\ moves = 0
    /\ loop = [p \in Replicas |-> "top"]
    /\ is_leader = [p \in Replicas |-> FALSE]
    /\ controllers = [p \in Replicas |-> "none"]
    /\ signalled = [p \in Replicas |-> FALSE]
    /\ shutdown = [p \in Replicas |-> FALSE]

-----------------------------------------------------------------------------
(* External: the lease manager, and whoever sends signals.                 *)

LeaseAcquired(p) ==
    /\ lease = NoOne
    /\ lease_task[p] = "running"
    /\ loop[p] \notin {"drain", "exited"}
    /\ lease' = p
    /\ told' = [told EXCEPT ![p] = TRUE]
    /\ UNCHANGED <<lease_task, moves, loop, is_leader, controllers, signalled, shutdown>>

LeaseLost(p) ==
    /\ lease = p
    /\ loop[p] \notin {"drain", "exited"}
    /\ moves < MaxLeaseMoves
    /\ moves' = moves + 1
    /\ lease' = NoOne
    /\ told' = [told EXCEPT ![p] = FALSE]
    /\ UNCHANGED <<lease_task, loop, is_leader, controllers, signalled, shutdown>>

\* The task of the lease library ends: nobody renews the lease or tells the
\* replica, and what the channel said last stays.
LeaseTaskEnds(p) ==
    /\ lease_task[p] = "running"
    /\ loop[p] \notin {"drain", "exited"}
    /\ moves < MaxLeaseMoves
    /\ moves' = moves + 1
    /\ lease_task' = [lease_task EXCEPT ![p] = "ended"]
    /\ lease' = IF lease = p THEN Dead ELSE lease
    /\ UNCHANGED <<told, loop, is_leader, controllers, signalled, shutdown>>

LeaseExpires ==
    /\ lease = Dead
    /\ lease' = NoOne
    /\ UNCHANGED <<told, lease_task, moves, loop, is_leader, controllers, signalled, shutdown>>

SignalArrives(p) ==
    /\ ~signalled[p]
    /\ Cardinality({q \in Replicas : signalled[q]}) < MaxSignals
    /\ signalled' = [signalled EXCEPT ![p] = TRUE]
    /\ UNCHANGED <<lease, told, lease_task, moves, loop, is_leader, controllers, shutdown>>

-----------------------------------------------------------------------------
(* The main loop.                                                          *)

\* A turn of the loop: a leader spawns the controllers.
Turn(p) ==
    /\ loop[p] = "top"
    /\ is_leader' = [is_leader EXCEPT ![p] = told[p]]
    /\ controllers' = [controllers EXCEPT ![p] = IF told[p] THEN "running" ELSE "none"]
    /\ loop' = [loop EXCEPT ![p] = "select"]
    /\ UNCHANGED <<lease, told, lease_task, moves, signalled, shutdown>>

\* The two branches of the select!.  A signal that came earlier is not lost.
OnSignal(p) ==
    /\ loop[p] = "select"
    /\ signalled[p]
    /\ shutdown' = [shutdown EXCEPT ![p] = TRUE]
    /\ loop' = [loop EXCEPT ![p] = "stop"]
    /\ UNCHANGED <<lease, told, lease_task, moves, is_leader, controllers, signalled>>

\* Mutant: only the acquisition of the lease ends the wait.
OnLeaderChangeGained(p) ==
    /\ loop[p] = "select"
    /\ told[p] /\ ~is_leader[p]
    /\ loop' = [loop EXCEPT ![p] = "stop"]
    /\ UNCHANGED <<lease, told, lease_task, moves, is_leader, controllers, signalled, shutdown>>

OnLeaderChange(p) ==
    /\ loop[p] = "select"
    /\ told[p] # is_leader[p]
    /\ loop' = [loop EXCEPT ![p] = "stop"]
    /\ UNCHANGED <<lease, told, lease_task, moves, is_leader, controllers, signalled, shutdown>>

\* changed() fails at once when the sender is gone, and the value never differs:
\* the wait goes round and round with shutdown set and does not end the select!.
\* It is charged to the task's budget, so that signals are still looked at.
Spin(p) ==
    /\ loop[p] = "select"
    /\ lease_task[p] = "ended"
    /\ told[p] = is_leader[p]
    /\ ~shutdown[p]
    /\ shutdown' = [shutdown EXCEPT ![p] = TRUE]
    /\ UNCHANGED <<lease, told, lease_task, moves, loop, is_leader, controllers, signalled>>

\* Mutant: the controllers are joined without being told to stop.
StopControllersSilent(p) ==
    /\ loop[p] = "stop"
    /\ loop' = [loop EXCEPT ![p] = "join"]
    /\ UNCHANGED <<lease, told, lease_task, moves, is_leader, controllers, signalled, shutdown>>

\* Mutant: the controllers are left behind when the process shuts down.
StopControllersDetached(p) ==
    /\ loop[p] = "stop"
    /\ loop' = [loop EXCEPT ![p] = IF shutdown[p] THEN "drain" ELSE "join"]
    /\ controllers' = [controllers EXCEPT ![p] = IF @ = "running" THEN "stopping" ELSE @]
    /\ UNCHANGED <<lease, told, lease_task, moves, is_leader, signalled, shutdown>>

\* changed_tx.send: the Controller accepts nothing more.
StopControllers(p) ==
    /\ loop[p] = "stop"
    /\ loop' = [loop EXCEPT ![p] = "join"]
    /\ controllers' = [controllers EXCEPT ![p] = IF @ = "running" THEN "stopping" ELSE @]
    /\ UNCHANGED <<lease, told, lease_task, moves, is_leader, signalled, shutdown>>

\* The scheduler's running tasks have finished (WaitForFinish).
ControllersFinish(p) ==
    /\ controllers[p] = "stopping"
    /\ controllers' = [controllers EXCEPT ![p] = "none"]
    /\ UNCHANGED <<lease, told, lease_task, moves, loop, is_leader, signalled, shutdown>>

Joined(p) ==
    /\ loop[p] = "join"
    /\ controllers[p] = "none"
    /\ loop' = [loop EXCEPT ![p] = IF shutdown[p] THEN "drain" ELSE "top"]
    /\ UNCHANGED <<lease, told, lease_task, moves, is_leader, controllers, signalled, shutdown>>

\* drop(leader_lease_channel) makes the lease task release the lease; it is
\* joined with the web servers and the queue, which shutdown_tx ended.
Exit(p) ==
    /\ loop[p] = "drain"
    /\ loop' = [loop EXCEPT ![p] = "exited"]
    /\ lease' = IF lease = p THEN NoOne ELSE lease
    /\ told' = [told EXCEPT ![p] = FALSE]
    /\ UNCHANGED <<lease_task, moves, is_leader, controllers, signalled, shutdown>>

\* The process dies (check_api_by_list calls exit) and Kubernetes starts a new
\* one, which has an identity of its own.
Crash(p) ==
    /\ loop[p] # "exited"
    /\ ~signalled[p]
    /\ moves < MaxLeaseMoves
    /\ moves' = moves + 1
    /\ lease' = IF lease = p THEN Dead ELSE lease
    /\ told' = [told EXCEPT ![p] = FALSE]
    /\ lease_task' = [lease_task EXCEPT ![p] = "running"]
    /\ loop' = [loop EXCEPT ![p] = "top"]
    /\ is_leader' = [is_leader EXCEPT ![p] = FALSE]
    /\ controllers' = [controllers EXCEPT ![p] = "none"]
    /\ shutdown' = [shutdown EXCEPT ![p] = FALSE]
    /\ UNCHANGED signalled

MainLoop(p) ==
    \/ OnSignal(p) \/ OnLeaderChange(p) \/ Spin(p)
    \/ StopControllers(p) \/ Joined(p) \/ Exit(p)

Lease(p) == LeaseAcquired(p) \/ LeaseLost(p)

LeadNext ==
    \/ LeaseExpires
    \/ \E p \in Replicas :
          \/ Lease(p) \/ LeaseTaskEnds(p) \/ SignalArrives(p) \/ Crash(p)
          \/ Turn(p) \/ MainLoop(p) \/ ControllersFinish(p)

\* The runtime polls the main loop, and running tasks of the scheduler end.
LeadSpec ==
    /\ LeadInit /\ [][LeadNext]_leadVars
    /\ \A p \in Replicas :
          /\ WF_leadVars(Turn(p))
          /\ WF_leadVars(MainLoop(p))
          /\ WF_leadVars(ControllersFinish(p))

-----------------------------------------------------------------------------
(* Properties.                                                             *)

\* A shutdown hands over cleanly: once the process lets the lease go nothing
\* of its controllers or of their tasks is left running.
NothingLeftBehind ==
    \A p \in Replicas : loop[p] \in {"drain", "exited"} => controllers[p] = "none"

\* A signal always ends the process, whatever the lease does meanwhile, also
\* when the lease task is gone and the wait for the leader goes round for ever.
SignalEndsProcess == \A p \in Replicas : signalled[p] ~> loop[p] = "exited"

\* The channel keeps the latest value only, so that the main loop may miss a
\* loss of the lease that is followed by its acquisition; a loss that lasts is
\* never missed: the controllers of a deposed leader are told to stop.
DeposedStops ==
    \A p \in Replicas : controllers[p] = "running" /\ ~told[p] ~>
        controllers[p] # "running" \/ told[p]
=============================================================================
