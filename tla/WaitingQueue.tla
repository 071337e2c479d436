----------------------------- MODULE WaitingQueue -----------------------------
(***************************************************************************)
(* What the queue of src/jobs.rs promises to those who enqueue: Jobs wait  *)
(* in line, only the first one can leave, it is made in the cluster or     *)
(* dropped (expired, or refused by the API server), and all of them are    *)
(* lost when the queue closes.  JobsQueue is shown to implement it.        *)
(***************************************************************************)
EXTENDS Sequences

CONSTANT Jobs

VARIABLES
    open,      \* the queue's task has not ended
    waiting,   \* Jobs in the order they were put
    made       \* Jobs that were created in the cluster

lineVars == <<open, waiting, made>>

LineInit == open = TRUE /\ waiting = <<>> /\ made = {}

Put(j) ==
    /\ open
    /\ waiting' = Append(waiting, j)
    /\ UNCHANGED <<open, made>>

Make ==
    /\ waiting # <<>>
    /\ made' = made \cup {Head(waiting)}
    /\ waiting' = Tail(waiting)
    /\ UNCHANGED open

Drop ==
    /\ waiting # <<>>
    /\ waiting' = Tail(waiting)
    /\ UNCHANGED <<open, made>>

Close ==
    /\ open
    /\ open' = FALSE
    /\ waiting' = <<>>
    /\ UNCHANGED made

LineNext == (\E j \in Jobs : Put(j)) \/ Make \/ Drop \/ Close

LineSpec == LineInit /\ [][LineNext]_lineVars
=============================================================================
