--------------------------- MODULE QueueRefinement ---------------------------
(***************************************************************************)
(* JobsQueue implements WaitingQueue.  The line of the abstract queue is   *)
(* the Job whose creation has been requested, if any, followed by the      *)
(* channel; what is put into the channel of an ended task is not in line.  *)
(***************************************************************************)
EXTENDS JobsQueue

Creating == {l \in Loops : pc[l] = "create"}

\* At most one pass holds the lock.
InRequest ==
    IF Creating = {} THEN <<>> ELSE <<current[CHOOSE l \in Creating : TRUE]>>

InLine ==
    IF task = "stopped" THEN <<>>
    ELSE InRequest \o [n \in DOMAIN queue |-> queue[n].job]

Line == INSTANCE WaitingQueue WITH
    open    <- task # "stopped",
    waiting <- InLine,
    made    <- {j \in Jobs : cluster[j] # "absent"}

\* First in, first out, under every interleaving of the two loops, with lost
\* answers, expiry and changes of the limit: only the Job that waits longest is
\* created or dropped, and none that left the line is created or comes back.
ImplementsWaitingQueue == Line!LineSpec
=============================================================================
