--------------------------- MODULE JobsQueueProofs ---------------------------
(***************************************************************************)
(* Theorems about run_queue and the queue of JobsQueue.  The lock makes    *)
(* the locals of a pass meaningful: because no other pass takes items, the *)
(* queue only grows while waiting_jobs counts it down, and because no      *)
(* other pass creates Jobs, what is running plus the free capacity stays   *)
(* below what the pass started from.  The last part shows that the queue   *)
(* implements WaitingQueue.                                                *)
(***************************************************************************)
EXTENDS QueueRefinement, JobsWatchProofs, SequenceTheorems

Mutex == \A k, l \in Loops : HoldsLock(k) /\ HoldsLock(l) => k = l

\* While a Job is being created it is known, and there is capacity for it.
CreatingInv ==
    \A l \in Loops : pc[l] \in {"create", "reply"} => current[l] \in Jobs /\ free[l] > 0

QueueInv ==
    /\ TypeOK
    /\ CounterInv
    /\ Mutex
    /\ CreatingInv
    /\ RecvNeverBlocks

-----------------------------------------------------------------------------
\* Every step of the queue is a step of the watch or leaves the counter alone.
LEMMA WatchPart ==
    ASSUME CreatingInv, [Next]_vars
    PROVE  WatchNext \/ UNCHANGED counterVars
<1>1. ASSUME NEW l \in Loops, CreateApplied(l) PROVE WatchNext
  BY <1>1 DEF CreatingInv, CreateApplied, WatchNext
<1>2. ASSUME NEW l \in Loops, RunQueue(l), ~CreateApplied(l) PROVE UNCHANGED counterVars
  BY <1>2 DEF RunQueue, Wake, BeginPass, Recv, CreateOk, CreateErr, EndPass, watchVars,
              counterVars
<1>3. ASSUME NEW j \in Jobs, OnWatchEvent(j) \/ OnInitApply(j) \/ JobRuns(j) PROVE WatchNext
  BY <1>3 DEF OnWatchEvent, OnInitApply, JobRuns, WatchNext
<1>4. OnDesync \/ OnInitDone => WatchNext
  BY DEF OnDesync, OnInitDone, WatchNext
<1>5. /\ \A j \in Jobs : /\ EnqueueUnset(j) => UNCHANGED counterVars
                         /\ EnqueueNotify(j) => UNCHANGED counterVars
                         /\ \A e \in ExpireAfter : EnqueuePut(j, e) => UNCHANGED counterVars
      /\ InitAndWatch \/ OnWatchError \/ Shutdown \/ ConfigUpdate \/ Tick
            => UNCHANGED counterVars
  BY DEF EnqueueUnset, EnqueueNotify, EnqueuePut, InitAndWatch, OnWatchError, Shutdown,
         ConfigUpdate, Tick, watchVars, counterVars
<1> QED
  BY <1>1, <1>2, <1>3, <1>4, <1>5 DEF Next, vars, watchVars, counterVars

\* The counter means in the queue what it means in the watch.
LEMMA CounterPart ==
    ASSUME QueueInv, [Next]_vars
    PROVE  CounterInv'
BY WatchPart, CounterStep DEF QueueInv

-----------------------------------------------------------------------------
\* The variables of the queue itself.
QueueTypeOK ==
    /\ task \in {"unset", "running", "stopped"}
    /\ enq \in [Jobs -> {"new", "put", "ok", "err"}]
    /\ queue \in Seq(Item)
    /\ config \in [max_running_jobs : Limits, job_waiting_timeout : Timeouts]
    /\ changes \in 0..MaxConfigChanges
    /\ notified \in [Loops -> BOOLEAN]
    /\ pc \in [Loops -> {"idle", "lock", "recv", "create", "reply"}]
    /\ waiting \in [Loops -> Nat]
    /\ free \in [Loops -> Nat]
    /\ current \in [Loops -> Jobs \cup {NoJob}]
    /\ now \in 0..MaxTime
    /\ sent \in Seq(Jobs)
    /\ bound \in [Loops -> Nat]

\* What recv takes and what it leaves.
LEMMA QueueHead ==
    ASSUME queue \in Seq(Item), queue # <<>>
    PROVE  /\ Head(queue) \in Item /\ Head(queue).job \in Jobs
           /\ Tail(queue) \in Seq(Item) /\ Len(Tail(queue)) = Len(queue) - 1
           /\ Len(queue) \in Nat
<1>1. Head(queue) \in Item /\ Tail(queue) \in Seq(Item)
  OBVIOUS
<1>2. Head(queue).job \in Jobs
  BY <1>1 DEF Item
<1>3. Len(Tail(queue)) = Len(queue) - 1 /\ Len(queue) \in Nat
  OBVIOUS
<1> QED
  BY <1>1, <1>2, <1>3

LEMMA CompletedPart ==
    ASSUME completed \in [Jobs -> Seq(Completion)], CreatingInv, queue \in Seq(Item),
           [Next]_vars
    PROVE  completed' \in [Jobs -> Seq(Completion)]
<1>1. ASSUME WatchNext PROVE completed' \in [Jobs -> Seq(Completion)]
  BY <1>1, CompletedType
<1>2. ASSUME UNCHANGED completed PROVE completed' \in [Jobs -> Seq(Completion)]
  BY <1>2
<1>3. ASSUME NEW l \in Loops, Recv(l) PROVE completed' \in [Jobs -> Seq(Completion)]
  <2>1. queue # <<>>
    BY <1>3 DEF Recv
  <2>2. Head(queue).job \in Jobs
    BY <2>1, QueueHead
  <2>3. \/ completed' = [completed EXCEPT ![Head(queue).job] =
                              Append(completed[Head(queue).job], "Expired")]
        \/ completed' = completed
    BY <1>3 DEF Recv
  <2>4. Append(completed[Head(queue).job], "Expired") \in Seq(Completion)
    BY <2>2 DEF Completion
  <2> QED
    BY <2>2, <2>3, <2>4
<1>4. ASSUME NEW l \in Loops, CreateErr(l) PROVE completed' \in [Jobs -> Seq(Completion)]
  <2>1. current[l] \in Jobs
    BY <1>4 DEF CreateErr, CreatingInv
  <2> QED
    BY <1>4, <2>1 DEF CreateErr, Completion
<1>5. ASSUME NEW l \in Loops, RunQueue(l) PROVE completed' \in [Jobs -> Seq(Completion)]
  <2>1. CASE CreateApplied(l)
    BY <2>1, <1>2 DEF CreateApplied, ServerCreate
  <2>2. CASE Wake(l) \/ BeginPass(l) \/ CreateOk(l) \/ EndPass(l)
    BY <2>2, <1>2 DEF Wake, BeginPass, CreateOk, EndPass, watchVars
  <2> QED
    BY <1>3, <1>4, <1>5, <2>1, <2>2 DEF RunQueue
<1>6. ASSUME NEW j \in Jobs, OnWatchEvent(j) \/ OnInitApply(j) \/ JobRuns(j) PROVE WatchNext
  BY <1>6 DEF OnWatchEvent, OnInitApply, JobRuns, WatchNext
<1>7. OnDesync \/ OnInitDone => WatchNext
  BY DEF OnDesync, OnInitDone, WatchNext
<1>8. /\ \A j \in Jobs : /\ EnqueueUnset(j) => UNCHANGED completed
                         /\ EnqueueNotify(j) => UNCHANGED completed
                         /\ \A e \in ExpireAfter : EnqueuePut(j, e) => UNCHANGED completed
      /\ InitAndWatch \/ OnWatchError \/ Shutdown \/ ConfigUpdate \/ Tick \/ UNCHANGED vars
            => UNCHANGED completed
  BY DEF EnqueueUnset, EnqueueNotify, EnqueuePut, InitAndWatch, OnWatchError, Shutdown,
         ConfigUpdate, Tick, watchVars, vars
<1> QED
  BY <1>1, <1>2, <1>5, <1>6, <1>7, <1>8 DEF Next

-----------------------------------------------------------------------------
\* The queue's own part of the invariant.
PassInv == QueueTypeOK /\ Mutex /\ CreatingInv /\ RecvNeverBlocks

LEMMA PassInit == Init => PassInv
<1> SUFFICES ASSUME Init PROVE PassInv
  OBVIOUS
<1>1. QueueTypeOK
  BY BoundsAssumption DEF Init, QueueTypeOK
<1>2. Mutex /\ CreatingInv /\ RecvNeverBlocks
  BY DEF Init, Mutex, CreatingInv, RecvNeverBlocks, HoldsLock
<1> QED
  BY <1>1, <1>2 DEF PassInv

\* A step outside run_queue leaves the passes alone and never shortens the queue.
LEMMA OutsidePass ==
    ASSUME PassInv, UNCHANGED passVars, QueueTypeOK', Len(queue') >= Len(queue)
    PROVE  PassInv'
<1>1. Mutex' /\ CreatingInv'
  BY DEF PassInv, Mutex, CreatingInv, HoldsLock, passVars
<1>2. RecvNeverBlocks'
  <2> SUFFICES ASSUME NEW l \in Loops, HoldsLock(l)' PROVE waiting'[l] <= Len(queue')
    BY DEF RecvNeverBlocks
  <2>1. waiting[l] <= Len(queue) /\ waiting'[l] = waiting[l]
    BY DEF PassInv, RecvNeverBlocks, HoldsLock, passVars
  <2>2. waiting[l] \in Nat /\ Len(queue) \in Nat /\ Len(queue') \in Nat
    BY DEF PassInv, QueueTypeOK
  <2> QED
    BY <2>1, <2>2
<1> QED
  BY <1>1, <1>2 DEF PassInv

LEMMA OutsidePassAndQueue ==
    ASSUME PassInv, UNCHANGED passVars, QueueTypeOK', queue' = queue
    PROVE  PassInv'
<1>1. Len(queue') >= Len(queue)
  BY DEF PassInv, QueueTypeOK
<1> QED
  BY <1>1, OutsidePass

\* The pass of loop l moves on; the other loop holds no lock.
LEMMA PassMoves ==
    ASSUME PassInv, NEW l \in Loops, QueueTypeOK',
           \A k \in Loops \ {l} : ~HoldsLock(k) /\ pc'[k] = pc[k],
           pc'[l] \in {"create", "reply"} => current'[l] \in Jobs /\ free'[l] > 0,
           HoldsLock(l)' => waiting'[l] <= Len(queue')
    PROVE  PassInv'
<1>1. \A k \in Loops \ {l} : pc'[k] \notin {"recv", "create", "reply"}
  BY DEF HoldsLock
<1>2. Mutex' /\ CreatingInv' /\ RecvNeverBlocks'
  BY <1>1 DEF Mutex, CreatingInv, RecvNeverBlocks, HoldsLock
<1> QED
  BY <1>2 DEF PassInv

\* One step per action of run_queue.
LEMMA PassSteps ==
    ASSUME QueueInv, PassInv, NEW l \in Loops, RunQueue(l)
    PROVE  PassInv'
<1> USE DEF PassInv
<1>t. /\ config.max_running_jobs \in Nat /\ running_jobs \in Nat
      /\ Len(queue) \in Nat /\ waiting[l] \in Nat /\ free[l] \in Nat
  <2>1. config.max_running_jobs \in Nat
    BY LimitsAssumption DEF QueueTypeOK
  <2>2. running_jobs \in Nat
    BY UsizeAssumption DEF QueueInv, TypeOK, WatchTypeOK
  <2> QED
    BY <2>1, <2>2 DEF QueueTypeOK
<1>o. HoldsLock(l) => \A k \in Loops \ {l} : ~HoldsLock(k)
  BY DEF Mutex
<1>1. CASE Wake(l)
  <2>1. QueueTypeOK'
    BY <1>1 DEF QueueTypeOK, Wake
  <2>2. /\ pc'[l] = "lock" /\ pc[l] = "idle" /\ \A k \in Loops \ {l} : pc'[k] = pc[k]
        /\ UNCHANGED <<waiting, free, current, queue>>
    BY <1>1 DEF Wake, QueueTypeOK
  <2> QED
    BY <2>1, <2>2 DEF Mutex, CreatingInv, RecvNeverBlocks, HoldsLock
<1>2. CASE BeginPass(l)
  <2>1. \A k \in Loops : ~HoldsLock(k)
    BY <1>2 DEF BeginPass
  <2>2. CASE running_jobs > config.max_running_jobs
    <3>1. Leave(l) /\ UNCHANGED <<current, queueVars>>
      BY <1>2, <2>2, <1>t DEF BeginPass
    <3>2. QueueTypeOK' /\ pc'[l] = "idle" /\ \A k \in Loops \ {l} : pc'[k] = pc[k]
      BY <3>1 DEF QueueTypeOK, Leave, queueVars
    <3> QED
      BY <3>2, <2>1, PassMoves DEF HoldsLock
  <2>3. CASE running_jobs <= config.max_running_jobs
    <3>1. /\ pc' = [pc EXCEPT ![l] = "recv"]
          /\ waiting' = [waiting EXCEPT ![l] = Len(queue)]
          /\ free' = [free EXCEPT ![l] = config.max_running_jobs - running_jobs]
          /\ bound' = [bound EXCEPT ![l] = config.max_running_jobs + Cardinality(Uncounted)]
          /\ UNCHANGED <<current, queueVars>>
      BY <1>2, <2>3, <1>t DEF BeginPass
    <3>2. config.max_running_jobs - running_jobs \in Nat
      BY <1>t, <2>3
    <3>3. Cardinality(Uncounted) \in Nat
      BY JobsAssumption, FS_Subset, FS_CardinalityType DEF Uncounted, RunningInCluster
    <3>4. QueueTypeOK'
      BY <3>1, <3>2, <3>3, <1>t DEF QueueTypeOK, queueVars
    <3>5. /\ pc'[l] = "recv" /\ waiting'[l] = Len(queue) /\ queue' = queue
          /\ \A k \in Loops \ {l} : pc'[k] = pc[k]
      BY <3>1 DEF QueueTypeOK, queueVars
    <3> QED
      BY <3>4, <3>5, <2>1, <1>t, PassMoves
  <2> QED
    BY <2>2, <2>3, <1>t
<1>3. CASE Recv(l)
  <2>1. /\ pc[l] = "recv" /\ waiting[l] > 0 /\ free[l] > 0 /\ queue # <<>>
        /\ queue' = Tail(queue) /\ waiting' = [waiting EXCEPT ![l] = @ - 1]
        /\ UNCHANGED <<free, bound, task, enq, config, changes, notified, now, sent>>
        /\ \/ UNCHANGED <<pc, current>>
           \/ /\ pc' = [pc EXCEPT ![l] = "create"]
              /\ current' = [current EXCEPT ![l] = Head(queue).job]
    BY <1>3 DEF Recv
  <2>2. /\ Head(queue).job \in Jobs
        /\ Tail(queue) \in Seq(Item) /\ Len(Tail(queue)) = Len(queue) - 1
    BY <2>1, QueueHead DEF QueueTypeOK
  <2>3. waiting[l] - 1 \in Nat /\ waiting[l] <= Len(queue)
    BY <2>1, <1>t DEF RecvNeverBlocks, HoldsLock
  <2>4. QueueTypeOK'
    BY <2>1, <2>2, <2>3 DEF QueueTypeOK
  <2>5. /\ waiting'[l] = waiting[l] - 1 /\ free'[l] = free[l]
        /\ pc'[l] = "recv" \/ (pc'[l] = "create" /\ current'[l] \in Jobs)
        /\ \A k \in Loops \ {l} : pc'[k] = pc[k]
    BY <2>1, <2>2 DEF QueueTypeOK
  <2>6. waiting'[l] <= Len(queue')
    BY <2>1, <2>2, <2>3, <2>5, <1>t
  <2>7. \A k \in Loops \ {l} : ~HoldsLock(k)
    BY <2>1, <1>o DEF HoldsLock
  <2> QED
    BY <2>1, <2>4, <2>5, <2>6, <2>7, PassMoves
<1>4. CASE CreateApplied(l) \/ CreateOk(l) \/ CreateErr(l)
  <2>1. /\ pc[l] \in {"create", "reply"} /\ UNCHANGED <<waiting, queue>>
        /\ \/ /\ pc' = [pc EXCEPT ![l] = "reply"] /\ UNCHANGED <<free, current>>
           \/ /\ pc' = [pc EXCEPT ![l] = "recv"]
              /\ current' = [current EXCEPT ![l] = NoJob]
              /\ free' = [free EXCEPT ![l] = @ - 1] \/ UNCHANGED free
        /\ \/ UNCHANGED bound
           \/ bound' = [bound EXCEPT ![l] = IF pc[l] = "reply" THEN @ + 1 ELSE @]
        /\ UNCHANGED <<task, enq, config, changes, notified, now, sent>>
    BY <1>4 DEF CreateApplied, CreateOk, CreateErr, queueVars
  <2>2. HoldsLock(l) /\ free[l] > 0 /\ current[l] \in Jobs /\ waiting[l] <= Len(queue)
    BY <2>1 DEF HoldsLock, CreatingInv, RecvNeverBlocks
  <2>3. free[l] - 1 \in Nat
    BY <2>2, <1>t
  <2>t. /\ pc' \in [Loops -> {"idle", "lock", "recv", "create", "reply"}]
        /\ current' \in [Loops -> Jobs \cup {NoJob}]
        /\ free' \in [Loops -> Nat] /\ bound' \in [Loops -> Nat]
    <3>1. free' = [free EXCEPT ![l] = free[l] - 1] \/ free' = free
      BY <2>1
    <3>2. free' \in [Loops -> Nat]
      BY <3>1, <2>3 DEF QueueTypeOK
    <3>3. pc' = [pc EXCEPT ![l] = "reply"] \/ pc' = [pc EXCEPT ![l] = "recv"]
      BY <2>1
    <3>4. current' = [current EXCEPT ![l] = NoJob] \/ current' = current
      BY <2>1
    <3>5. bound' \in [Loops -> Nat]
      <4>1. bound \in [Loops -> Nat] /\ bound[l] + 1 \in Nat
        BY DEF QueueTypeOK
      <4> QED
        BY <2>1, <4>1
    <3> QED
      BY <3>2, <3>3, <3>4, <3>5 DEF QueueTypeOK
  <2>4. QueueTypeOK'
    BY <2>1, <2>t DEF QueueTypeOK
  <2>5. /\ pc'[l] = "recv" \/ (pc'[l] = "reply" /\ current'[l] = current[l] /\ free'[l] = free[l])
        /\ \A k \in Loops \ {l} : pc'[k] = pc[k]
    BY <2>1 DEF QueueTypeOK
  <2> QED
    BY <2>1, <2>2, <2>4, <2>5, <1>o, PassMoves
<1>5. CASE EndPass(l)
  <2>1. pc[l] = "recv" /\ Leave(l) /\ UNCHANGED <<current, queueVars>>
    BY <1>5 DEF EndPass
  <2>2. QueueTypeOK' /\ pc'[l] = "idle" /\ \A k \in Loops \ {l} : pc'[k] = pc[k]
    BY <2>1 DEF QueueTypeOK, Leave, queueVars
  <2>3. \A k \in Loops \ {l} : ~HoldsLock(k)
    BY <2>1, <1>o DEF HoldsLock
  <2> QED
    BY <2>2, <2>3, PassMoves DEF HoldsLock
<1> QED
  BY <1>1, <1>2, <1>3, <1>4, <1>5 DEF RunQueue

\* One step per action outside run_queue.
LEMMA PassStep ==
    ASSUME QueueInv, PassInv, [Next]_vars
    PROVE  PassInv'
<1>t. QueueTypeOK
  BY DEF PassInv
<1>1. ASSUME NEW j \in Jobs, EnqueueUnset(j) PROVE PassInv'
  <2>1. UNCHANGED passVars /\ queue' = queue /\ QueueTypeOK'
    BY <1>t, <1>1 DEF EnqueueUnset, QueueTypeOK, passVars
  <2> QED
    BY <2>1, OutsidePassAndQueue
<1>2. ASSUME NEW j \in Jobs, NEW e \in ExpireAfter, EnqueuePut(j, e) PROVE PassInv'
  <2> DEFINE item == [job |-> j, enqueued_at |-> now, expire_after |-> e]
  <2>1. item \in Item
    BY <1>t, ExpireAfterAssumption, BoundsAssumption DEF Item, QueueTypeOK
  <2>2. /\ UNCHANGED passVars /\ queue' = Append(queue, item) /\ sent' = Append(sent, j)
        /\ enq' = [enq EXCEPT ![j] = "put"]
        /\ UNCHANGED <<task, config, changes, notified, now>>
    BY <1>t, <1>2 DEF EnqueuePut
  <2>3. queue' \in Seq(Item) /\ Len(queue') = Len(queue) + 1 /\ sent' \in Seq(Jobs)
    BY <1>t, <2>1, <2>2 DEF QueueTypeOK
  <2>4. QueueTypeOK' /\ Len(queue) \in Nat
    BY <1>t, <2>2, <2>3 DEF QueueTypeOK, passVars
  <2> QED
    BY <2>2, <2>3, <2>4, OutsidePass
<1>3. ASSUME NEW j \in Jobs, EnqueueNotify(j) PROVE PassInv'
  <2>1. UNCHANGED passVars /\ queue' = queue
    BY <1>t, <1>3 DEF EnqueueNotify
  <2>2. enq' \in [Jobs -> {"new", "put", "ok", "err"}] /\ notified' \in [Loops -> BOOLEAN]
    BY <1>t, <1>3 DEF EnqueueNotify, QueueTypeOK
  <2>3. QueueTypeOK'
    BY <1>t, <1>3, <2>1, <2>2 DEF EnqueueNotify, QueueTypeOK, passVars
  <2> QED
    BY <2>1, <2>3, OutsidePassAndQueue
<1>4. ASSUME NEW j \in Jobs, OnWatchEvent(j) \/ OnInitApply(j) \/ JobRuns(j) PROVE PassInv'
  <2>1. UNCHANGED passVars /\ queue' = queue /\ QueueTypeOK'
    BY <1>t, <1>4 DEF OnWatchEvent, OnInitApply, JobRuns, Notify, QueueTypeOK, passVars, queueVars
  <2> QED
    BY <2>1, OutsidePassAndQueue
<1>5. ASSUME InitAndWatch \/ OnDesync \/ OnWatchError \/ OnInitDone PROVE PassInv'
  <2>1. UNCHANGED passVars /\ queue' = queue /\ QueueTypeOK'
    BY <1>t, <1>5 DEF InitAndWatch, OnDesync, OnWatchError, OnInitDone, Notify, QueueTypeOK,
                passVars, queueVars
  <2> QED
    BY <2>1, OutsidePassAndQueue
<1>6. ASSUME Shutdown PROVE PassInv'
  <2>1. QueueTypeOK' /\ \A l \in Loops : pc'[l] = "idle"
    BY <1>t, <1>6 DEF Shutdown, QueueTypeOK
  <2> QED
    BY <2>1 DEF PassInv, Mutex, CreatingInv, RecvNeverBlocks, HoldsLock
<1>7. ASSUME ConfigUpdate PROVE PassInv'
  <2>1. /\ UNCHANGED passVars /\ queue' = queue
        /\ changes < MaxConfigChanges /\ changes' = changes + 1
        /\ config' \in [max_running_jobs : Limits, job_waiting_timeout : Timeouts]
        /\ UNCHANGED <<task, enq, now, sent>>
    BY <1>7 DEF ConfigUpdate
  <2>2. notified' \in [Loops -> BOOLEAN]
    BY <1>t, <1>7 DEF ConfigUpdate, QueueTypeOK
  <2>3. changes' \in 0..MaxConfigChanges
    BY <1>t, <2>1, BoundsAssumption DEF QueueTypeOK
  <2>4. QueueTypeOK'
    BY <1>t, <2>1, <2>2, <2>3 DEF QueueTypeOK, passVars
  <2> QED
    BY <2>1, <2>4, OutsidePassAndQueue
<1>9. ASSUME Tick PROVE PassInv'
  <2>1. UNCHANGED passVars /\ queue' = queue /\ now' \in 0..MaxTime
    BY <1>t, <1>9, BoundsAssumption DEF Tick, QueueTypeOK
  <2>2. QueueTypeOK'
    BY <1>t, <1>9, <2>1 DEF Tick, QueueTypeOK, passVars
  <2> QED
    BY <2>1, <2>2, OutsidePassAndQueue
<1>8. ASSUME UNCHANGED vars PROVE PassInv'
  <2>1. UNCHANGED passVars /\ queue' = queue /\ QueueTypeOK'
    BY <1>t, <1>8 DEF vars, passVars, queueVars, QueueTypeOK
  <2> QED
    BY <2>1, OutsidePassAndQueue
<1> QED
  BY <1>1, <1>2, <1>3, <1>4, <1>5, <1>6, <1>7, <1>8, <1>9, PassSteps DEF Next

\* QueueInv is the watch's invariant, the type of the metric and PassInv.
LEMMA QueueInvParts ==
    QueueInv <=> CounterInv /\ completed \in [Jobs -> Seq(Completion)] /\ PassInv
<1>1. TypeOK <=> WatchTypeOK /\ QueueTypeOK
  BY DEF TypeOK, QueueTypeOK
<1>2. WatchTypeOK => completed \in [Jobs -> Seq(Completion)]
  BY DEF WatchTypeOK
<1> QED
  BY <1>1, <1>2, TypeFromCounter DEF QueueInv, PassInv

LEMMA QueueInvInit == Init => QueueInv
<1> SUFFICES ASSUME Init PROVE QueueInv
  OBVIOUS
<1>1. WatchInit
  BY DEF Init
<1> QED
  BY <1>1, CounterInit, PassInit, QueueInvParts DEF WatchInit

LEMMA QueueInvStep == QueueInv /\ [Next]_vars => QueueInv'
<1> SUFFICES ASSUME QueueInv, [Next]_vars PROVE QueueInv'
  OBVIOUS
<1>1. PassInv /\ completed \in [Jobs -> Seq(Completion)]
  BY QueueInvParts
<1>2. PassInv' /\ CounterInv'
  BY <1>1, PassStep, CounterPart
<1>3. completed' \in [Jobs -> Seq(Completion)]
  BY <1>1, CompletedPart DEF PassInv, QueueTypeOK
<1>4. TypeOK'
  <2>1. WatchTypeOK'
    <3>1. CounterTypeOK' /\ CounterIsSlots'
      BY <1>2 DEF CounterInv
    <3>2. running_jobs' \in 0..(Usize - 1)
      <4>1. slots' \subseteq Jobs /\ running_jobs' = Cardinality(slots')
        BY <3>1 DEF CounterTypeOK, CounterIsSlots
      <4>2. /\ Cardinality(slots') \in Nat /\ Cardinality(Jobs) \in Nat
            /\ Cardinality(slots') <= Cardinality(Jobs)
        BY <4>1, JobsAssumption, FS_Subset, FS_CardinalityType
      <4> QED
        BY <4>1, <4>2, UsizeAssumption
    <3> QED
      BY <1>3, <3>1, <3>2 DEF CounterTypeOK, WatchTypeOK
  <2> QED
    BY <1>2, <2>1 DEF PassInv, QueueTypeOK, TypeOK
<1> QED
  BY <1>2, <1>4 DEF QueueInv, PassInv

\* Type correctness of the queue and its watch, for every bound.
THEOREM TypeCorrect == Spec => []TypeOK
<1>1. QueueInv => TypeOK
  BY DEF QueueInv
<1> QED
  BY <1>1, QueueInvInit, QueueInvStep, PTL DEF Spec

\* run_queue never blocks in recv while it holds the lock, and the counter it
\* reads is the number of Jobs that hold a slot.
THEOREM PassCorrect == Spec => [](RecvNeverBlocks /\ CounterIsSlots)
<1>1. QueueInv => RecvNeverBlocks /\ CounterIsSlots
  BY DEF QueueInv, CounterInv
<1> QED
  BY <1>1, QueueInvInit, QueueInvStep, PTL DEF Spec

-----------------------------------------------------------------------------
(* The limit.  A Job whose answer is still on the way runs already while   *)
(* free_capacity does not show it yet.                                     *)

InFlight(l) == IF pc[l] = "reply" THEN 1 ELSE 0

OvershootInv ==
    \A l \in Loops : HoldsLock(l) =>
        Cardinality(RunningInCluster) + free[l] <= bound[l] + InFlight(l)

\* Sizes of what runs, and of what runs uncounted.
LEMMA RunningSizes ==
    /\ IsFiniteSet(RunningInCluster) /\ Cardinality(RunningInCluster) \in Nat
    /\ IsFiniteSet(Uncounted) /\ Cardinality(Uncounted) \in Nat
BY JobsAssumption, FS_Subset, FS_CardinalityType DEF RunningInCluster, Uncounted

\* The counter misses at most the uncounted Jobs.
LEMMA CountedRunning ==
    ASSUME CounterInv
    PROVE  Cardinality(RunningInCluster) <= running_jobs + Cardinality(Uncounted)
<1>1. IsFiniteSet(slots) /\ Cardinality(slots) \in Nat /\ running_jobs = Cardinality(slots)
  BY JobsAssumption, FS_Subset, FS_CardinalityType DEF CounterInv, CounterTypeOK, CounterIsSlots
<1>2. IsFiniteSet(slots \cap Uncounted) /\ Cardinality(slots \cap Uncounted) \in Nat
  BY RunningSizes, FS_Subset, FS_CardinalityType
<1>3. /\ IsFiniteSet(slots \cup Uncounted)
      /\ Cardinality(slots \cup Uncounted) =
            Cardinality(slots) + Cardinality(Uncounted) - Cardinality(slots \cap Uncounted)
  BY <1>1, RunningSizes, FS_Union
<1>4. Cardinality(RunningInCluster) <= Cardinality(slots \cup Uncounted)
  <2>1. RunningInCluster \in SUBSET (slots \cup Uncounted)
    BY DEF Uncounted
  <2> QED
    BY <2>1, <1>3, FS_Subset
<1> QED
  BY <1>1, <1>2, <1>3, <1>4, RunningSizes

\* What runs can only shrink by itself.
LEMMA RunningShrinks ==
    ASSUME RunningInCluster' \subseteq RunningInCluster
    PROVE  /\ Cardinality(RunningInCluster') \in Nat
           /\ Cardinality(RunningInCluster') <= Cardinality(RunningInCluster)
<1>1. RunningInCluster' \in SUBSET RunningInCluster
  OBVIOUS
<1> QED
  BY <1>1, RunningSizes, FS_Subset, FS_CardinalityType

LEMMA OvershootOutside ==
    ASSUME QueueInv, OvershootInv, RunningInCluster' \subseteq RunningInCluster,
           UNCHANGED passVars
    PROVE  OvershootInv'
<1> SUFFICES ASSUME NEW l \in Loops, HoldsLock(l)'
             PROVE  Cardinality(RunningInCluster') + free'[l] <= bound'[l] + InFlight(l)'
  BY DEF OvershootInv
<1>1. /\ free'[l] = free[l] /\ bound'[l] = bound[l] /\ InFlight(l)' = InFlight(l)
      /\ Cardinality(RunningInCluster) + free[l] <= bound[l] + InFlight(l)
  BY DEF passVars, OvershootInv, HoldsLock, InFlight
<1>2. free[l] \in Nat /\ bound[l] \in Nat /\ InFlight(l) \in Nat
  BY DEF QueueInv, TypeOK, InFlight
<1> QED
  BY <1>1, <1>2, RunningSizes, RunningShrinks

\* The steps of the pass that hold the lock; a lost answer lets a Job run
\* that no capacity was taken for.
LEMMA OvershootPass ==
    ASSUME QueueInv, OvershootInv, NEW l \in Loops, RunQueue(l)
    PROVE  OvershootInv'
<1> DEFINE R == Cardinality(RunningInCluster)
           Ok(k) == HoldsLock(k)' =>
                      Cardinality(RunningInCluster') + free'[k] <= bound'[k] + InFlight(k)'
<1> SUFFICES ASSUME NEW k \in Loops PROVE Ok(k)
  BY DEF OvershootInv
<1>t. /\ pc \in [Loops -> {"idle", "lock", "recv", "create", "reply"}]
      /\ free \in [Loops -> Nat] /\ bound \in [Loops -> Nat] /\ R \in Nat
      /\ free[k] \in Nat /\ bound[k] \in Nat /\ Mutex /\ CounterInv
      /\ running_jobs \in Nat
  BY RunningSizes, UsizeAssumption DEF QueueInv, TypeOK, WatchTypeOK
<1>h. HoldsLock(k) => R + free[k] <= bound[k] + InFlight(k)
  BY DEF OvershootInv
<1>1. CASE Wake(l)
  <2>1. /\ pc'[l] = "lock" /\ \A m \in Loops \ {l} : pc'[m] = pc[m]
        /\ UNCHANGED <<free, bound, cluster>>
    BY <1>1, <1>t DEF Wake, watchVars
  <2> QED
    BY <2>1, <1>h DEF HoldsLock, InFlight, RunningInCluster
<1>2. CASE BeginPass(l)
  <2>1. \A m \in Loops : ~HoldsLock(m)
    BY <1>2 DEF BeginPass
  <2>2. CASE k # l
    <3>1. pc'[k] = pc[k]
      BY <1>2, <1>t, <2>2 DEF BeginPass, Leave
    <3> QED
      BY <2>1, <3>1 DEF HoldsLock
  <2>3. CASE k = l
    <3>1. config.max_running_jobs \in Nat
      BY LimitsAssumption DEF QueueInv, TypeOK
    <3>2. \/ pc'[k] = "idle"
          \/ /\ pc'[k] = "recv" /\ running_jobs <= config.max_running_jobs
             /\ free'[k] = config.max_running_jobs - running_jobs
             /\ bound'[k] = config.max_running_jobs + Cardinality(Uncounted)
      BY <1>2, <1>t, <2>3 DEF BeginPass, Leave
    <3>3. R <= running_jobs + Cardinality(Uncounted) /\ Cardinality(Uncounted) \in Nat
      BY <1>t, CountedRunning, RunningSizes
    <3>4. RunningInCluster' = RunningInCluster
      BY <1>2 DEF BeginPass, watchVars, RunningInCluster
    <3> QED
      BY <3>1, <3>2, <3>3, <3>4, <1>t DEF HoldsLock, InFlight
  <2> QED
    BY <2>2, <2>3
<1>3. CASE Recv(l)
  <2>1. /\ pc[l] = "recv" /\ UNCHANGED <<free, bound, cluster>>
        /\ pc'[l] \in {"recv", "create"} /\ \A m \in Loops \ {l} : pc'[m] = pc[m]
    BY <1>3, <1>t DEF Recv
  <2> QED
    BY <2>1, <1>h DEF HoldsLock, InFlight, RunningInCluster
<1>4. CASE CreateApplied(l)
  <2>1. /\ pc[l] = "create" /\ ServerCreate(current[l]) /\ UNCHANGED <<free, bound>>
        /\ pc'[l] = "reply" /\ \A m \in Loops \ {l} : pc'[m] = pc[m]
    BY <1>4, <1>t DEF CreateApplied
  <2>2. k # l => ~HoldsLock(k)'
    BY <2>1, <1>t DEF Mutex, HoldsLock
  <2>3. CASE k = l
    <3>1. RunningInCluster' \in SUBSET (RunningInCluster \cup {current[l]})
      BY <2>1, <1>t DEF ServerCreate, Change, RunningInCluster, CounterInv, CounterTypeOK
    <3>2. /\ IsFiniteSet(RunningInCluster \cup {current[l]})
          /\ Cardinality(RunningInCluster \cup {current[l]}) =
                IF current[l] \in RunningInCluster THEN R ELSE R + 1
      BY RunningSizes, FS_AddElement
    <3>3. /\ Cardinality(RunningInCluster') \in Nat
          /\ Cardinality(RunningInCluster') <= Cardinality(RunningInCluster \cup {current[l]})
      BY <3>1, <3>2, FS_Subset, FS_CardinalityType
    <3>4. Cardinality(RunningInCluster') <= R + 1
      BY <3>2, <3>3, <1>t
    <3>5. R + free[k] <= bound[k]
      BY <1>h, <2>1, <2>3, <1>t DEF HoldsLock, InFlight
    <3> QED
      BY <3>3, <3>4, <3>5, <2>1, <2>3, <1>t DEF InFlight
  <2> QED
    BY <2>2, <2>3
<1>5. CASE CreateOk(l)
  <2>1. /\ pc[l] = "reply" /\ UNCHANGED <<bound, cluster>>
        /\ free' = [free EXCEPT ![l] = free[l] - 1]
        /\ pc'[l] = "recv" /\ \A m \in Loops \ {l} : pc'[m] = pc[m]
    BY <1>5, <1>t DEF CreateOk, watchVars
  <2>2. k # l => ~HoldsLock(k)'
    BY <2>1, <1>t DEF Mutex, HoldsLock
  <2>3. CASE k = l
    <3>1. R + free[k] <= bound[k] + 1 /\ free'[k] = free[k] - 1
      BY <1>h, <2>1, <2>3, <1>t DEF HoldsLock, InFlight
    <3>2. RunningInCluster' = RunningInCluster /\ InFlight(k)' = 0
      BY <2>1, <2>3 DEF RunningInCluster, InFlight
    <3> QED
      BY <3>1, <3>2, <2>1, <1>t
  <2> QED
    BY <2>2, <2>3
<1>6. CASE CreateErr(l)
  <2>1. /\ pc[l] \in {"create", "reply"} /\ UNCHANGED <<free, cluster>>
        /\ bound' = [bound EXCEPT ![l] = IF pc[l] = "reply" THEN bound[l] + 1 ELSE bound[l]]
        /\ pc'[l] = "recv" /\ \A m \in Loops \ {l} : pc'[m] = pc[m]
    BY <1>6, <1>t DEF CreateErr
  <2>2. k # l => ~HoldsLock(k)'
    BY <2>1, <1>t DEF Mutex, HoldsLock
  <2>3. CASE k = l
    <3>1. R + free[k] <= bound[k] + InFlight(k)
      BY <1>h, <2>1, <2>3 DEF HoldsLock
    <3>2. /\ RunningInCluster' = RunningInCluster /\ InFlight(k)' = 0
          /\ free'[k] = free[k] /\ bound'[k] = bound[k] + InFlight(k)
      BY <2>1, <2>3, <1>t DEF RunningInCluster, InFlight
    <3> QED
      BY <3>1, <3>2, <1>t DEF InFlight
  <2> QED
    BY <2>2, <2>3
<1>7. CASE EndPass(l)
  <2>1. /\ pc[l] = "recv" /\ pc'[l] = "idle" /\ \A m \in Loops \ {l} : pc'[m] = pc[m]
    BY <1>7, <1>t DEF EndPass, Leave
  <2> QED
    BY <2>1, <1>t DEF Mutex, HoldsLock
<1> QED
  BY <1>1, <1>2, <1>3, <1>4, <1>5, <1>6, <1>7 DEF RunQueue

LEMMA OvershootStep ==
    ASSUME QueueInv, OvershootInv, [Next]_vars
    PROVE  OvershootInv'
<1>1. ASSUME NEW j \in Jobs, JobRuns(j) PROVE OvershootInv'
  <2>1. UNCHANGED passVars /\ cluster \in [Jobs -> JobState]
    BY <1>1 DEF JobRuns, QueueInv, TypeOK, WatchTypeOK
  <2>2. /\ cluster[j] \in Status
        /\ \A k \in Jobs \ {j} : cluster'[k] = cluster[k]
    BY <1>1, <2>1 DEF JobRuns, JobProgress, JobDelete, Change
  <2>3. cluster'[j] \in Unfinished => cluster[j] \in Unfinished
    <3>1. CASE JobProgress(j)
      <4>1. PICK st \in Status : <<cluster[j], st>> \in JobSteps
        BY <3>1 DEF JobProgress
      <4>2. cluster[j] \notin Finished
        BY <4>1, OneFinalStatus
      <4> QED
        BY <4>2, <2>2, StateFacts
    <3>2. CASE JobDelete(j)
      BY <3>2, <2>1, StateFacts DEF JobDelete, Change
    <3> QED
      BY <1>1, <3>1, <3>2 DEF JobRuns
  <2>4. RunningInCluster' \subseteq RunningInCluster
    BY <2>2, <2>3 DEF RunningInCluster
  <2> QED
    BY <2>1, <2>4, OvershootOutside
<1>2. ASSUME UNCHANGED passVars, UNCHANGED cluster PROVE OvershootInv'
  BY <1>2, OvershootOutside DEF RunningInCluster
<1>3. ASSUME Shutdown PROVE OvershootInv'
  BY <1>3 DEF Shutdown, OvershootInv, HoldsLock
<1>4. ASSUME NEW j \in Jobs, OnWatchEvent(j) \/ OnInitApply(j) PROVE OvershootInv'
  BY <1>2, <1>4 DEF OnWatchEvent, OnInitApply, WatchEvent, InitApply
<1>5. ASSUME OnDesync \/ OnInitDone PROVE OvershootInv'
  BY <1>2, <1>5 DEF OnDesync, OnInitDone, Desync, InitDone
<1>6. /\ \A j \in Jobs : /\ EnqueueUnset(j) => UNCHANGED <<passVars, cluster>>
                         /\ EnqueueNotify(j) => UNCHANGED <<passVars, cluster>>
                         /\ \A e \in ExpireAfter :
                               EnqueuePut(j, e) => UNCHANGED <<passVars, cluster>>
      /\ InitAndWatch \/ OnWatchError \/ ConfigUpdate \/ Tick \/ UNCHANGED vars
            => UNCHANGED <<passVars, cluster>>
  BY DEF EnqueueUnset, EnqueueNotify, EnqueuePut, InitAndWatch, OnWatchError, ConfigUpdate,
         Tick, watchVars, vars
<1> QED
  BY <1>1, <1>2, <1>3, <1>4, <1>5, <1>6, OvershootPass DEF Next

\* No pass of run_queue fills the cluster beyond the limit it read plus the
\* Jobs that ran uncounted when it began and those whose answer it lost.
THEOREM OvershootCorrect == Spec => []OvershootBounded
<1>1. Init => QueueInv /\ OvershootInv
  BY QueueInvInit DEF Init, OvershootInv, HoldsLock
<1>2. QueueInv /\ OvershootInv /\ [Next]_vars => (QueueInv /\ OvershootInv)'
  BY QueueInvStep, OvershootStep
<1>3. QueueInv /\ OvershootInv => OvershootBounded
  <2> SUFFICES ASSUME QueueInv, OvershootInv, NEW l \in Loops, HoldsLock(l)
               PROVE  Cardinality(RunningInCluster) <= bound[l]
    BY DEF OvershootBounded
  <2>1. /\ free[l] \in Nat /\ bound[l] \in Nat /\ Cardinality(RunningInCluster) \in Nat
        /\ pc[l] = "reply" => free[l] > 0
        /\ Cardinality(RunningInCluster) + free[l] <= bound[l] + InFlight(l)
    BY RunningSizes DEF QueueInv, TypeOK, CreatingInv, OvershootInv
  <2> QED
    BY <2>1 DEF InFlight
<1> QED
  BY <1>1, <1>2, <1>3, PTL DEF Spec
-----------------------------------------------------------------------------
(* JobsQueue implements WaitingQueue: initial states map to initial states, *)
(* and every step of the two loops, of the callers and of the watch is a    *)
(* step of the line or leaves it alone.                                     *)

\* Only a running task is in run_queue.
PassesNeedTask == task # "running" => \A l \in Loops : pc[l] = "idle"

LineInv == QueueInv /\ PassesNeedTask

JobsOf(items) == [n \in DOMAIN items |-> items[n].job]

Made == {j \in Jobs : cluster[j] # "absent"}

-----------------------------------------------------------------------------
\* The Jobs of a channel that is not empty: its oldest item and the others.
LEMMA JobsOfParts ==
    ASSUME NEW s \in Seq(Item)
    PROVE  /\ JobsOf(s) \in Seq(Jobs)
           /\ s # <<>> => JobsOf(s) = <<Head(s).job>> \o JobsOf(Tail(s))
           /\ \A i \in Item : JobsOf(Append(s, i)) = Append(JobsOf(s), i.job)
<1>1. /\ \A n \in 1..Len(s) : s[n] \in Item /\ s[n].job \in Jobs
      /\ DOMAIN s = 1..Len(s) /\ Len(s) \in Nat
  <2>1. \A n \in 1..Len(s) : s[n] \in Item
    OBVIOUS
  <2>2. \A i \in Item : i.job \in Jobs
    BY DEF Item
  <2> QED
    BY <2>1, <2>2
<1>2. JobsOf(s) \in Seq(Jobs) /\ Len(JobsOf(s)) = Len(s)
  BY <1>1 DEF JobsOf
<1>3. ASSUME s # <<>> PROVE JobsOf(s) = <<Head(s).job>> \o JobsOf(Tail(s))
  <2>1. /\ Tail(s) \in Seq(Item) /\ Len(Tail(s)) = Len(s) - 1 /\ Head(s) = s[1]
        /\ \A n \in 1..(Len(s) - 1) : Tail(s)[n] = s[n + 1]
    BY <1>3
  <2>2. /\ \A n \in 1..(Len(s) - 1) : Tail(s)[n] \in Item /\ Tail(s)[n].job \in Jobs
        /\ DOMAIN Tail(s) = 1..(Len(s) - 1)
    BY <1>1, <2>1
  <2>3. JobsOf(Tail(s)) \in Seq(Jobs) /\ Len(JobsOf(Tail(s))) = Len(s) - 1
    BY <1>1, <2>1, <2>2 DEF JobsOf
  <2>4. <<Head(s).job>> \in Seq(Jobs) /\ Len(s) > 0
    BY <1>1, <1>3, <2>1
  <2> DEFINE rest == JobsOf(Tail(s))
             t == <<Head(s).job>> \o rest
  <2>c. /\ t \in Seq(Jobs) /\ Len(t) = Len(<<Head(s).job>>) + Len(rest)
        /\ \A n \in 1..Len(<<Head(s).job>>) + Len(rest) :
              t[n] = IF n <= Len(<<Head(s).job>>) THEN <<Head(s).job>>[n]
                     ELSE rest[n - Len(<<Head(s).job>>)]
    <3> HIDE DEF rest
    <3> QED
      BY <2>3, <2>4, ConcatProperties DEF rest
  <2>d. Len(<<Head(s).job>>) = 1 /\ <<Head(s).job>>[1] = Head(s).job
    OBVIOUS
  <2> HIDE DEF t
  <2>5. Len(t) = Len(s) /\ \A n \in 1..Len(s) : t[n] = IF n = 1 THEN Head(s).job ELSE rest[n - 1]
    <3>l. Len(rest) = Len(s) - 1 /\ Len(s) \in Nat
      BY <1>1, <2>3
    <3> HIDE DEF rest
    <3>1. Len(<<Head(s).job>>) + Len(rest) = Len(s)
      BY <3>l, <2>d
    <3>2. \A n \in 1..Len(s) : t[n] = IF n <= 1 THEN <<Head(s).job>>[n] ELSE rest[n - 1]
      BY <2>c, <2>d, <3>1
    <3>3. \A n \in 1..Len(s) : n <= 1 <=> n = 1
      BY <1>1
    <3> QED
      BY <2>c, <2>d, <3>1, <3>2, <3>3
  <2>6. \A n \in 1..Len(s) : n # 1 => rest[n - 1] = s[n].job
    <3> TAKE n \in 1..Len(s)
    <3> HAVE n # 1
    <3>1. n - 1 \in 1..(Len(s) - 1) /\ n - 1 + 1 = n
      BY <1>1
    <3> QED
      BY <3>1, <2>1, <2>2 DEF JobsOf
  <2>7. \A n \in 1..Len(s) : JobsOf(s)[n] = s[n].job
    BY <1>1 DEF JobsOf
  <2>8. \A n \in 1..Len(s) : t[n] = JobsOf(s)[n]
    BY <2>1, <2>5, <2>6, <2>7
  <2>9. t = JobsOf(s)
    BY <1>2, <2>c, <2>5, <2>8, SeqEqual
  <2> QED
    BY <2>9 DEF t
<1>4. ASSUME NEW i \in Item PROVE JobsOf(Append(s, i)) = Append(JobsOf(s), i.job)
  BY <1>1, <1>2 DEF JobsOf
<1> QED
  BY <1>2, <1>3, <1>4

\* A line that starts with one Job.
LEMMA LineStart ==
    ASSUME NEW j \in Jobs, NEW rest \in Seq(Jobs)
    PROVE  /\ <<j>> \o rest # <<>>
           /\ Head(<<j>> \o rest) = j
           /\ Tail(<<j>> \o rest) = rest
           /\ <<>> \o rest = rest
           /\ \A k \in Jobs : <<j>> \o Append(rest, k) = Append(<<j>> \o rest, k)
OBVIOUS

-----------------------------------------------------------------------------
\* A stopped or unset task is in no pass.
LEMMA PassesNeedTaskStep ==
    ASSUME QueueInv, PassesNeedTask, [Next]_vars
    PROVE  PassesNeedTask'
<1>1. ASSUME NEW l \in Loops, RunQueue(l) PROVE PassesNeedTask'
  <2>1. task = "running" /\ task' = task
    BY <1>1 DEF PassesNeedTask, RunQueue, Wake, BeginPass, Recv, CreateApplied, CreateOk,
                CreateErr, EndPass, queueVars
  <2> QED
    BY <2>1 DEF PassesNeedTask
<1>2. ASSUME Shutdown PROVE PassesNeedTask'
  BY <1>2 DEF Shutdown, PassesNeedTask
<1>3. ASSUME InitAndWatch PROVE PassesNeedTask'
  BY <1>3 DEF InitAndWatch, PassesNeedTask
<1>4. ASSUME UNCHANGED <<task, pc>> PROVE PassesNeedTask'
  BY <1>4 DEF PassesNeedTask
<1>5. ASSUME NEW j \in Jobs, OnWatchEvent(j) \/ OnInitApply(j) \/ JobRuns(j)
      PROVE  UNCHANGED <<task, pc>>
  BY <1>5 DEF OnWatchEvent, OnInitApply, JobRuns, passVars, queueVars
<1>6. OnDesync \/ OnInitDone \/ OnWatchError \/ ConfigUpdate \/ Tick \/ UNCHANGED vars
        => UNCHANGED <<task, pc>>
  BY DEF OnDesync, OnInitDone, OnWatchError, ConfigUpdate, Tick, vars, passVars, queueVars
<1>7. \A j \in Jobs : /\ EnqueueUnset(j) => UNCHANGED <<task, pc>>
                      /\ EnqueueNotify(j) => UNCHANGED <<task, pc>>
                      /\ \A e \in ExpireAfter : EnqueuePut(j, e) => UNCHANGED <<task, pc>>
  BY DEF EnqueueUnset, EnqueueNotify, EnqueuePut, passVars
<1> QED
  BY <1>1, <1>2, <1>3, <1>4, <1>5, <1>6, <1>7 DEF Next

LEMMA LineInvInit == Init => LineInv
BY QueueInvInit DEF Init, LineInv, PassesNeedTask

LEMMA LineInvStep == LineInv /\ [Next]_vars => LineInv'
BY QueueInvStep, PassesNeedTaskStep DEF LineInv

-----------------------------------------------------------------------------
\* What the line is, by where the passes are.
LineForm ==
    /\ task = "stopped" => InLine = <<>>
    /\ task # "stopped" /\ Creating = {} => InLine = JobsOf(queue)
    /\ task # "stopped" => \A l \in Creating : InLine = <<current[l]>> \o JobsOf(queue)
    /\ JobsOf(queue) \in Seq(Jobs)
    /\ \A l \in Creating : current[l] \in Jobs /\ Creating = {l}

LEMMA LineForms == LineInv => LineForm
<1> SUFFICES ASSUME LineInv PROVE LineForm
  OBVIOUS
<1>1. queue \in Seq(Item) /\ Mutex /\ CreatingInv
  BY DEF LineInv, QueueInv, TypeOK
<1>2. JobsOf(queue) \in Seq(Jobs)
  BY <1>1, JobsOfParts
<1>3. ASSUME NEW l \in Creating PROVE current[l] \in Jobs /\ Creating = {l}
  BY <1>1 DEF Creating, Mutex, CreatingInv, HoldsLock
<1>4. ASSUME NEW l \in Creating PROVE InRequest = <<current[l]>>
  <2>1. (CHOOSE k \in Creating : TRUE) = l
    BY <1>3
  <2> QED
    BY <2>1 DEF InRequest
<1>5. Creating = {} => InRequest = <<>>
  BY DEF InRequest
<1>6. <<>> \o JobsOf(queue) = JobsOf(queue)
  BY <1>2, ConcatEmptySeq
<1>7. InLine = IF task = "stopped" THEN <<>> ELSE InRequest \o JobsOf(queue)
  BY DEF InLine, JobsOf
<1> QED
  BY <1>2, <1>3, <1>4, <1>5, <1>6, <1>7 DEF LineForm

LEMMA LineFormsNext == LineInv' => LineForm'
BY LineForms, PTL

-----------------------------------------------------------------------------
LineStep == [Line!LineNext]_(Line!lineVars)

\* What a step that the line does not see leaves alone.
LEMMA LineUnseen ==
    ASSUME task' = "stopped" <=> task = "stopped", InLine' = InLine, Made' = Made
    PROVE  LineStep
BY DEF LineStep, Line!lineVars, Made

LEMMA LineIdle ==
    ASSUME UNCHANGED <<pc, current, queue>>, task' = "stopped" <=> task = "stopped",
           Made' = Made
    PROVE  LineStep
<1>1. InLine' = InLine
  BY DEF InLine, InRequest, Creating
<1> QED
  BY <1>1, LineUnseen

LEMMA LinePut ==
    ASSUME NEW j \in Jobs, task # "stopped", task' # "stopped",
           InLine' = Append(InLine, j), Made' = Made
    PROVE  LineStep
<1>1. Line!Put(j)
  BY DEF Line!Put, Made
<1> QED
  BY <1>1 DEF LineStep, Line!LineNext

LEMMA LineDrop ==
    ASSUME task # "stopped", task' # "stopped", InLine # <<>>, InLine' = Tail(InLine),
           Made' = Made
    PROVE  LineStep
<1>1. Line!Drop
  BY DEF Line!Drop, Made
<1> QED
  BY <1>1 DEF LineStep, Line!LineNext

LEMMA LineMake ==
    ASSUME task # "stopped", task' # "stopped", InLine # <<>>, InLine' = Tail(InLine),
           Made' = Made \cup {Head(InLine)}
    PROVE  LineStep
<1>1. Line!Make
  BY DEF Line!Make, Made
<1> QED
  BY <1>1 DEF LineStep, Line!LineNext

LEMMA LineClose ==
    ASSUME task # "stopped", task' = "stopped", InLine' = <<>>, Made' = Made
    PROVE  LineStep
<1>1. Line!Close
  BY DEF Line!Close, Made
<1> QED
  BY <1>1 DEF LineStep, Line!LineNext

-----------------------------------------------------------------------------
\* A pass takes the oldest item: an expired one is dropped from the line, any
\* other stays at its front while its creation is requested.
LEMMA LineRecv ==
    ASSUME LineInv, LineForm, LineForm', NEW l \in Loops, Recv(l), task = "running"
    PROVE  LineStep
<1>1. /\ pc[l] = "recv" /\ queue # <<>> /\ queue' = Tail(queue) /\ UNCHANGED <<task, cluster>>
      /\ \/ UNCHANGED <<pc, current>>
         \/ /\ pc' = [pc EXCEPT ![l] = "create"]
            /\ current' = [current EXCEPT ![l] = Head(queue).job]
  BY DEF Recv
<1>2. /\ queue \in Seq(Item) /\ Mutex
      /\ pc \in [Loops -> {"idle", "lock", "recv", "create", "reply"}]
      /\ current \in [Loops -> Jobs \cup {NoJob}]
  BY DEF LineInv, QueueInv, TypeOK
<1>3. /\ Head(queue).job \in Jobs /\ Tail(queue) \in Seq(Item)
  BY <1>1, <1>2, QueueHead
<1>4. Creating = {} /\ \A k \in Loops \ {l} : pc[k] # "create"
  BY <1>1, <1>2 DEF Creating, Mutex, HoldsLock
<1>5. InLine = JobsOf(queue) /\ JobsOf(queue) = <<Head(queue).job>> \o JobsOf(queue')
  BY <1>1, <1>2, <1>4, JobsOfParts DEF LineForm
<1>6. JobsOf(queue') \in Seq(Jobs)
  BY <1>1, <1>3, JobsOfParts
<1>7. Made' = Made
  BY <1>1 DEF Made
<1>8. CASE UNCHANGED <<pc, current>>
  <2>1. Creating' = {}
    BY <1>4, <1>8 DEF Creating
  <2>2. InLine' = JobsOf(queue')
    BY <1>1, <2>1 DEF LineForm, JobsOf
  <2>3. InLine # <<>> /\ InLine' = Tail(InLine)
    BY <1>3, <1>5, <1>6, <2>2, LineStart
  <2> QED
    BY <1>1, <1>7, <2>3, LineDrop
<1>9. CASE /\ pc' = [pc EXCEPT ![l] = "create"]
           /\ current' = [current EXCEPT ![l] = Head(queue).job]
  <2>1. l \in Creating' /\ current'[l] = Head(queue).job
    BY <1>2, <1>9 DEF Creating
  <2>2. InLine' = <<current'[l]>> \o JobsOf(queue')
    BY <1>1, <2>1 DEF LineForm, JobsOf
  <2>3. InLine' = InLine
    BY <1>5, <2>1, <2>2
  <2> QED
    BY <1>1, <1>7, <2>3, LineUnseen
<1> QED
  BY <1>1, <1>8, <1>9

\* The request is answered: the front of the line is made or dropped.  An answer
\* that gets lost after the Job was made does not change the line again.
LEMMA LineCreate ==
    ASSUME LineInv, LineForm, LineForm', NEW l \in Loops, CreateApplied(l) \/ CreateErr(l),
           pc[l] = "create", task = "running"
    PROVE  LineStep
<1>1. /\ pc'[l] # "create" /\ \A k \in Loops \ {l} : pc'[k] = pc[k]
      /\ UNCHANGED <<queue, task>>
  BY DEF CreateApplied, CreateErr, queueVars, LineInv, QueueInv, TypeOK
<1>2. l \in Creating /\ current[l] \in Jobs /\ Creating = {l} /\ JobsOf(queue) \in Seq(Jobs)
  BY DEF LineForm, Creating
<1>3. Creating' = {}
  BY <1>1, <1>2 DEF Creating
<1>4. InLine = <<current[l]>> \o JobsOf(queue) /\ InLine' = JobsOf(queue)
  BY <1>1, <1>2, <1>3 DEF LineForm, JobsOf
<1>5. InLine # <<>> /\ InLine' = Tail(InLine) /\ Head(InLine) = current[l]
  BY <1>2, <1>4, LineStart
<1>6. CASE CreateApplied(l)
  <2>1. cluster' = [cluster EXCEPT ![current[l]] = "pending"]
    BY <1>6 DEF CreateApplied, ServerCreate, Change
  <2>2. cluster \in [Jobs -> JobState]
    BY DEF LineInv, QueueInv, TypeOK, WatchTypeOK
  <2>3. Made' = Made \cup {Head(InLine)}
    BY <1>2, <1>5, <2>1, <2>2 DEF Made
  <2> QED
    BY <1>1, <1>5, <2>3, LineMake
<1>7. CASE CreateErr(l)
  <2>1. Made' = Made
    BY <1>7 DEF CreateErr, Made
  <2> QED
    BY <1>1, <1>5, <2>1, LineDrop
<1> QED
  BY <1>6, <1>7

\* The other steps of a pass request nothing and make nothing.
LEMMA LinePass ==
    ASSUME LineInv, LineForm, LineForm', NEW l \in Loops, RunQueue(l)
    PROVE  LineStep
<1>1. task = "running"
  BY DEF LineInv, PassesNeedTask, RunQueue, Wake, BeginPass, Recv, CreateApplied, CreateOk,
         CreateErr, EndPass
<1>2. CASE Recv(l)
  BY <1>1, <1>2, LineRecv
<1>3. CASE pc[l] = "create" /\ (CreateApplied(l) \/ CreateErr(l))
  BY <1>1, <1>3, LineCreate
<1>4. CASE Wake(l) \/ BeginPass(l) \/ CreateOk(l) \/ EndPass(l)
           \/ (pc[l] = "reply" /\ CreateErr(l))
  <2>1. pc \in [Loops -> {"idle", "lock", "recv", "create", "reply"}]
        /\ current \in [Loops -> Jobs \cup {NoJob}]
    BY DEF LineInv, QueueInv, TypeOK
  <2>2. /\ pc[l] # "create" /\ pc'[l] # "create" /\ \A k \in Loops \ {l} : pc'[k] = pc[k]
        /\ \A k \in Loops \ {l} : current'[k] = current[k]
    BY <1>4, <2>1 DEF Wake, BeginPass, CreateOk, EndPass, CreateErr, Leave
  <2>3. UNCHANGED <<queue, task, cluster>>
    BY <1>4 DEF Wake, BeginPass, CreateOk, EndPass, CreateErr, watchVars, queueVars
  <2>4. Creating' = Creating /\ \A k \in Creating : k # l /\ current'[k] = current[k]
    BY <2>2 DEF Creating
  <2>5. InLine' = InLine
    <3>1. CASE Creating = {}
      BY <1>1, <2>3, <2>4, <3>1 DEF LineForm, JobsOf
    <3>2. CASE Creating # {}
      <4>1. PICK k \in Creating : TRUE
        BY <3>2
      <4>2. InLine = <<current[k]>> \o JobsOf(queue)
        BY <1>1, <4>1 DEF LineForm
      <4>3. InLine' = <<current'[k]>> \o JobsOf(queue)
        BY <1>1, <2>3, <2>4, <4>1 DEF LineForm, JobsOf
      <4> QED
        BY <2>4, <4>1, <4>2, <4>3
    <3> QED
      BY <3>1, <3>2
  <2>6. Made' = Made
    BY <2>3 DEF Made
  <2> QED
    BY <2>3, <2>5, <2>6, LineUnseen
<1> QED
  BY <1>2, <1>3, <1>4 DEF RunQueue, CreateApplied, CreateErr

\* What is put into the channel joins the line, unless the task has ended.
LEMMA LineEnqueue ==
    ASSUME LineInv, LineForm, LineForm', NEW j \in Jobs, NEW e \in ExpireAfter,
           EnqueuePut(j, e)
    PROVE  LineStep
<1> DEFINE item == [job |-> j, enqueued_at |-> now, expire_after |-> e]
<1>1. /\ queue' = Append(queue, item) /\ UNCHANGED <<pc, current, task, cluster>>
  BY DEF EnqueuePut, passVars, watchVars
<1>2. item \in Item /\ item.job = j /\ queue \in Seq(Item)
  BY ExpireAfterAssumption, BoundsAssumption DEF Item, LineInv, QueueInv, TypeOK
<1>3. JobsOf(queue') = Append(JobsOf(queue), j)
  <2> HIDE DEF item
  <2> QED
    BY <1>1, <1>2, JobsOfParts
<1>4. Made' = Made /\ Creating' = Creating
  BY <1>1 DEF Made, Creating
<1>5. CASE task = "stopped"
  <2>1. InLine' = InLine
    BY <1>1, <1>5 DEF InLine
  <2> QED
    BY <1>1, <1>4, <2>1, LineUnseen
<1>6. CASE task # "stopped" /\ Creating = {}
  <2>1. InLine = JobsOf(queue) /\ InLine' = JobsOf(queue')
    BY <1>1, <1>4, <1>6 DEF LineForm, JobsOf
  <2> QED
    BY <1>1, <1>3, <1>4, <1>6, <2>1, LinePut
<1>7. CASE task # "stopped" /\ Creating # {}
  <2>1. PICK l \in Creating : TRUE
    BY <1>7
  <2>2. current[l] \in Jobs /\ JobsOf(queue) \in Seq(Jobs) /\ InLine = <<current[l]>> \o JobsOf(queue)
    BY <1>7, <2>1 DEF LineForm
  <2>3. InLine' = <<current[l]>> \o JobsOf(queue')
    BY <1>1, <1>4, <1>7, <2>1 DEF LineForm, JobsOf
  <2>4. InLine' = Append(InLine, j)
    BY <1>3, <2>2, <2>3, LineStart
  <2> QED
    BY <1>1, <1>4, <1>7, <2>4, LinePut
<1> QED
  BY <1>5, <1>6, <1>7

\* One step per action outside run_queue.
LEMMA LineSteps ==
    ASSUME LineInv, LineForm, LineForm', [Next]_vars
    PROVE  LineStep
<1>1. ASSUME NEW j \in Jobs, EnqueueUnset(j) \/ EnqueueNotify(j) PROVE LineStep
  <2>1. UNCHANGED <<pc, current, queue, task, cluster>>
    BY <1>1 DEF EnqueueUnset, EnqueueNotify, passVars, watchVars
  <2> QED
    BY <2>1, LineIdle DEF Made
<1>2. ASSUME InitAndWatch PROVE LineStep
  <2>1. UNCHANGED <<pc, current, queue, cluster>> /\ task # "stopped" /\ task' # "stopped"
    BY <1>2 DEF InitAndWatch, passVars, watchVars
  <2> QED
    BY <2>1, LineIdle DEF Made
<1>3. ASSUME Shutdown PROVE LineStep
  <2>1. task # "stopped" /\ task' = "stopped" /\ UNCHANGED cluster
    BY <1>3 DEF Shutdown, watchVars
  <2>2. InLine' = <<>>
    BY <2>1 DEF InLine
  <2> QED
    BY <2>1, <2>2, LineClose DEF Made
<1>4. ASSUME NEW j \in Jobs, OnWatchEvent(j) \/ OnInitApply(j) PROVE LineStep
  <2>1. UNCHANGED <<pc, current, queue, task, cluster>>
    BY <1>4 DEF OnWatchEvent, OnInitApply, WatchEvent, InitApply, passVars
  <2> QED
    BY <2>1, LineIdle DEF Made
<1>5. ASSUME NEW j \in Jobs, JobRuns(j) PROVE LineStep
  <2>1. UNCHANGED <<pc, current, queue, task>>
    BY <1>5 DEF JobRuns, passVars, queueVars
  <2>2. cluster \in [Jobs -> JobState]
    BY DEF LineInv, QueueInv, TypeOK, WatchTypeOK
  <2>3. /\ cluster[j] \in Status /\ cluster'[j] # "absent"
        /\ \A k \in Jobs \ {j} : cluster'[k] = cluster[k]
    BY <1>5, <2>2 DEF JobRuns, JobProgress, JobDelete, Change, Status, Unfinished, Finished
  <2>4. cluster[j] # "absent"
    BY <2>3 DEF Status, Unfinished, Finished
  <2>5. Made' = Made
    BY <2>3, <2>4 DEF Made
  <2> QED
    BY <2>1, <2>5, LineIdle
<1>6. ASSUME \/ OnDesync \/ OnInitDone \/ OnWatchError \/ ConfigUpdate \/ Tick
             \/ UNCHANGED vars
      PROVE  LineStep
  <2>1. UNCHANGED <<pc, current, queue, task, cluster>>
    BY <1>6 DEF OnDesync, OnInitDone, OnWatchError, ConfigUpdate, Tick, Desync, InitDone,
                passVars, queueVars, watchVars, vars
  <2> QED
    BY <2>1, LineIdle DEF Made
<1> QED
  BY <1>1, <1>2, <1>3, <1>4, <1>5, <1>6, LineEnqueue, LinePass DEF Next

\* The queue of src/jobs.rs keeps the promise of WaitingQueue under every
\* interleaving of the two loops, the callers, the watch, lost answers, expiry,
\* changes of the limit and the end of the task: first in, first out, and what
\* left the line never comes back.
THEOREM QueueImplementsLine == Spec => ImplementsWaitingQueue
<1>1. Init => Line!LineInit
  <2> SUFFICES ASSUME Init PROVE Line!LineInit
    OBVIOUS
  <2>1. InLine = <<>>
    BY DEF Init, InLine, InRequest, Creating
  <2> QED
    BY <2>1 DEF Init, WatchInit, Line!LineInit
<1>2. LineInv /\ [Next]_vars => [Line!LineNext]_(Line!lineVars)
  BY LineInvStep, LineForms, LineFormsNext, LineSteps DEF LineStep
<1> QED
  BY <1>1, <1>2, LineInvInit, LineInvStep, PTL DEF Spec, ImplementsWaitingQueue, Line!LineSpec
=============================================================================
