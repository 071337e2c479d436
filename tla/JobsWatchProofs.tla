--------------------------- MODULE JobsWatchProofs ---------------------------
(***************************************************************************)
(* What the counter of running Jobs means, for every set of Jobs and every *)
(* number of re-lists.  The argument rests on one order of what is known   *)
(* about a Job: the handler's map is behind the store, the store behind    *)
(* the undelivered events (and the snapshot of a re-list), and those       *)
(* behind the cluster, where a finished Job stays finished and a deleted   *)
(* one stays deleted.                                                      *)
(***************************************************************************)
EXTENDS JobsWatch, FiniteSetTheorems, TLAPS

\* t may be known of a Job after s was.
Later(s, t) ==
    /\ s \in Status => t # "absent"
    /\ s \in Finished => t \in {s, "deleted"}
    /\ s = "deleted" => t = "deleted"

\* What the counter depends on; only the metric completed is left out.
counterVars == <<cluster, events, store, statuses, running_jobs, relist, desyncs, slots>>

CounterTypeOK ==
    /\ cluster \in [Jobs -> JobState]
    /\ events \in [Jobs -> Seq(JobState)]
    /\ store \in [Jobs -> JobState]
    /\ statuses \in [Jobs -> Status \cup {NoStatus}]
    /\ relist \in [on : BOOLEAN, snapshot : [Jobs -> JobState], todo : SUBSET Jobs]
    /\ desyncs \in 0..MaxDesyncs
    /\ slots \subseteq Jobs

EventsInOrder(j) ==
    /\ \A n \in 1..Len(events[j]) : /\ events[j][n] # "absent"
                                    /\ Later(store[j], events[j][n])
                                    /\ Later(events[j][n], cluster[j])
    /\ \A m, n \in 1..Len(events[j]) : m < n => Later(events[j][m], events[j][n])

SnapshotInOrder(j) ==
    relist.on => /\ Later(store[j], relist.snapshot[j])
                 /\ Later(relist.snapshot[j], cluster[j])
                 /\ \A n \in 1..Len(events[j]) : Later(relist.snapshot[j], events[j][n])

KnowledgeInOrder ==
    \A j \in Jobs : /\ Later(statuses[j], store[j])
                    /\ Later(store[j], cluster[j])
                    /\ EventsInOrder(j)
                    /\ SnapshotInOrder(j)

\* A slot that no entry of the map stands for is never taken a second time.
LeakedSlotsAreDeleted ==
    \A j \in Jobs : statuses[j] = NoStatus /\ j \in slots => store[j] = "deleted"

CounterInv ==
    /\ CounterTypeOK
    /\ KnowledgeInOrder
    /\ KnownUnfinishedHoldSlots
    /\ LeakedSlotsAreDeleted
    /\ CounterIsSlots

-----------------------------------------------------------------------------
\* The states of a Job are different strings.
LEMMA StateFacts ==
    /\ Status \cap Gone = {}
    /\ NoStatus \notin JobState
    /\ Unfinished \cap Finished = {}
    /\ Status = Unfinished \cup Finished
    /\ JobState = Status \cup Gone
    /\ "absent" \in Gone /\ "deleted" \in Gone /\ "pending" \in Unfinished
    /\ Gone = {"absent", "deleted"}
BY DEF Status, Gone, NoStatus, JobState, Unfinished, Finished

\* Knowledge about a Job only moves forward.
LEMMA LaterTrans ==
    ASSUME NEW s, NEW t \in JobState, NEW u \in JobState, Later(s, t), Later(t, u)
    PROVE  Later(s, u)
BY StateFacts DEF Later

LEMMA LaterRefl == \A s \in JobState : Later(s, s)
BY StateFacts DEF Later

LEMMA CounterInit == WatchInit => CounterInv
<1> SUFFICES ASSUME WatchInit PROVE CounterInv
  OBVIOUS
<1>1. CounterTypeOK
  BY MaxDesyncsAssumption, StateFacts
  DEF WatchInit, CounterTypeOK, NoRelist
<1>2. KnowledgeInOrder
  BY StateFacts
  DEF WatchInit, KnowledgeInOrder, EventsInOrder, SnapshotInOrder, Later, NoRelist
<1>3. KnownUnfinishedHoldSlots /\ LeakedSlotsAreDeleted
  BY StateFacts DEF WatchInit, KnownUnfinishedHoldSlots, LeakedSlotsAreDeleted
<1>4. CounterIsSlots
  BY FS_EmptySet DEF WatchInit, CounterIsSlots
<1> QED
  BY <1>1, <1>2, <1>3, <1>4 DEF CounterInv

-----------------------------------------------------------------------------
\* A change in the cluster is later than everything known of the Job.
LEMMA ChangeInOrder ==
    ASSUME CounterInv, NEW j \in Jobs, NEW st \in JobState,
           st # "absent", Later(cluster[j], st), Change(j, st),
           UNCHANGED <<store, statuses, running_jobs, relist, desyncs, slots>>
    PROVE  CounterInv'
<1> USE DEF CounterInv
<1>1. CounterTypeOK'
  BY DEF CounterTypeOK, Change
<1>2. ASSUME NEW k \in Jobs
      PROVE  /\ Later(statuses[k], store[k])'
             /\ Later(store[k], cluster[k])'
             /\ EventsInOrder(k)'
             /\ SnapshotInOrder(k)'
  <2>1. CASE k # j
    <3>1. cluster'[k] = cluster[k] /\ events'[k] = events[k]
      BY <2>1 DEF Change, CounterTypeOK
    <3> QED
      BY <3>1 DEF KnowledgeInOrder, EventsInOrder, SnapshotInOrder, Later
  <2>2. CASE k = j
    <3>1. cluster'[k] = st /\ events'[k] = Append(events[k], st)
      BY <2>2 DEF Change, CounterTypeOK
    <3>2. /\ events[k] \in Seq(JobState)
          /\ cluster[k] \in JobState /\ store[k] \in JobState
          /\ relist.snapshot[k] \in JobState
      BY DEF CounterTypeOK
    <3>3. /\ Later(store[k], cluster[k]) /\ EventsInOrder(k) /\ SnapshotInOrder(k)
          /\ Later(statuses[k], store[k])
      BY DEF KnowledgeInOrder
    <3>4. Later(st, st)
      BY LaterRefl
    <3>5. Later(store[k], st)
      BY <3>2, <3>3, <2>2, LaterTrans
    <3>6. \A n \in 1..Len(events[k]) : events[k][n] \in JobState /\ Later(events[k][n], st)
      BY <3>2, <3>3, <2>2, LaterTrans DEF EventsInOrder
    <3>7. relist.on => Later(relist.snapshot[k], st)
      BY <3>2, <3>3, <2>2, LaterTrans DEF SnapshotInOrder
    <3>8. /\ Len(events'[k]) = Len(events[k]) + 1
          /\ events'[k][Len(events[k]) + 1] = st
          /\ \A n \in 1..Len(events[k]) : events'[k][n] = events[k][n]
          /\ Len(events[k]) \in Nat
      BY <3>1, <3>2
    <3>9. EventsInOrder(k)'
      BY <3>1, <3>3, <3>4, <3>5, <3>6, <3>8 DEF EventsInOrder
    <3>10. SnapshotInOrder(k)'
      BY <3>1, <3>3, <3>7, <3>8 DEF SnapshotInOrder
    <3> QED
      BY <3>1, <3>3, <3>5, <3>9, <3>10
  <2> QED
    BY <2>1, <2>2
<1>3. KnownUnfinishedHoldSlots' /\ LeakedSlotsAreDeleted' /\ CounterIsSlots'
  BY DEF KnownUnfinishedHoldSlots, LeakedSlotsAreDeleted, CounterIsSlots
<1> QED
  BY <1>1, <1>2, <1>3 DEF KnowledgeInOrder

-----------------------------------------------------------------------------
\* The handler only takes a slot for a Job that has none and only gives one
\* back for a Job that has it: this is where OneFinalStatus is used, through
\* the order of what is known.
LEMMA HandlerSlots ==
    ASSUME CounterInv, NEW j \in Jobs, NEW st \in JobState, Later(store[j], st)
    PROVE  /\ Acquires(j, st) => j \notin slots
           /\ Releases(j, st) => j \in slots
           /\ ~(Acquires(j, st) /\ Releases(j, st))
<1>1. /\ Later(statuses[j], store[j])
      /\ statuses[j] \in Status \cup {NoStatus}
      /\ store[j] \in JobState
  BY DEF CounterInv, CounterTypeOK, KnowledgeInOrder
<1>2. Later(statuses[j], st)
  BY <1>1, LaterTrans
<1>3. Acquires(j, st) => j \notin slots
  BY StateFacts DEF CounterInv, Acquires, LeakedSlotsAreDeleted, Later
<1>4. Releases(j, st) => statuses[j] \in Unfinished
  BY <1>1, <1>2, StateFacts DEF Releases, Finishes, Vanishes, Later
<1>5. Releases(j, st) => j \in slots
  BY <1>4 DEF CounterInv, KnownUnfinishedHoldSlots
<1> QED
  BY <1>3, <1>4, <1>5, StateFacts DEF Acquires

\* The arithmetic of one event: the counter follows the set of slots.
LEMMA HandlerCounts ==
    ASSUME CounterInv, NEW j \in Jobs, NEW st \in JobState, Later(store[j], st),
           Handle(j, st)
    PROVE  slots' \subseteq Jobs /\ CounterIsSlots'
<1>1. /\ slots \subseteq Jobs /\ IsFiniteSet(slots)
      /\ Cardinality(slots) \in Nat /\ Cardinality(slots) <= Cardinality(Jobs)
      /\ Cardinality(Jobs) \in Nat
  BY JobsAssumption, FS_Subset, FS_CardinalityType DEF CounterInv, CounterTypeOK
<1>2. running_jobs = Cardinality(slots) /\ Usize \in Nat /\ Usize > 2 * Cardinality(Jobs)
  BY UsizeAssumption DEF CounterInv, CounterIsSlots
<1>3. CASE Acquires(j, st)
  <2>1. j \notin slots /\ slots' = slots \cup {j} /\ running_jobs' = (running_jobs + 1) % Usize
    BY <1>3, HandlerSlots DEF Handle
  <2>2. Cardinality(slots') = Cardinality(slots) + 1 /\ slots' \subseteq Jobs
    BY <2>1, <1>1, FS_AddElement
  <2>3. Cardinality(slots') <= Cardinality(Jobs)
    BY <2>2, JobsAssumption, FS_Subset
  <2>4. (running_jobs + 1) % Usize = running_jobs + 1
    BY <2>2, <2>3, <1>1, <1>2
  <2> QED
    BY <2>1, <2>2, <2>4, <1>2 DEF CounterIsSlots
<1>4. CASE Releases(j, st)
  <2>1. j \in slots /\ slots' = slots \ {j} /\ running_jobs' = (running_jobs - 1) % Usize
    BY <1>4, HandlerSlots DEF Handle
  <2>2. Cardinality(slots') = Cardinality(slots) - 1 /\ slots' \subseteq Jobs
    BY <2>1, <1>1, FS_RemoveElement
  <2>3. Cardinality(slots') \in Nat
    BY <2>1, <1>1, FS_RemoveElement, FS_CardinalityType
  <2>4. (running_jobs - 1) % Usize = running_jobs - 1
    BY <2>2, <2>3, <1>1, <1>2
  <2> QED
    BY <2>1, <2>2, <2>4, <1>2 DEF CounterIsSlots
<1>5. CASE ~Acquires(j, st) /\ ~Releases(j, st)
  BY <1>5, <1>1, <1>2 DEF Handle, CounterIsSlots
<1> QED
  BY <1>3, <1>4, <1>5

\* The map and the slots after one event.
LEMMA HandlerKnows ==
    ASSUME CounterInv, NEW j \in Jobs, NEW st \in JobState, Later(store[j], st),
           Handle(j, st), store' = [store EXCEPT ![j] = st]
    PROVE  /\ statuses' \in [Jobs -> Status \cup {NoStatus}]
           /\ \A k \in Jobs : Later(statuses[k], store[k])'
           /\ KnownUnfinishedHoldSlots'
           /\ LeakedSlotsAreDeleted'
<1>1. /\ statuses' \in [Jobs -> Status \cup {NoStatus}]
      /\ statuses'[j] = Entry(st) /\ store'[j] = st
      /\ \A k \in Jobs \ {j} : /\ statuses'[k] = statuses[k] /\ store'[k] = store[k]
                               /\ (k \in slots' <=> k \in slots)
  BY DEF CounterInv, CounterTypeOK, Handle, Entry
<1>2. ASSUME NEW k \in Jobs, k # j
      PROVE  /\ Later(statuses[k], store[k])'
             /\ statuses'[k] \in Unfinished => k \in slots'
             /\ statuses'[k] = NoStatus /\ k \in slots' => store'[k] = "deleted"
  <2>1. /\ Later(statuses[k], store[k])
        /\ statuses[k] \in Unfinished => k \in slots
        /\ statuses[k] = NoStatus /\ k \in slots => store[k] = "deleted"
    BY DEF CounterInv, KnowledgeInOrder, KnownUnfinishedHoldSlots, LeakedSlotsAreDeleted
  <2>2. k \in Jobs \ {j}
    BY <1>2
  <2>3. statuses'[k] = statuses[k] /\ store'[k] = store[k] /\ (k \in slots' <=> k \in slots)
    BY <1>1, <2>2
  <2> QED
    BY <2>1, <2>3 DEF Later
<1>3. /\ Later(statuses[j], store[j])
      /\ statuses[j] \in Status \cup {NoStatus}
      /\ store[j] \in JobState
      /\ statuses[j] \in Unfinished => j \in slots
      /\ statuses[j] = NoStatus /\ j \in slots => store[j] = "deleted"
  BY DEF CounterInv, CounterTypeOK, KnowledgeInOrder, KnownUnfinishedHoldSlots,
         LeakedSlotsAreDeleted
<1>4. Later(statuses[j], st)
  BY <1>3, LaterTrans
<1>5. Later(statuses[j], store[j])'
  BY <1>1, StateFacts DEF Entry, Later
<1>6. statuses'[j] \in Unfinished => j \in slots'
  <2>1. SUFFICES ASSUME st \in Unfinished PROVE j \in slots'
    BY <1>1, StateFacts DEF Entry
  <2>2. ~Releases(j, st) /\ statuses[j] \in Unfinished \cup {NoStatus}
    BY <2>1, <1>3, <1>4, StateFacts DEF Releases, Finishes, Vanishes, Later
  <2> QED
    BY <2>1, <2>2, <1>3, StateFacts DEF Handle, Acquires
<1>7. ASSUME statuses'[j] = NoStatus, j \in slots' PROVE st = "deleted"
  <2>1. st \in Gone /\ ~Acquires(j, st)
    BY <1>7, <1>1, StateFacts DEF Entry, Acquires
  <2>2. j \in slots
    BY <2>1, <1>7 DEF Handle
  <2> QED
    BY <2>1, <2>2, <1>3, <1>4, StateFacts DEF Later
<1> QED
  BY <1>1, <1>2, <1>5, <1>6, <1>7 DEF KnownUnfinishedHoldSlots, LeakedSlotsAreDeleted

-----------------------------------------------------------------------------
\* One step per action of JobsWatch.
LEMMA CounterStep ==
    ASSUME CounterInv, WatchNext \/ UNCHANGED counterVars
    PROVE  CounterInv'
<1>t. CounterTypeOK /\ KnowledgeInOrder
  BY DEF CounterInv
<1>1. ASSUME NEW j \in Jobs, ServerCreate(j) PROVE CounterInv'
  <2>1. cluster[j] = "absent" /\ Change(j, "pending")
    BY <1>1 DEF ServerCreate
  <2>2. "pending" \in JobState /\ "pending" # "absent" /\ Later(cluster[j], "pending")
    BY <2>1, StateFacts DEF Later
  <2> QED
    BY <1>1, <2>1, <2>2, ChangeInOrder DEF ServerCreate
<1>2. ASSUME NEW j \in Jobs, JobProgress(j) PROVE CounterInv'
  <2>1. PICK st \in Status : <<cluster[j], st>> \in JobSteps /\ Change(j, st)
    BY <1>2 DEF JobProgress
  <2>2. cluster[j] \notin Finished
    BY <2>1, OneFinalStatus
  <2>3. st \in JobState /\ st # "absent" /\ Later(cluster[j], st)
    BY <1>2, <2>2, StateFacts DEF Later, JobProgress
  <2> QED
    BY <1>2, <2>1, <2>3, ChangeInOrder DEF JobProgress
<1>3. ASSUME NEW j \in Jobs, JobDelete(j) PROVE CounterInv'
  <2>1. Change(j, "deleted")
    BY <1>3 DEF JobDelete
  <2>2. "deleted" \in JobState /\ "deleted" # "absent" /\ Later(cluster[j], "deleted")
    BY StateFacts DEF Later
  <2> QED
    BY <1>3, <2>1, <2>2, ChangeInOrder DEF JobDelete
<1>4. ASSUME NEW j \in Jobs, WatchEvent(j) PROVE CounterInv'
  <2> DEFINE st == Head(events[j])
  <2>1. /\ ~relist.on /\ events[j] # <<>> /\ Handle(j, st)
        /\ events' = [events EXCEPT ![j] = Tail(events[j])]
        /\ store' = [store EXCEPT ![j] = st]
        /\ UNCHANGED <<cluster, relist, desyncs>>
    BY <1>4 DEF WatchEvent
  <2>2. /\ events[j] \in Seq(JobState) /\ Len(events[j]) \in Nat /\ Len(events[j]) > 0
        /\ st = events[j][1] /\ st \in JobState
    BY <1>t, <2>1 DEF CounterTypeOK
  <2>3. /\ Len(Tail(events[j])) = Len(events[j]) - 1
        /\ \A n \in 1..(Len(events[j]) - 1) : Tail(events[j])[n] = events[j][n + 1]
        /\ Tail(events[j]) \in Seq(JobState)
    BY <2>1, <2>2
  <2>4. Later(store[j], st) /\ Later(st, cluster[j])
    BY <1>t, <2>2 DEF KnowledgeInOrder, EventsInOrder
  <2>5. /\ slots' \subseteq Jobs /\ CounterIsSlots'
        /\ statuses' \in [Jobs -> Status \cup {NoStatus}]
        /\ \A k \in Jobs : Later(statuses[k], store[k])'
        /\ KnownUnfinishedHoldSlots' /\ LeakedSlotsAreDeleted'
    BY <2>1, <2>2, <2>4, HandlerCounts, HandlerKnows
  <2>6. CounterTypeOK'
    BY <1>t, <2>1, <2>2, <2>3, <2>5 DEF CounterTypeOK
  <2>7. ASSUME NEW k \in Jobs
        PROVE  Later(store[k], cluster[k])' /\ EventsInOrder(k)' /\ SnapshotInOrder(k)'
    <3>1. CASE k # j
      <4>1. store'[k] = store[k] /\ events'[k] = events[k] /\ cluster'[k] = cluster[k]
        BY <3>1, <2>1, <1>t DEF CounterTypeOK
      <4>2. Later(store[k], cluster[k]) /\ EventsInOrder(k)
        BY <1>t DEF KnowledgeInOrder
      <4> QED
        BY <4>1, <4>2, <2>1 DEF EventsInOrder, SnapshotInOrder, Later
    <3>2. CASE k = j
      <4>1. store'[k] = st /\ events'[k] = Tail(events[k]) /\ cluster'[k] = cluster[k]
        BY <3>2, <2>1, <1>t DEF CounterTypeOK
      <4>2. EventsInOrder(k)
        BY <1>t DEF KnowledgeInOrder
      <4>3. Later(store[k], cluster[k])'
        BY <4>1, <2>4, <3>2 DEF Later
      <4>4. EventsInOrder(k)'
        BY <4>1, <4>2, <3>2, <2>2, <2>3 DEF EventsInOrder
      <4> QED
        BY <4>3, <4>4, <2>1 DEF SnapshotInOrder
    <3> QED
      BY <3>1, <3>2
  <2> QED
    BY <2>5, <2>6, <2>7 DEF CounterInv, KnowledgeInOrder
<1>5. ASSUME Desync PROVE CounterInv'
  <2>1. /\ relist' = [on |-> TRUE, snapshot |-> cluster,
                       todo |-> {j \in Jobs : cluster[j] \in Status}]
        /\ events' = [j \in Jobs |-> <<>>]
        /\ desyncs < MaxDesyncs /\ desyncs' = desyncs + 1
        /\ UNCHANGED <<cluster, store, statuses, running_jobs, slots>>
    BY <1>5 DEF Desync
  <2>2. CounterTypeOK'
    BY <1>t, <2>1, MaxDesyncsAssumption DEF CounterTypeOK
  <2>3. KnowledgeInOrder'
    BY <1>t, <2>1, LaterRefl
    DEF KnowledgeInOrder, EventsInOrder, SnapshotInOrder, Later, CounterTypeOK
  <2> QED
    BY <2>1, <2>2, <2>3
    DEF CounterInv, KnownUnfinishedHoldSlots, LeakedSlotsAreDeleted, CounterIsSlots
<1>6. ASSUME NEW j \in Jobs, InitApply(j) PROVE CounterInv'
  <2>1. /\ relist' = [relist EXCEPT !.todo = @ \ {j}]
        /\ Handle(j, store[j])
        /\ UNCHANGED <<cluster, events, store, desyncs>>
    BY <1>6 DEF InitApply
  <2>2. store[j] \in JobState /\ store = [store EXCEPT ![j] = store[j]]
    BY <1>t DEF CounterTypeOK
  <2>3. Later(store[j], store[j])
    BY <2>2, LaterRefl
  <2>4. /\ slots' \subseteq Jobs /\ CounterIsSlots'
        /\ statuses' \in [Jobs -> Status \cup {NoStatus}]
        /\ \A k \in Jobs : Later(statuses[k], store[k])'
        /\ KnownUnfinishedHoldSlots' /\ LeakedSlotsAreDeleted'
    BY <2>1, <2>2, <2>3, HandlerCounts, HandlerKnows
  <2>5. relist'.on = relist.on /\ relist'.snapshot = relist.snapshot
    BY <2>1, <1>t DEF CounterTypeOK
  <2>6. CounterTypeOK'
    BY <1>t, <2>1, <2>4 DEF CounterTypeOK
  <2>7. \A k \in Jobs : Later(store[k], cluster[k])' /\ EventsInOrder(k)' /\ SnapshotInOrder(k)'
    BY <1>t, <2>1, <2>5 DEF KnowledgeInOrder, EventsInOrder, SnapshotInOrder, Later
  <2> QED
    BY <2>4, <2>6, <2>7 DEF CounterInv, KnowledgeInOrder
<1>7. ASSUME InitDone PROVE CounterInv'
  <2>1. /\ relist.on /\ store' = relist.snapshot /\ relist' = NoRelist
        /\ UNCHANGED <<cluster, events, statuses, running_jobs, desyncs, slots>>
    BY <1>7 DEF InitDone
  <2>2. CounterTypeOK'
    BY <1>t, <2>1, StateFacts DEF CounterTypeOK, NoRelist
  <2>3. ASSUME NEW k \in Jobs
        PROVE  /\ Later(statuses[k], store[k])' /\ Later(store[k], cluster[k])'
               /\ EventsInOrder(k)' /\ SnapshotInOrder(k)'
               /\ statuses'[k] = NoStatus /\ k \in slots' => store'[k] = "deleted"
    <3>1. /\ Later(statuses[k], store[k]) /\ EventsInOrder(k) /\ SnapshotInOrder(k)
          /\ store[k] \in JobState /\ relist.snapshot[k] \in JobState
      BY <1>t DEF KnowledgeInOrder, CounterTypeOK
    <3>2. Later(statuses[k], relist.snapshot[k])
      BY <3>1, <2>1, LaterTrans DEF SnapshotInOrder
    <3>3. statuses[k] = NoStatus /\ k \in slots => relist.snapshot[k] = "deleted"
      BY <3>1, <2>1 DEF CounterInv, LeakedSlotsAreDeleted, SnapshotInOrder, Later
    <3>4. EventsInOrder(k)'
      BY <3>1, <2>1 DEF EventsInOrder, SnapshotInOrder, Later
    <3>5. Later(store[k], cluster[k])'
      BY <3>1, <2>1 DEF SnapshotInOrder, Later
    <3> QED
      BY <3>2, <3>3, <3>4, <3>5, <2>1 DEF SnapshotInOrder, NoRelist, Later
  <2>4. KnownUnfinishedHoldSlots' /\ CounterIsSlots'
    BY <2>1 DEF CounterInv, KnownUnfinishedHoldSlots, CounterIsSlots
  <2> QED
    BY <2>2, <2>3, <2>4 DEF CounterInv, KnowledgeInOrder, LeakedSlotsAreDeleted
<1>8. ASSUME UNCHANGED counterVars PROVE CounterInv'
  BY <1>8 DEF counterVars, CounterInv, CounterTypeOK, KnowledgeInOrder, EventsInOrder,
     SnapshotInOrder, Later, KnownUnfinishedHoldSlots, LeakedSlotsAreDeleted, CounterIsSlots
<1> QED
  BY <1>1, <1>2, <1>3, <1>4, <1>5, <1>6, <1>7, <1>8 DEF WatchNext

-----------------------------------------------------------------------------
\* The type of the whole state, the metric included.
LEMMA TypeFromCounter ==
    ASSUME CounterInv, completed \in [Jobs -> Seq(Completion)]
    PROVE  WatchTypeOK
<1>1. IsFiniteSet(slots) /\ Cardinality(slots) \in Nat /\ Cardinality(Jobs) \in Nat
      /\ Cardinality(slots) <= Cardinality(Jobs)
  BY JobsAssumption, FS_Subset, FS_CardinalityType DEF CounterInv, CounterTypeOK
<1>2. running_jobs \in 0..(Usize - 1)
  BY <1>1, UsizeAssumption DEF CounterInv, CounterIsSlots
<1> QED
  BY <1>2 DEF CounterInv, CounterTypeOK, WatchTypeOK

LEMMA CompletedType ==
    ASSUME completed \in [Jobs -> Seq(Completion)], [WatchNext]_watchVars
    PROVE  completed' \in [Jobs -> Seq(Completion)]
<1>1. ASSUME NEW j \in Jobs, NEW st, Handle(j, st)
      PROVE  completed' \in [Jobs -> Seq(Completion)]
  <2>1. Outcome(j, st) \in Completion
    BY DEF Outcome, Completion
  <2> QED
    BY <1>1, <2>1 DEF Handle
<1> QED
  BY <1>1 DEF WatchNext, watchVars, ServerCreate, JobProgress, JobDelete, WatchEvent, Desync,
     InitApply, InitDone

\* CounterInv holds throughout, whatever the watch loses.
LEMMA CounterInvariant == WatchSpec => []CounterInv
<1>1. WatchInit => CounterInv
  BY CounterInit
<1>2. CounterInv /\ [WatchNext]_watchVars => CounterInv'
  BY CounterStep DEF watchVars, counterVars
<1> QED
  BY <1>1, <1>2, PTL DEF WatchSpec

\* The counter always is the number of slots, for any number of Jobs and of
\* re-lists: fetch_sub never takes running_jobs below zero.
THEOREM CounterCorrect == WatchSpec => []CounterIsSlots
<1>1. CounterInv => CounterIsSlots
  BY DEF CounterInv
<1> QED
  BY <1>1, CounterInvariant, PTL

\* Each Job that the handler last saw unfinished holds a slot, so that run_queue
\* never takes the capacity of a Job it knows to run.
THEOREM KnownUnfinishedCorrect == WatchSpec => []KnownUnfinishedHoldSlots
<1>1. CounterInv => KnownUnfinishedHoldSlots
  BY DEF CounterInv
<1> QED
  BY <1>1, CounterInvariant, PTL

\* Type correctness of JobsWatch; that running_jobs stays a usize follows from
\* the meaning of the counter.
THEOREM WatchTypeCorrect == WatchSpec => []WatchTypeOK
<1> DEFINE TInv == CounterInv /\ completed \in [Jobs -> Seq(Completion)]
<1>1. WatchInit => TInv
  BY CounterInit DEF WatchInit
<1>2. TInv /\ [WatchNext]_watchVars => TInv'
  BY CounterStep, CompletedType DEF watchVars, counterVars
<1>3. TInv => WatchTypeOK
  BY TypeFromCounter
<1> QED
  BY <1>1, <1>2, <1>3, PTL DEF WatchSpec

-----------------------------------------------------------------------------
(* The metric: a Job that was reported is finished or gone for good.       *)

CompletedInv ==
    \A j \in Jobs : completed[j] # <<>> =>
        /\ Len(completed[j]) = 1
        /\ statuses[j] \in Finished \/ (statuses[j] = NoStatus /\ store[j] = "deleted")

LEMMA CompletedStep ==
    ASSUME CounterInv, completed \in [Jobs -> Seq(Completion)], CompletedInv,
           [WatchNext]_watchVars
    PROVE  /\ CompletedInv'
           /\ \A j \in Jobs : completed[j] # <<>> => j \notin slots' \ slots
<1>1. ASSUME NEW j \in Jobs, NEW st \in JobState, Later(store[j], st), Handle(j, st),
             store' = [store EXCEPT ![j] = st]
      PROVE  /\ CompletedInv'
             /\ \A k \in Jobs : completed[k] # <<>> => k \notin slots' \ slots
  <2>1. /\ statuses'[j] = Entry(st) /\ store'[j] = st
        /\ \A k \in Jobs \ {j} : statuses'[k] = statuses[k] /\ store'[k] = store[k]
    BY <1>1 DEF CounterInv, CounterTypeOK, Handle
  <2>2. /\ Later(statuses[j], store[j])
        /\ statuses[j] \in Status \cup {NoStatus} /\ store[j] \in JobState
    BY DEF CounterInv, CounterTypeOK, KnowledgeInOrder
  <2>3. Later(statuses[j], st)
    BY <2>2, <1>1, LaterTrans
  <2>4. Releases(j, st) => statuses[j] \in Unfinished
    BY <2>2, <2>3, StateFacts DEF Releases, Finishes, Vanishes, Later
  <2>5. ASSUME completed[j] # <<>>
        PROVE  ~Acquires(j, st) /\ ~Releases(j, st)
    <3>1. statuses[j] \in Finished \/ (statuses[j] = NoStatus /\ store[j] = "deleted")
      BY <2>5 DEF CompletedInv
    <3> QED
      BY <3>1, <2>4, <1>1, StateFacts DEF Acquires, Later
  <2>6. \A k \in Jobs : completed[k] # <<>> => k \notin slots' \ slots
    BY <2>5, <1>1 DEF Handle
  <2>7. ASSUME NEW k \in Jobs, k # j, completed'[k] # <<>>
        PROVE  /\ Len(completed'[k]) = 1
               /\ \/ statuses'[k] \in Finished
                  \/ statuses'[k] = NoStatus /\ store'[k] = "deleted"
    <3>1. k \in Jobs \ {j} /\ completed'[k] = completed[k]
      BY <2>7, <1>1 DEF Handle
    <3> QED
      BY <3>1, <2>1, <2>7 DEF CompletedInv
  <2>8. ASSUME completed'[j] # <<>>
        PROVE  /\ Len(completed'[j]) = 1
               /\ \/ statuses'[j] \in Finished
                  \/ statuses'[j] = NoStatus /\ store'[j] = "deleted"
    <3>1. CASE Releases(j, st)
      <4>1. completed[j] = <<>> /\ completed'[j] = Append(completed[j], Outcome(j, st))
        BY <3>1, <2>5, <1>1 DEF Handle
      <4>2. Len(completed'[j]) = 1
        BY <4>1
      <4>3. st \in Finished \/ st = "deleted"
        BY <3>1, <2>3, <2>4, StateFacts DEF Releases, Finishes, Vanishes, Later
      <4> QED
        BY <4>2, <4>3, <2>1, StateFacts DEF Entry
    <3>2. CASE ~Releases(j, st)
      <4>1. completed'[j] = completed[j]
        BY <3>2, <1>1 DEF Handle
      <4>2. /\ Len(completed[j]) = 1
            /\ statuses[j] \in Finished \/ (statuses[j] = NoStatus /\ store[j] = "deleted")
        BY <4>1, <2>8 DEF CompletedInv
      <4>3. st \in Finished \/ st = "deleted"
        BY <4>2, <2>3, <1>1, StateFacts DEF Later
      <4> QED
        BY <4>1, <4>2, <4>3, <2>1, StateFacts DEF Entry
    <3> QED
      BY <3>1, <3>2
  <2> QED
    BY <2>6, <2>7, <2>8 DEF CompletedInv
<1>2. ASSUME NEW j \in Jobs, WatchEvent(j)
      PROVE  /\ Later(store[j], Head(events[j])) /\ Head(events[j]) \in JobState
             /\ Handle(j, Head(events[j]))
             /\ store' = [store EXCEPT ![j] = Head(events[j])]
  <2>1. events[j] \in Seq(JobState) /\ events[j] # <<>> /\ EventsInOrder(j)
    BY <1>2 DEF CounterInv, CounterTypeOK, KnowledgeInOrder, WatchEvent
  <2>2. Head(events[j]) = events[j][1] /\ 1 \in 1..Len(events[j])
    BY <2>1
  <2> QED
    BY <1>2, <2>1, <2>2 DEF WatchEvent, EventsInOrder
<1>3. ASSUME NEW j \in Jobs, InitApply(j)
      PROVE  /\ Later(store[j], store[j]) /\ store[j] \in JobState
             /\ Handle(j, store[j]) /\ store' = [store EXCEPT ![j] = store[j]]
  BY <1>3, LaterRefl DEF CounterInv, CounterTypeOK, InitApply
<1>4. ASSUME InitDone PROVE CompletedInv'
  <2>1. \A k \in Jobs : store[k] = "deleted" => relist.snapshot[k] = "deleted"
    BY <1>4 DEF CounterInv, KnowledgeInOrder, SnapshotInOrder, InitDone, Later
  <2> QED
    BY <1>4, <2>1 DEF InitDone, CompletedInv
<1>5. ASSUME UNCHANGED <<completed, statuses, store>> PROVE CompletedInv'
  BY <1>5 DEF CompletedInv
<1>6. ASSUME UNCHANGED slots
      PROVE  \A j \in Jobs : completed[j] # <<>> => j \notin slots' \ slots
  BY <1>6
<1> QED
  BY <1>1, <1>2, <1>3, <1>4, <1>5, <1>6
  DEF WatchNext, watchVars, ServerCreate, JobProgress, JobDelete, Desync, InitDone

CompletionInv == CounterInv /\ completed \in [Jobs -> Seq(Completion)] /\ CompletedInv

LEMMA CompletionInvInit == WatchInit => CompletionInv
BY CounterInit DEF WatchInit, CompletedInv, CompletionInv

LEMMA CompletionInvStep == CompletionInv /\ [WatchNext]_watchVars => CompletionInv'
BY CounterStep, CompletedType, CompletedStep DEF watchVars, counterVars, CompletionInv

\* completed_count gets at most one increment per Job, whatever the watch loses.
THEOREM CompletedOnceCorrect == WatchSpec => []CompletedOnce
<1>1. CompletionInv => CompletedOnce
  <2> SUFFICES ASSUME CompletionInv, NEW j \in Jobs PROVE Len(completed[j]) <= 1
    BY DEF CompletedOnce
  <2>1. completed[j] = <<>> => Len(completed[j]) = 0
    OBVIOUS
  <2>2. completed[j] # <<>> => Len(completed[j]) = 1
    BY DEF CompletedInv, CompletionInv
  <2>3. Len(completed[j]) = 0 \/ Len(completed[j]) = 1
    BY <2>1, <2>2
  <2>4. CASE Len(completed[j]) = 0
    BY <2>4
  <2>5. CASE Len(completed[j]) = 1
    BY <2>5
  <2> QED
    BY <2>3, <2>4, <2>5
<1> QED
  BY <1>1, CompletionInvInit, CompletionInvStep, PTL DEF WatchSpec

\* A Job that completed_count has counted never takes a slot of the counter again.
THEOREM NoSlotAfterCompletionCorrect == WatchSpec => NoSlotAfterCompletion
<1> DEFINE Quiet == \A j \in Jobs : completed[j] # <<>> => j \notin slots' \ slots
<1>1. CompletionInv /\ [WatchNext]_watchVars => [Quiet]_watchVars
  BY CompletedStep DEF CompletionInv
<1> QED
  BY <1>1, CompletionInvInit, CompletionInvStep, PTL DEF WatchSpec, NoSlotAfterCompletion

-----------------------------------------------------------------------------
(* Without re-lists the map mirrors the store, and the events still to be  *)
(* delivered lead from the store to the cluster.                           *)

ReliableInv ==
    /\ ~relist.on
    /\ \A j \in Jobs :
          /\ statuses[j] = Entry(store[j])
          /\ j \in slots <=> store[j] \in Unfinished
          /\ events[j] = <<>> => store[j] = cluster[j]
          /\ events[j] # <<>> => events[j][Len(events[j])] = cluster[j]
          /\ events[j] # <<>> /\ store[j] = "absent" => events[j][1] = "pending"

LEMMA ReliableChange ==
    ASSUME CounterInv, ReliableInv, NEW j \in Jobs, NEW st \in JobState, Change(j, st),
           cluster[j] = "absent" => st = "pending",
           UNCHANGED <<store, statuses, relist, slots>>
    PROVE  ReliableInv'
<1>1. /\ events \in [Jobs -> Seq(JobState)] /\ cluster \in [Jobs -> JobState]
      /\ \A k \in Jobs \ {j} : cluster'[k] = cluster[k] /\ events'[k] = events[k]
      /\ cluster'[j] = st /\ events'[j] = Append(events[j], st)
  BY DEF CounterInv, CounterTypeOK, Change
<1>2. /\ events'[j] # <<>> /\ events'[j][Len(events'[j])] = st
      /\ events[j] = <<>> => events'[j][1] = st
      /\ events[j] # <<>> => events'[j][1] = events[j][1]
  <2>1. /\ events[j] \in Seq(JobState) /\ Len(events[j]) \in Nat
        /\ events'[j] = Append(events[j], st) /\ events'[j] \in Seq(JobState)
        /\ Len(events'[j]) = Len(events[j]) + 1
    BY <1>1
  <2>2. events'[j][Len(events[j]) + 1] = st
    BY <2>1
  <2>3. \A n \in 1..Len(events[j]) : events'[j][n] = events[j][n]
    BY <2>1
  <2>4. events[j] = <<>> => Len(events[j]) = 0
    BY <2>1
  <2>5. events[j] # <<>> => 1 \in 1..Len(events[j])
    BY <2>1
  <2>6. events'[j] # <<>>
    BY <2>1
  <2> QED
    BY <2>1, <2>2, <2>3, <2>4, <2>5, <2>6
<1>3. \A k \in Jobs \ {j} :
          /\ events'[k] = <<>> => store'[k] = cluster'[k]
          /\ events'[k] # <<>> => events'[k][Len(events'[k])] = cluster'[k]
          /\ events'[k] # <<>> /\ store'[k] = "absent" => events'[k][1] = "pending"
  BY <1>1 DEF ReliableInv
<1>4. store[j] = "absent" => events'[j][1] = "pending"
  BY <1>2 DEF ReliableInv
<1> QED
  BY <1>1, <1>2, <1>3, <1>4 DEF ReliableInv

LEMMA ReliableEvent ==
    ASSUME CounterInv, ReliableInv, NEW j \in Jobs, WatchEvent(j)
    PROVE  ReliableInv'
<1> DEFINE st == Head(events[j])
<1>1. /\ events[j] \in Seq(JobState) /\ events[j] # <<>> /\ EventsInOrder(j)
      /\ store[j] \in JobState
      /\ Handle(j, st) /\ UNCHANGED <<cluster, relist>>
      /\ events'[j] = Tail(events[j]) /\ store'[j] = st /\ statuses'[j] = Entry(st)
      /\ \A k \in Jobs \ {j} : /\ events'[k] = events[k] /\ store'[k] = store[k]
                               /\ statuses'[k] = statuses[k]
                               /\ (k \in slots' <=> k \in slots)
  BY DEF CounterInv, CounterTypeOK, KnowledgeInOrder, WatchEvent, Handle
<1>2. /\ st = events[j][1] /\ st \in JobState /\ 1 \in 1..Len(events[j])
      /\ events'[j] = <<>> => events[j][Len(events[j])] = st
      /\ events'[j] # <<>> => events'[j][Len(events'[j])] = events[j][Len(events[j])]
  BY <1>1
<1>3. Later(store[j], st) /\ st # "absent"
  BY <1>1, <1>2 DEF EventsInOrder
<1>4. /\ statuses[j] = Entry(store[j])
      /\ (j \in slots <=> store[j] \in Unfinished)
      /\ events[j][Len(events[j])] = cluster[j]
      /\ store[j] = "absent" => st = "pending"
  BY <1>1, <1>2 DEF ReliableInv
<1>5. j \in slots' <=> st \in Unfinished
  <2>1. CASE Acquires(j, st)
    <3>1. statuses[j] = NoStatus /\ st \in Status /\ j \in slots'
      BY <2>1, <1>1 DEF Acquires, Handle
    <3>2. store[j] \in Gone
      BY <3>1, <1>1, <1>4, StateFacts DEF Entry
    <3>3. st = "pending"
      BY <3>1, <3>2, <1>3, <1>4, StateFacts DEF Later
    <3> QED
      BY <3>1, <3>3, StateFacts
  <2>2. CASE ~Acquires(j, st) /\ Releases(j, st)
    <3>1. j \notin slots'
      BY <2>2, <1>1 DEF Handle
    <3>2. st \notin Unfinished
      BY <2>2, StateFacts DEF Releases, Finishes, Vanishes
    <3> QED
      BY <3>1, <3>2
  <2>3. CASE ~Acquires(j, st) /\ ~Releases(j, st)
    <3>1. j \in slots' <=> j \in slots
      BY <2>3, <1>1 DEF Handle
    <3>2. st \in Unfinished => store[j] \in Unfinished
      BY <2>3, <1>1, <1>3, <1>4, StateFacts DEF Acquires, Entry, Later
    <3>3. store[j] \in Unfinished => st \in Unfinished
      BY <2>3, <1>2, <1>4, StateFacts DEF Releases, Finishes, Vanishes, Entry
    <3> QED
      BY <3>1, <3>2, <3>3, <1>4
  <2> QED
    BY <2>1, <2>2, <2>3
<1>6. /\ events'[j] = <<>> => store'[j] = cluster'[j]
      /\ events'[j] # <<>> => events'[j][Len(events'[j])] = cluster'[j]
      /\ store'[j] # "absent"
  BY <1>1, <1>2, <1>3, <1>4
<1>7. \A k \in Jobs \ {j} :
          /\ statuses'[k] = Entry(store'[k])
          /\ (k \in slots' <=> store'[k] \in Unfinished)
          /\ events'[k] = <<>> => store'[k] = cluster'[k]
          /\ events'[k] # <<>> => events'[k][Len(events'[k])] = cluster'[k]
          /\ events'[k] # <<>> /\ store'[k] = "absent" => events'[k][1] = "pending"
  BY <1>1 DEF ReliableInv
<1>8. ~relist'.on
  BY <1>1 DEF ReliableInv
<1> QED
  BY <1>1, <1>5, <1>6, <1>7, <1>8 DEF ReliableInv, Entry

LEMMA ReliableStep ==
    ASSUME CounterInv, desyncs = 0 => ReliableInv, desyncs' = 0,
           WatchNext \/ UNCHANGED counterVars
    PROVE  ReliableInv'
<1>0. desyncs \in Nat
  BY MaxDesyncsAssumption DEF CounterInv, CounterTypeOK
<1>1. ASSUME NEW j \in Jobs, ServerCreate(j) PROVE ReliableInv'
  BY <1>1, ReliableChange, StateFacts DEF ServerCreate
<1>2. ASSUME NEW j \in Jobs, JobProgress(j) PROVE ReliableInv'
  BY <1>2, ReliableChange, StateFacts DEF JobProgress
<1>3. ASSUME NEW j \in Jobs, JobDelete(j) PROVE ReliableInv'
  BY <1>3, ReliableChange, StateFacts DEF JobDelete
<1>4. ~Desync
  BY <1>0 DEF Desync
<1>5. ASSUME InitDone \/ \E j \in Jobs : InitApply(j) PROVE ReliableInv'
  BY <1>5 DEF ReliableInv, InitDone, InitApply
<1>6. ASSUME UNCHANGED counterVars PROVE ReliableInv'
  BY <1>6 DEF counterVars, ReliableInv
<1>7. ASSUME NEW j \in Jobs, WatchEvent(j) PROVE ReliableInv'
  BY <1>7, ReliableEvent DEF WatchEvent
<1> QED
  BY <1>1, <1>2, <1>3, <1>4, <1>5, <1>6, <1>7 DEF WatchNext

LEMMA ReliableCount ==
    ASSUME CounterInv, desyncs = 0 => ReliableInv
    PROVE  CaughtUpCount
<1> SUFFICES ASSUME CaughtUp, ReliableInv PROVE running_jobs = Cardinality(RunningInCluster)
  BY DEF CaughtUpCount
<1>1. slots = RunningInCluster
  BY DEF CaughtUp, RunningInCluster, ReliableInv, CounterInv, CounterTypeOK
<1> QED
  BY <1>1 DEF CounterInv, CounterIsSlots

\* As long as the watch has not lost its position, running_jobs is the number
\* of unfinished Jobs in the cluster whenever every event is delivered.
THEOREM CaughtUpCorrect == WatchSpec => []CaughtUpCount
<1> DEFINE Inv == CounterInv /\ (desyncs = 0 => ReliableInv)
<1>1. WatchInit => Inv
  BY CounterInit, StateFacts DEF WatchInit, ReliableInv, NoRelist, Entry
<1>2. Inv /\ [WatchNext]_watchVars => Inv'
  BY CounterStep, ReliableStep DEF watchVars, counterVars
<1>3. Inv => CaughtUpCount
  BY ReliableCount
<1> QED
  BY <1>1, <1>2, <1>3, PTL DEF WatchSpec
=============================================================================
