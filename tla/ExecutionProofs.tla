--------------------------- MODULE ExecutionProofs ---------------------------
(***************************************************************************)
(* What the platform does while only workers, sandboxes and gateways fail: *)
(* a job is in one place at a time, its row says which, and so it runs     *)
(* once at a time, is decided once, and moves as its lifecycle allows. At  *)
(* the end, what is left of that while only calls fail, and while only     *)
(* restarts happen.                                                        *)
(***************************************************************************)
EXTENDS CustodyProofs

OnlyWorkersFail ==
  Disruptions \subseteq {"worker_crash", "sigterm", "gateway_crash", "spawn_error"}

(***************************************************************************)
(* The one place of a job: a request that has not pushed it yet, an entry  *)
(* that waits, a worker that works on it, or the list of a dead worker.    *)
(***************************************************************************)
Fresh(j)     == post[j] \in {"none", "enqueue"}
Works(w, j)  == workerAt[w] \in Busy \ {"remove_old"} /\ CurrentJob(w) = j
Leaves(w, j) == /\ workerAt[w] = "crashed" /\ ~DeletedNext(w)
                /\ processing[w] # <<>> /\ Head(processing[w]).job = j
Keeps(w, j)  == Works(w, j) \/ Leaves(w, j)

NoTwins(q) == \A i, k \in DOMAIN q : i # k => q[i].job # q[k].job

Exclusive ==
  /\ NoTwins(pending)
  /\ \A j \in Jobs : Waits(j) => ~Fresh(j)
  /\ \A w \in Workers, j \in Jobs : Keeps(w, j) => ~Fresh(j) /\ ~Waits(j)
  /\ \A v, w \in Workers, j \in Jobs : Keeps(v, j) /\ Keeps(w, j) => v = w

LEMMA TwinsPushed ==
  ASSUME NEW q \in Queue, NEW e \in QueuePayload, NoTwins(q),
         \A x \in ToSet(q) : x.job # e.job
  PROVE  NoTwins(LPush(q, e))
<1>1. /\ Len(q) \in Nat /\ DOMAIN q = 1..Len(q) /\ DOMAIN LPush(q, e) = 1..(Len(q) + 1)
      /\ LPush(q, e)[1] = e /\ \A i \in 2..(Len(q) + 1) : LPush(q, e)[i] = q[i - 1]
  BY DEF Queue, LPush
<1>2. \A i \in 1..Len(q) : q[i].job # e.job
  BY <1>1 DEF ToSet
<1> SUFFICES ASSUME NEW i \in DOMAIN LPush(q, e), NEW k \in DOMAIN LPush(q, e), i # k
             PROVE  LPush(q, e)[i].job # LPush(q, e)[k].job
  BY DEF NoTwins
<1>3. CASE i = 1
  <2>1. k - 1 \in 1..Len(q) /\ LPush(q, e)[k] = q[k - 1]
    BY <1>1, <1>3
  <2> QED  BY <1>1, <1>2, <1>3, <2>1
<1>4. CASE k = 1
  <2>1. i - 1 \in 1..Len(q) /\ LPush(q, e)[i] = q[i - 1]
    BY <1>1, <1>4
  <2> QED  BY <1>1, <1>2, <1>4, <2>1
<1>5. CASE i # 1 /\ k # 1
  <2>1. /\ i - 1 \in DOMAIN q /\ k - 1 \in DOMAIN q /\ i - 1 # k - 1
        /\ LPush(q, e)[i] = q[i - 1] /\ LPush(q, e)[k] = q[k - 1]
    BY <1>1, <1>5
  <2> QED  BY <2>1 DEF NoTwins
<1> QED  BY <1>3, <1>4, <1>5

LEMMA TwinsPopped ==
  ASSUME NEW q \in Queue, q # <<>>, NoTwins(q)
  PROVE  NoTwins(Front(q)) /\ \A x \in ToSet(Front(q)) : x.job # Last(q).job
<1>1. /\ Len(q) \in Nat \ {0} /\ DOMAIN q = 1..Len(q) /\ DOMAIN Front(q) = 1..(Len(q) - 1)
      /\ \A i \in 1..(Len(q) - 1) : Front(q)[i] = q[i]
      /\ Last(q) = q[Len(q)]
  BY DEF Queue, Front, Last
<1>2. \A i \in DOMAIN Front(q) : i \in DOMAIN q /\ i # Len(q) /\ Front(q)[i] = q[i]
  BY <1>1
<1>3. NoTwins(Front(q))
  BY <1>2 DEF NoTwins
<1>4. Len(q) \in DOMAIN q
  BY <1>1
<1> QED  BY <1>1, <1>2, <1>3, <1>4 DEF NoTwins, ToSet

(***************************************************************************)
(* A step keeps jobs apart when it moves none, or one: into the queue from *)
(* the place it had, or out of the queue to a worker.                      *)
(***************************************************************************)
NoNewPlace ==
  /\ \A j \in Jobs : Fresh(j)' => Fresh(j)
  /\ \A w \in Workers, j \in Jobs : Keeps(w, j)' => Keeps(w, j)

LEMMA StaysApart ==
  ASSUME Exclusive, NoNewPlace, UNCHANGED pending
  PROVE  Exclusive'
BY DEF Exclusive, NoNewPlace, Waits, NoTwins

LEMMA PushedApart ==
  ASSUME StoreTypeOK, Exclusive, NoNewPlace, NEW e \in QueuePayload, EnqueuePending(e),
         Fresh(e.job) \/ \E w \in Workers : Keeps(w, e.job),
         ~Fresh(e.job)', \A w \in Workers : ~Keeps(w, e.job)'
  PROVE  Exclusive'
<1>1. e.job \in Jobs /\ ~Waits(e.job)
  BY DEF Exclusive, QueuePayload
<1>2. \A j \in Jobs : Waits(j)' <=> Waits(j) \/ j = e.job
  <2>1. ToSet(pending') = ToSet(pending) \union {e}
    BY PushAndPop DEF EnqueuePending, StoreTypeOK
  <2> QED  BY <2>1 DEF Waits
<1>3. NoTwins(pending')
  BY <1>1, TwinsPushed DEF EnqueuePending, StoreTypeOK, Exclusive, Waits
<1>4. \A w \in Workers, j \in Jobs : Keeps(w, j)' => Keeps(w, j) /\ j # e.job
  BY DEF NoNewPlace
<1>5. \A j \in Jobs : Fresh(j)' => Fresh(j) /\ j # e.job
  BY DEF NoNewPlace
<1> QED  BY <1>2, <1>3, <1>4, <1>5 DEF Exclusive, NoTwins

LEMMA PoppedApart ==
  ASSUME StoreTypeOK, Exclusive, pending # <<>>, pending' = Front(pending), UNCHANGED post,
         NEW w \in Workers,
         \A v \in Workers, j \in Jobs :
           Keeps(v, j)' => Keeps(v, j) \/ (v = w /\ j = Last(pending).job)
  PROVE  Exclusive'
<1>1. /\ Last(pending) \in QueuePayload /\ NoTwins(pending')
      /\ ToSet(pending) = ToSet(pending') \union {Last(pending)}
      /\ \A x \in ToSet(pending') : x.job # Last(pending).job
  BY PushAndPop, TwinsPopped DEF StoreTypeOK, Exclusive
<1>2. \A j \in Jobs : Waits(j)' => Waits(j) /\ j # Last(pending).job
  BY <1>1 DEF Waits
<1>3. Waits(Last(pending).job) /\ Last(pending).job \in Jobs
  BY <1>1 DEF Waits, QueuePayload
<1>4. \A j \in Jobs : Fresh(j)' <=> Fresh(j)
  BY DEF Fresh
<1> QED  BY <1>1, <1>2, <1>3, <1>4 DEF Exclusive, NoTwins

(***************************************************************************)
(* What the row of a job says, by the place the job is at.                 *)
(***************************************************************************)
Row(j, s, n) == status[j] = s /\ retryCount[j] = n
Attempted(e) == status[e.job] \in {"PENDING", "RUNNING"} /\ retryCount[e.job] = e.retry

\* A worker whose claims succeed, and one that pushes what it has written.
Claims(w)       == workerAt[w] \notin {"check", "give_back", "discard"}
PushesAgreed(w) == workerAt[w] = "push_retry" =>
                     Row(CurrentJob(w), "PENDING", current[w].retry + 1)

Running  == {"remove_stale", "start_container", "running", "persist", "requeue", "dlq_persist"}
Deciding == {"acknowledge", "publish", "dlq_push", "dlq_publish"}

FreshRows == \A j \in Jobs : /\ At(j, "none") => Row(j, "ABSENT", 0)
                             /\ At(j, "enqueue") => Row(j, "PENDING", 0)

WorkerRow(w) ==
  /\ workerAt[w] \notin {"check", "give_back", "discard"}
  /\ workerAt[w] = "claim" => Row(CurrentJob(w), "PENDING", current[w].retry)
  /\ workerAt[w] \in Running => Row(CurrentJob(w), "RUNNING", current[w].retry)
  /\ workerAt[w] = "push_retry" => Row(CurrentJob(w), "PENDING", current[w].retry + 1)
  /\ workerAt[w] \in Deciding => Decided(CurrentJob(w))

Requeued(w) == \E m \in Monitors : monitorAt[m] = "push_recovered" /\ target[m] = w

LeftRow(w) ==
  workerAt[w] = "crashed" /\ ~DeletedNext(w) /\ processing[w] # <<>> =>
    \/ Decided(Head(processing[w]).job)
    \/ Attempted(Head(processing[w]))
    \/ Requeued(w)

MonitorRow(m) ==
  /\ monitorAt[m] \in {"mark_pending", "dlq_persist"} => ~Decided(Orphan(m).job)
  /\ monitorAt[m] = "push_recovered" => Row(Orphan(m).job, "PENDING", Orphan(m).retry + 1)

NoRestart == \A m \in Monitors : monitorAt[m] \notin {"down"} \union StartupSteps

RowsFollow ==
  /\ FreshRows /\ QueueAgreesWithRows
  /\ \A w \in Workers : WorkerRow(w) /\ LeftRow(w)
  /\ \A m \in Monitors : MonitorRow(m)

\* What is known of a state already, and what the steps below must keep.
Known == TypeOK /\ Safekept /\ Accounted /\ OutcomeInOrder /\ NoCompensation
OnePlace == NoRestart /\ Exclusive /\ RowsFollow

LEMMA PlacePoints ==
  /\ Running \subseteq FullHanded \union {"dlq_persist"} /\ Running \subseteq Busy
  /\ Deciding \subseteq Busy /\ "remove_old" \notin Running \union Deciding
  /\ Running \intersect Deciding = {} /\ "crashed" \notin Busy
  /\ {"remove_stale", "start_container", "running", "persist", "requeue", "dlq_persist"}
       \subseteq Running
  /\ {"acknowledge", "publish", "dlq_push", "dlq_publish"} \subseteq Deciding
  /\ {"claim", "push_retry"} \intersect (Running \union Deciding) = {}
  /\ {"pop", "stopped", "crashed", "off", "remove_old"} \intersect (Running \union Deciding) = {}
  /\ Busy = {"claim", "check", "give_back", "discard", "push_retry", "remove_old"}
              \union Running \union Deciding
BY DEF Running, Deciding, FullHanded, Busy, Sandboxed, Requeuing, Inert

\* The entry a monitor handles is the one its target left.
LEMMA OrphanIsLeft ==
  ASSUME RetriesOrCrashes, Known, NEW m \in Monitors, monitorAt[m] \in NeedsOrphan
  PROVE  /\ target[m] \in Workers /\ workerAt[target[m]] = "crashed"
         /\ Orphan(m) \in QueuePayload /\ Orphan(m).job \in Jobs
         /\ processing[target[m]] # <<>> /\ Head(processing[target[m]]) = Orphan(m)
         /\ Leaves(target[m], Orphan(m).job)
         /\ \A w \in Workers : workerAt[w] \notin Requeuing
<1>1. /\ target[m] \in Workers /\ workerAt[target[m]] = "crashed"
      /\ \A w \in Workers : workerAt[w] \notin Requeuing
  BY RecoveryExcludesRetry DEF Known, Accounted
<1>2. Orphan(m) \in QueuePayload /\ Orphan(m).job \in Jobs
  BY MonitorHolds DEF Known, TypeOK
<1>3. processing[target[m]] # <<>> /\ Head(processing[target[m]]) = Orphan(m)
  BY MonitorTypeAt DEF Known, TypeOK, Safekept, Shape, CopyOf, Orphan
<1>4. ~DeletedNext(target[m])
  <2>1. Scanning(m) /\ monitorAt[m] # "delete_queue"
    BY MonitorPoints DEF Scanning, ScanSteps
  <2>2. \A n \in Monitors : monitorAt[n] = "delete_queue" => n = m
    BY <2>1, MonitorPoints DEF Known, Safekept, LockHeld, Scanning, ScanSteps
  <2> QED  BY <2>1, <2>2 DEF DeletedNext
<1> QED  BY <1>1, <1>2, <1>3, <1>4 DEF Leaves

\* A worker changes the row of the job it has, and of no job elsewhere.
LEMMA WorkerChangesOwn ==
  ASSUME TypeOK, NEW w \in Workers, Loop(w), NEW k \in Jobs, ~Works(w, k)
  PROVE  SameRows(k)
<1>1. CASE k # CurrentJob(w)
  BY <1>1, WorkerTouches DEF TypeOK
<1>2. CASE k = CurrentJob(w)
  <2>1. workerAt[w] \in Busy
    BY <1>2, StoreAssumption DEF TypeOK, WorkerTypeOK, CurrentJob, NoJob
  <2>2. RemoveOld(w)
    BY <1>2, <2>1
       DEF Works, Loop, Take, Pop, PopTimesOut, Claim, Check, GiveBack, Discard, RunJob,
           RemoveStaleContainer, StartContainer, ContainerExits, Conclude, Persist, Acknowledge,
           PublishCompletion, PutBack, Requeue, PushRetry, GiveUp, RemoveExhausted, DlqPersist,
           DlqPush, DlqPublish
  <2> QED  BY <2>2 DEF RemoveOld, RedisOnly, dbVars, rowVars, SameRows
<1> QED  BY <1>1, <1>2

\* Whose job is whose: no place knows the job that a worker works on but that
\* worker.
LEMMA WorksAlone ==
  ASSUME RetriesOrCrashes, Known, OnePlace, NEW w \in Workers, Alive(w)
  PROVE  /\ \A k \in Jobs : Fresh(k) \/ Waits(k) => ~Works(w, k)
         /\ \A v \in Workers, k \in Jobs : v # w /\ Keeps(v, k) => ~Works(w, k)
         /\ \A m \in Monitors : monitorAt[m] \in NeedsOrphan => ~Works(w, Orphan(m).job)
<1>1. \A m \in Monitors : monitorAt[m] \in NeedsOrphan => ~Works(w, Orphan(m).job)
  <2> SUFFICES ASSUME NEW m \in Monitors, monitorAt[m] \in NeedsOrphan, Works(w, Orphan(m).job)
               PROVE  FALSE
    OBVIOUS
  <2>1. /\ target[m] \in Workers /\ workerAt[target[m]] = "crashed"
        /\ Keeps(target[m], Orphan(m).job) /\ Orphan(m).job \in Jobs
    BY OrphanIsLeft DEF Keeps
  <2>2. target[m] = w
    BY <2>1 DEF Keeps, OnePlace, Exclusive
  <2> QED  BY <2>1, <2>2 DEF Alive, Inert
<1> QED  BY <1>1 DEF OnePlace, Exclusive, Keeps

LEMMA WorkersOnlyIsProcessesOnly == OnlyWorkersFail => OnlyProcessesFail
BY DEF OnlyWorkersFail, OnlyProcessesFail

\* The row of the job a worker has follows the worker.
LEMMA NextIterationRow ==
  ASSUME WorkerTypeOK, NEW w \in Workers, NextIteration(w)
  PROVE  WorkerRow(w)'
<1>1. workerAt'[w] \in {"pop", "stopped"}
  BY DEF NextIteration, Goto, WorkerTypeOK
<1> QED  BY <1>1, PlacePoints DEF WorkerRow

LEMMA WorkerRowFollows ==
  ASSUME OnlyWorkersFail, TypeOK, RowsFollow, NEW w \in Workers, Loop(w)
  PROVE  WorkerRow(w)'
<1> USE DEF Call, Disrupted, OnlyWorkersFail, dbVars, rowVars
<1> USE DEF DbOnly, RedisOnly, SandboxOnly, PublishOnly
<1>0. /\ workerAt \in [Workers -> {"pop"} \union Busy \union Inert]
      /\ current \in [Workers -> QueuePayload \union {NoJob}]
      /\ status \in [Jobs -> RowStates] /\ retryCount \in [Jobs -> 0..MaxRetry]
      /\ verdict[w] \in Verdicts /\ WorkerTypeOK
  BY DEF TypeOK, WorkerTypeOK, StoreTypeOK, StatusTable, RetryTable
<1>1. WorkerRow(w) /\ (workerAt[w] \in Busy => CurrentJob(w) \in Jobs)
  BY <1>0, BusyHolds DEF RowsFollow
<1>2. CASE Pop(w)
  <2>1. Last(pending) \in ToSet(pending) /\ Last(pending) \in QueuePayload
    BY <1>2, PushAndPop DEF Pop, TypeOK, StoreTypeOK
  <2>2. workerAt'[w] = "claim" /\ current'[w] = Last(pending) /\ UNCHANGED <<status, retryCount>>
    BY <1>0, <1>2 DEF Pop, Goto
  <2>3. Row(Last(pending).job, "PENDING", Last(pending).retry)
    BY <2>1 DEF RowsFollow, QueueAgreesWithRows, Row
  <2> QED  BY <2>2, <2>3, PlacePoints DEF WorkerRow, CurrentJob, Row
<1>3. CASE PopTimesOut(w) \/ PublishCompletion(w) \/ RemoveOld(w) \/ DlqPublish(w)
  <2>1. NextIteration(w)
    BY <1>3 DEF PopTimesOut, PublishCompletion, RemoveOld, DlqPublish
  <2> QED  BY <1>0, <2>1, NextIterationRow
<1>4. CASE Claim(w)
  <2>1. Row(CurrentJob(w), "PENDING", current[w].retry) /\ CurrentJob(w) \in Jobs
    BY <1>1, <1>4, BusyPoints DEF Claim, WorkerRow
  <2>2. /\ workerAt'[w] = "remove_stale" /\ current'[w] = current[w]
        /\ status' = [status EXCEPT ![CurrentJob(w)] = "RUNNING"] /\ UNCHANGED retryCount
    BY <1>0, <1>4, <2>1 DEF Claim, Proceed, Goto, Row
  <2> QED  BY <1>0, <2>1, <2>2, PlacePoints DEF WorkerRow, CurrentJob, Row
<1>5. CASE Check(w) \/ GiveBack(w) \/ Discard(w)
  BY <1>1, <1>5 DEF Check, GiveBack, Discard, WorkerRow
<1>6. CASE RunJob(w) \/ RemoveExhausted(w)
  <2>1. /\ workerAt[w] \in Running /\ current'[w] = current[w] /\ UNCHANGED <<status, retryCount>>
    BY <1>6, PlacePoints DEF RunJob, RemoveStaleContainer, StartContainer, ContainerExits,
                             RemoveExhausted, Proceed
  <2>2. workerAt'[w] \in {"start_container", "running", "persist", "requeue", "dlq_persist"}
    BY <1>0, <1>6 DEF RunJob, RemoveStaleContainer, StartContainer, ContainerExits,
                      RemoveExhausted, Proceed, Goto
  <2>3. workerAt'[w] \in Running /\ workerAt'[w] \notin Deciding
        /\ workerAt'[w] \notin {"claim", "push_retry", "check", "give_back", "discard"}
    BY <2>2, PlacePoints
  <2> QED  BY <1>1, <2>1, <2>3 DEF WorkerRow, CurrentJob, Row
<1>7. CASE Persist(w) \/ DlqPersist(w)
  <2>1. /\ workerAt'[w] \in {"acknowledge", "dlq_push"} /\ current'[w] = current[w]
        /\ CurrentJob(w) \in Jobs
        /\ \E s : IsTerminalStatus(s) /\ status' = [status EXCEPT ![CurrentJob(w)] = s]
    BY <1>0, <1>1, <1>7, FinalIsTerminal, BusyPoints
       DEF Persist, DlqPersist, DeadLetterInDb, SetStatus, Proceed, Goto, IsTerminalStatus,
           TerminalStatuses
  <2>2. workerAt'[w] \in Deciding /\ workerAt'[w] \notin Running
        /\ workerAt'[w] \notin {"claim", "push_retry", "check", "give_back", "discard"}
    BY <2>1, PlacePoints
  <2> QED  BY <1>0, <2>1, <2>2 DEF WorkerRow, CurrentJob, Decided
<1>8. CASE Acknowledge(w) \/ DlqPush(w)
  <2>1. /\ workerAt[w] \in Deciding /\ workerAt'[w] \in {"publish", "dlq_publish"}
        /\ current'[w] = current[w] /\ UNCHANGED status
    BY <1>0, <1>8, PlacePoints DEF Acknowledge, DlqPush, Proceed, Goto
  <2>2. workerAt'[w] \in Deciding /\ workerAt'[w] \notin Running
        /\ workerAt'[w] \notin {"claim", "push_retry", "check", "give_back", "discard"}
    BY <2>1, PlacePoints
  <2> QED  BY <1>1, <2>1, <2>2 DEF WorkerRow, CurrentJob, Decided
<1>9. CASE Requeue(w)
  <2>1. /\ workerAt'[w] = "push_retry" /\ current'[w] = current[w] /\ CurrentJob(w) \in Jobs
        /\ status' = [status EXCEPT ![CurrentJob(w)] = "PENDING"]
        /\ retryCount' = [retryCount EXCEPT ![CurrentJob(w)] = current[w].retry + 1]
    BY <1>0, <1>1, <1>9, BusyPoints DEF Requeue, MarkForRetry, SetStatus, Proceed, Goto
  <2> QED  BY <1>0, <2>1, PlacePoints DEF WorkerRow, CurrentJob, Row
<1>10. CASE PushRetry(w)
  <2>1. workerAt'[w] = "remove_old"
    BY <1>0, <1>10 DEF PushRetry, Proceed, Goto
  <2> QED  BY <2>1, PlacePoints DEF WorkerRow
<1> QED  BY <1>2, <1>3, <1>4, <1>5, <1>6, <1>7, <1>8, <1>9, <1>10
         DEF Loop, Take, Conclude, PutBack, GiveUp

LEMMA WorkerClaims ==
  ASSUME OnlyWorkersFail, Known, OnePlace, NEW w \in Workers
  PROVE  /\ "redis_error" \notin Disruptions /\ TypeOK /\ Exclusive /\ QueueAgreesWithRows
         /\ Claims(w) /\ PushesAgreed(w)
BY DEF OnlyWorkersFail, Known, OnePlace, RowsFollow, WorkerRow, Claims, PushesAgreed

\* What waits can be claimed, also after a step of a worker.
LEMMA WorkerQueueFollows ==
  ASSUME "redis_error" \notin Disruptions, TypeOK, Exclusive, QueueAgreesWithRows,
         NEW w \in Workers, Loop(w), Claims(w), PushesAgreed(w)
  PROVE  QueueAgreesWithRows'
<1> USE DEF Call, Disrupted, redisVars, queueVars
<1> USE DEF DbOnly, RedisOnly, SandboxOnly, PublishOnly, KeepsQueues
<1>0. WorkerTypeOK /\ StoreTypeOK /\ pending \in Queue
  BY DEF TypeOK, StoreTypeOK
<1>1. ASSUME NEW e \in ToSet(pending)
      PROVE  status'[e.job] = "PENDING" /\ retryCount'[e.job] = e.retry
  <2>1. e.job \in Jobs /\ Waits(e.job)
    BY <1>0, PushAndPop DEF Waits, QueuePayload
  <2>2. SameRows(e.job)
    BY <2>1, WorkerChangesOwn DEF Exclusive, Keeps
  <2> QED  BY <2>2 DEF SameRows, QueueAgreesWithRows
<1>2. CASE PushRetry(w)
  <2> DEFINE e == Entry(CurrentJob(w), current[w].retry + 1)
  <2>1. current[w] \in QueuePayload /\ ~Exhausted(current[w])
    BY <1>0, <1>2, BusyHolds, BusyPoints DEF PushRetry, WorkerTypeOK
  <2>2. e \in QueuePayload /\ e.job = CurrentJob(w) /\ e.retry = current[w].retry + 1
    BY <2>1, RetryStaysPayload DEF Entry, CurrentJob
  <2>3. ToSet(pending') = ToSet(pending) \union {e} /\ UNCHANGED <<status, retryCount>>
    BY <1>0, <1>2, <2>2, PushAndPop DEF PushRetry, EnqueuePending, dbVars, rowVars
  <2>4. Row(CurrentJob(w), "PENDING", current[w].retry + 1)
    BY <1>2 DEF PushRetry, PushesAgreed
  <2> HIDE DEF e
  <2> QED  BY <1>1, <2>2, <2>3, <2>4 DEF QueueAgreesWithRows, Row
<1>3. CASE Pop(w)
  <2>1. ToSet(pending') \subseteq ToSet(pending)
    BY <1>0, <1>3, PushAndPop DEF Pop, MoveOldest
  <2> QED  BY <1>1, <2>1 DEF QueueAgreesWithRows
<1>4. CASE ~PushRetry(w) /\ ~Pop(w)
  <2>1. UNCHANGED pending
    BY <1>4
       DEF Claims, Loop, Take, PopTimesOut, Claim, Check, GiveBack, Discard, RunJob,
           RemoveStaleContainer, StartContainer, ContainerExits, Conclude, Persist, Acknowledge,
           PublishCompletion, PutBack, Requeue, RemoveOld, GiveUp, RemoveExhausted, DlqPersist,
           DlqPush, DlqPublish
  <2> QED  BY <1>1, <2>1 DEF QueueAgreesWithRows
<1> QED  BY <1>2, <1>3, <1>4

(***************************************************************************)
(* A step of a worker's loop keeps jobs apart.                             *)
(***************************************************************************)
LEMMA OthersKeep ==
  ASSUME TypeOK, NEW w \in Workers, StartWorker(w) \/ Live(w) \/ Loop(w), UNCHANGED monitorVars
  PROVE  \A v \in Workers : v # w =>
           /\ workerAt'[v] = workerAt[v] /\ current'[v] = current[v]
           /\ processing'[v] = processing[v]
           /\ (DeletedNext(v)' <=> DeletedNext(v))
           /\ \A j : Keeps(v, j)' <=> Keeps(v, j)
<1>1. \A v \in Workers : v # w => workerAt'[v] = workerAt[v] /\ current'[v] = current[v]
  BY OneWorkerMoves DEF TypeOK
<1>2. \A v \in Workers : v # w => processing'[v] = processing[v]
  BY LoopLives, LiveTouchesNothing DEF TypeOK, queueVars
<1>3. \A v : DeletedNext(v)' <=> DeletedNext(v)
  BY DEF DeletedNext, monitorVars, scanVars
<1> QED  BY <1>1, <1>2, <1>3 DEF Keeps, Works, Leaves, CurrentJob

LEMMA LoopPlace ==
  ASSUME TypeOK, NEW w \in Workers, Loop(w)
  PROVE  /\ workerAt'[w] # "crashed"
         /\ ~Pop(w) => \A j : Works(w, j)' => Works(w, j)
<1>0. WorkerTypeOK /\ StoreTypeOK
  BY DEF TypeOK
<1>1. workerAt'[w] # "crashed"
  BY <1>0
     DEF WorkerTypeOK, Loop, Take, Pop, PopTimesOut, Claim, Check, GiveBack, Discard, RunJob,
         RemoveStaleContainer, StartContainer, ContainerExits, Conclude, Persist, Acknowledge,
         PublishCompletion, PutBack, Requeue, PushRetry, RemoveOld, GiveUp, RemoveExhausted,
         DlqPersist, DlqPush, DlqPublish, Proceed, NextIteration, Goto, Call
<1>2. ASSUME ~Pop(w), workerAt'[w] \in Busy
      PROVE  workerAt[w] \in Busy \ {"remove_old"} /\ current'[w] = current[w]
  <2>1. ~PopTimesOut(w) /\ ~RemoveOld(w)
    <3>1. PopTimesOut(w) \/ RemoveOld(w) => workerAt'[w] \in {"pop", "stopped"}
      BY <1>0 DEF WorkerTypeOK, PopTimesOut, RemoveOld, NextIteration, Goto, Call
    <3> QED  BY <1>2, <3>1, BusyPoints DEF Inert
  <2>2. workerAt[w] \in Busy \ {"remove_old"}
    BY <1>2, <2>1, BusyPoints
       DEF Loop, Take, Claim, Check, GiveBack, Discard, RunJob, RemoveStaleContainer, StartContainer,
           ContainerExits, Conclude, Persist, Acknowledge, PublishCompletion, PutBack, Requeue,
           PushRetry, GiveUp, RemoveExhausted, DlqPersist, DlqPush, DlqPublish
  <2>3. current'[w] = current[w]
    BY <1>0, <1>2, <2>1, BusyPoints
       DEF WorkerTypeOK, Loop, Take, Claim, Check, GiveBack, Discard, RunJob, RemoveStaleContainer,
           StartContainer, ContainerExits, Conclude, Persist, Acknowledge, PublishCompletion, PutBack,
           Requeue, PushRetry, GiveUp, RemoveExhausted, DlqPersist, DlqPush, DlqPublish, Proceed,
           Goto, NextIteration, Inert, Call
  <2> QED  BY <2>2, <2>3
<1> QED  BY <1>1, <1>2 DEF Works, CurrentJob

LEMMA WorkerLoopApart ==
  ASSUME "redis_error" \notin Disruptions, TypeOK, Exclusive, NEW w \in Workers, Loop(w), Claims(w),
         UNCHANGED <<post, monitorVars>>
  PROVE  Exclusive'
<1> USE DEF Call, Disrupted, redisVars, queueVars
<1> USE DEF DbOnly, RedisOnly, SandboxOnly, PublishOnly, KeepsQueues
<1>0. TypeOK /\ WorkerTypeOK /\ StoreTypeOK /\ Exclusive
  BY DEF TypeOK
<1>1. \A v \in Workers, j \in Jobs : v # w /\ Keeps(v, j)' => Keeps(v, j)
  BY <1>0, OthersKeep
<1>2. \A j \in Jobs : Fresh(j)' <=> Fresh(j)
  BY DEF Fresh
<1>3. \A j : Keeps(w, j)' => Works(w, j)'
  BY <1>0, LoopPlace DEF Keeps, Leaves
<1>4. CASE ~Pop(w)
  <2>1. NoNewPlace
    BY <1>0, <1>1, <1>2, <1>3, <1>4, LoopPlace DEF NoNewPlace, Keeps
  <2>2. CASE PushRetry(w)
    <3>1. current[w] \in QueuePayload /\ ~Exhausted(current[w]) /\ workerAt[w] \in Busy
      BY <1>0, <2>2, BusyHolds, BusyPoints DEF PushRetry, WorkerTypeOK
    <3>2. PICK e \in QueuePayload : e = Entry(CurrentJob(w), current[w].retry + 1)
      BY <3>1, RetryStaysPayload DEF CurrentJob
    <3>3. e.job \in Jobs /\ e.job = CurrentJob(w)
      BY <3>2 DEF Entry, QueuePayload
    <3>4. EnqueuePending(e) /\ workerAt'[w] = "remove_old"
      BY <1>0, <2>2, <3>2 DEF PushRetry, Proceed, Goto, WorkerTypeOK
    <3>5. Keeps(w, e.job)
      BY <2>2, <3>1, <3>3 DEF Keeps, Works, PushRetry
    <3>6. \A j : ~Keeps(w, j)'
      BY <1>3, <3>4 DEF Works
    <3>7. ~Fresh(e.job) /\ \A v \in Workers : Keeps(v, e.job) => v = w
      BY <1>0, <3>3, <3>5 DEF Exclusive
    <3>8. ~Fresh(e.job)' /\ \A v \in Workers : ~Keeps(v, e.job)'
      BY <1>1, <1>2, <3>3, <3>6, <3>7
    <3> QED  BY <1>0, <2>1, <3>4, <3>5, <3>8, PushedApart
  <2>3. CASE ~PushRetry(w)
    <3>1. UNCHANGED pending
      BY <1>4, <2>3
         DEF Claims, Loop, Take, PopTimesOut, Claim, Check, GiveBack, Discard, RunJob,
             RemoveStaleContainer, StartContainer, ContainerExits, Conclude, Persist, Acknowledge,
             PublishCompletion, PutBack, Requeue, RemoveOld, GiveUp, RemoveExhausted, DlqPersist,
             DlqPush, DlqPublish
    <3> QED  BY <1>0, <2>1, <3>1, StaysApart
  <2> QED  BY <2>2, <2>3
<1>5. CASE Pop(w)
  <2>1. pending # <<>> /\ pending' = Front(pending) /\ current'[w] = Last(pending)
    BY <1>0, <1>5 DEF Pop, MoveOldest, WorkerTypeOK
  <2>2. \A v \in Workers, j \in Jobs :
          Keeps(v, j)' => Keeps(v, j) \/ (v = w /\ j = Last(pending).job)
    BY <1>1, <1>3, <2>1 DEF Works, CurrentJob
  <2> QED  BY <1>0, <2>1, <2>2, PoppedApart
<1> QED  BY <1>4, <1>5

(***************************************************************************)
(* A place that a step leaves alone agrees with its rows as before.        *)
(***************************************************************************)
LEMMA WorkerRowStays ==
  ASSUME TypeOK, NEW v \in Workers, WorkerRow(v),
         workerAt'[v] = workerAt[v], current'[v] = current[v],
         \A j \in Jobs : Works(v, j) => SameRows(j)
  PROVE  WorkerRow(v)'
<1>1. CASE workerAt[v] \in {"claim", "push_retry"} \union Running \union Deciding
  <2>1. workerAt[v] \in Busy \ {"remove_old"}
    BY <1>1, PlacePoints
  <2>2. CurrentJob(v) \in Jobs /\ SameRows(CurrentJob(v))
    BY <2>1, BusyHolds DEF TypeOK, Works
  <2> QED  BY <2>2 DEF WorkerRow, Row, Decided, CurrentJob, SameRows
<1>2. CASE workerAt[v] \notin {"claim", "push_retry"} \union Running \union Deciding
  BY <1>2 DEF WorkerRow
<1> QED  BY <1>1, <1>2

LEMMA LeftRowStays ==
  ASSUME TypeOK, NEW v \in Workers, LeftRow(v),
         workerAt'[v] = workerAt[v], processing'[v] = processing[v],
         DeletedNext(v) => DeletedNext(v)', Requeued(v) => Requeued(v)',
         \A j \in Jobs : Leaves(v, j) => SameRows(j)
  PROVE  LeftRow(v)'
<1> SUFFICES ASSUME workerAt[v] = "crashed", ~DeletedNext(v), processing[v] # <<>>
             PROVE  LeftRow(v)'
  BY DEF LeftRow
<1>1. Head(processing[v]) \in QueuePayload
  BY HeadTailType DEF TypeOK, StoreTypeOK, Queues, Queue
<1>2. Head(processing[v]).job \in Jobs /\ SameRows(Head(processing[v]).job)
  BY <1>1 DEF Leaves, QueuePayload
<1> QED  BY <1>2 DEF LeftRow, Attempted, Decided, SameRows

LEMMA MonitorRowStays ==
  ASSUME TypeOK, NEW m \in Monitors, MonitorRow(m),
         monitorAt'[m] = monitorAt[m], orphans'[m] = orphans[m],
         monitorAt[m] \in NeedsOrphan => SameRows(Orphan(m).job)
  PROVE  MonitorRow(m)'
<1>1. monitorAt[m] \in {"mark_pending", "dlq_persist", "push_recovered"} => SameRows(Orphan(m).job)
  BY MonitorPoints
<1> QED  BY <1>1 DEF MonitorRow, Row, Decided, Orphan, SameRows

LEMMA QueueRowsStay ==
  ASSUME TypeOK, QueueAgreesWithRows, ToSet(pending') \subseteq ToSet(pending),
         \A j \in Jobs : Waits(j) => SameRows(j)
  PROVE  QueueAgreesWithRows'
<1> SUFFICES ASSUME NEW e \in ToSet(pending')
             PROVE  status'[e.job] = "PENDING" /\ retryCount'[e.job] = e.retry
  BY DEF QueueAgreesWithRows
<1>1. e \in ToSet(pending) /\ e.job \in Jobs /\ Waits(e.job)
  BY PushAndPop DEF TypeOK, StoreTypeOK, Waits, QueuePayload
<1> QED  BY <1>1 DEF QueueAgreesWithRows, SameRows

LEMMA WorkerLoopRows ==
  ASSUME OnlyWorkersFail, RetriesOrCrashes, Known, OnePlace, NEW w \in Workers, Loop(w),
         UNCHANGED <<post, monitorVars>>
  PROVE  RowsFollow'
<1>0. /\ TypeOK /\ RowsFollow /\ Alive(w) /\ UNCHANGED <<monitorAt, target, orphans>>
  BY LoopLives DEF Known, TypeOK, OnePlace, monitorVars, scanVars
<1>1. \A k \in Jobs : ~Works(w, k) => SameRows(k)
  BY <1>0, WorkerChangesOwn
<1>2. FreshRows'
  <2>1. \A j \in Jobs : Fresh(j) => SameRows(j)
    BY <1>0, <1>1, WorksAlone
  <2> QED  BY <1>0, <2>1 DEF RowsFollow, FreshRows, Fresh, At, Row, SameRows
<1>3. ASSUME NEW v \in Workers  PROVE WorkerRow(v)'
  <2>1. CASE v = w
    BY <1>0, <2>1, WorkerRowFollows
  <2>2. CASE v # w
    <3>1. \A j \in Jobs : Works(v, j) => SameRows(j)
      BY <1>0, <1>1, <2>2, WorksAlone DEF Keeps
    <3> QED  BY <1>0, <2>2, <3>1, OthersKeep, WorkerRowStays DEF RowsFollow
  <2> QED  BY <2>1, <2>2
<1>4. ASSUME NEW v \in Workers  PROVE LeftRow(v)'
  <2>1. CASE v = w
    BY <1>0, <2>1, LoopPlace DEF LeftRow
  <2>2. CASE v # w
    <3>1. \A j \in Jobs : Leaves(v, j) => SameRows(j)
      BY <1>0, <1>1, <2>2, WorksAlone DEF Keeps
    <3>2. Requeued(v) => Requeued(v)'
      BY <1>0 DEF Requeued
    <3>3. /\ workerAt'[v] = workerAt[v] /\ processing'[v] = processing[v]
          /\ (DeletedNext(v) => DeletedNext(v)')
      BY <1>0, <2>2, OthersKeep
    <3>4. LeftRow(v)
      BY <1>0 DEF RowsFollow
    <3> QED  BY <1>0, <3>1, <3>2, <3>3, <3>4, LeftRowStays
  <2> QED  BY <2>1, <2>2
<1>5. ASSUME NEW m \in Monitors  PROVE MonitorRow(m)'
  <2>1. monitorAt[m] \in NeedsOrphan => SameRows(Orphan(m).job)
    BY <1>0, <1>1, WorksAlone, MonitorHolds DEF TypeOK
  <2> QED  BY <1>0, <2>1, MonitorRowStays DEF RowsFollow
<1>6. QueueAgreesWithRows'
  BY WorkerQueueFollows, WorkerClaims
<1> QED  BY <1>2, <1>3, <1>4, <1>5, <1>6 DEF RowsFollow

(***************************************************************************)
(* A worker that dies leaves behind the entry it was working on, and no    *)
(* row says that it died.                                                  *)
(***************************************************************************)
LEMMA CrashLeaves ==
  ASSUME RetriesOrCrashes, Known, RowsFollow, NEW w \in Workers, WorkerCrash(w),
         processing[w] # <<>>
  PROVE  /\ Works(w, Head(processing[w]).job)
         /\ Decided(Head(processing[w]).job) \/ Attempted(Head(processing[w]))
<1>0. /\ TypeOK /\ WorkerTypeOK /\ HandsOf(w) /\ Alive(w) /\ WorkerRow(w)
  BY DEF Known, TypeOK, Safekept, Shape, WorkerCrash, RowsFollow
<1>1. workerAt[w] \notin Requeuing
  BY <1>0 DEF WorkerCrash, Disrupted, RetriesOrCrashes, HandsOf
<1>2. workerAt[w] \in FullHanded
  BY <1>0, HandPoints DEF HandsOf, WorkerTypeOK, Alive
<1>3. current[w] \in QueuePayload /\ processing[w] = <<current[w]>>
  BY <1>0, <1>2, HandPoints, BusyHolds DEF HandsOf
<1>4. Head(processing[w]) = current[w]
  BY <1>3, Singletons
<1>5. workerAt[w] \in {"claim", "acknowledge"} \union Running
  BY <1>0, <1>1, <1>2 DEF WorkerRow, FullHanded, Requeuing, Running, Sandboxed
<1>6. workerAt[w] \in Busy \ {"remove_old"}
  BY <1>5, PlacePoints
<1>7. "acknowledge" \in Deciding
  BY PlacePoints
<1>8. Decided(CurrentJob(w)) \/ Attempted(current[w])
  BY <1>0, <1>5, <1>7 DEF WorkerRow, Row, Attempted, CurrentJob
<1> QED  BY <1>4, <1>6, <1>8 DEF Works, CurrentJob

LEMMA WorkerLifeKeepsPlace ==
  ASSUME RetriesOrCrashes, Known, OnePlace, NEW w \in Workers, StartWorker(w) \/ Live(w),
         UNCHANGED <<post, monitorVars>>
  PROVE  Exclusive' /\ RowsFollow'
<1>0. /\ TypeOK /\ WorkerTypeOK /\ RowsFollow /\ Exclusive /\ HandsOf(w)
      /\ UNCHANGED <<monitorAt, target, orphans>>
      /\ UNCHANGED <<pending, processing, status, retryCount, results>>
  BY LiveTouchesNothing
     DEF Known, TypeOK, OnePlace, monitorVars, scanVars, dbVars, rowVars, queueVars, Safekept, Shape
<1>1. \A k \in Jobs : SameRows(k)
  BY <1>0 DEF SameRows
<1>2. \/ UNCHANGED <<workerAt, current>>
      \/ workerAt'[w] = "pop"
      \/ WorkerCrash(w) /\ workerAt'[w] = "crashed"
  BY <1>0 DEF WorkerTypeOK, StartWorker, Live, SendHeartbeat, HeartbeatExpires, Sigterm, WorkerCrash,
              Proceed, Goto, workerVars
<1>3. \A v \in Workers : (DeletedNext(v)' <=> DeletedNext(v)) /\ (Requeued(v)' <=> Requeued(v))
  BY <1>0 DEF DeletedNext, Requeued
<1>4. ASSUME NEW j \in Jobs, Keeps(w, j)'
      PROVE  Keeps(w, j)
  <2>1. CASE UNCHANGED <<workerAt, current>>
    BY <1>0, <1>3, <1>4, <2>1 DEF Keeps, Works, Leaves, CurrentJob
  <2>2. CASE workerAt'[w] = "pop"
    BY <1>4, <2>2, BusyPoints DEF Keeps, Works, Leaves
  <2>3. CASE WorkerCrash(w) /\ workerAt'[w] = "crashed"
    <3>1. processing[w] # <<>> /\ Head(processing[w]).job = j
      BY <1>0, <1>4, <2>3, PlacePoints DEF Keeps, Works, Leaves
    <3> QED  BY <1>0, <2>3, <3>1, CrashLeaves DEF Keeps
  <2> QED  BY <1>2, <2>1, <2>2, <2>3
<1>5. Exclusive'
  <2>1. \A v \in Workers, j \in Jobs : Keeps(v, j)' => Keeps(v, j)
    BY <1>0, <1>4, OthersKeep
  <2> QED  BY <1>0, <2>1, StaysApart DEF NoNewPlace, Fresh
<1>6. ASSUME NEW v \in Workers  PROVE WorkerRow(v)' /\ LeftRow(v)'
  <2>1. CASE v # w \/ UNCHANGED <<workerAt, current>>
    <3>1. workerAt'[v] = workerAt[v] /\ current'[v] = current[v] /\ processing'[v] = processing[v]
      BY <1>0, <2>1, OthersKeep
    <3>2. WorkerRow(v) /\ LeftRow(v)
      BY <1>0 DEF RowsFollow
    <3> QED  BY <1>0, <1>1, <1>3, <3>1, <3>2, WorkerRowStays, LeftRowStays
  <2>2. CASE v = w /\ workerAt'[w] = "pop"
    BY <2>2, PlacePoints DEF WorkerRow, LeftRow
  <2>3. CASE v = w /\ WorkerCrash(w) /\ workerAt'[w] = "crashed"
    <3>1. WorkerRow(w)'
      BY <2>3, PlacePoints DEF WorkerRow
    <3>2. LeftRow(w)'
      BY <1>0, <2>3, CrashLeaves DEF LeftRow, Decided, Attempted
    <3> QED  BY <2>3, <3>1, <3>2
  <2> QED  BY <1>2, <2>1, <2>2, <2>3
<1>7. ASSUME NEW m \in Monitors  PROVE MonitorRow(m)'
  <2>1. monitorAt[m] \in NeedsOrphan => SameRows(Orphan(m).job)
    BY <1>0, <1>1, MonitorHolds DEF TypeOK
  <2> QED  BY <1>0, <2>1, MonitorRowStays DEF RowsFollow
<1>8. QueueAgreesWithRows' /\ FreshRows'
  BY <1>0 DEF RowsFollow, QueueAgreesWithRows, FreshRows, At, Row
<1> QED  BY <1>5, <1>6, <1>7, <1>8 DEF RowsFollow

LEMMA WorkersKeepPlace ==
  ASSUME OnlyWorkersFail, RetriesOrCrashes, Known, OnePlace, WorkerNext,
         UNCHANGED <<post, monitorVars>>
  PROVE  OnePlace'
<1>1. NoRestart'
  BY DEF OnePlace, NoRestart, monitorVars
<1>2. ASSUME NEW k \in Jobs, OrphanExits(k)
      PROVE  Exclusive' /\ RowsFollow'
  <2>1. /\ UNCHANGED <<pending, processing, status, retryCount, workerAt, current>>
        /\ UNCHANGED <<monitorAt, target, orphans>>
    BY <1>2 DEF OrphanExits, SandboxOnly, dbVars, rowVars, redisVars, queueVars, monitorVars, scanVars
  <2>2. Exclusive'
    BY <2>1 DEF OnePlace, Exclusive, NoTwins, Waits, Fresh, Keeps, Works, Leaves, DeletedNext,
                CurrentJob
  <2>3. RowsFollow'
    BY <2>1 DEF OnePlace, RowsFollow, FreshRows, QueueAgreesWithRows, WorkerRow, LeftRow, MonitorRow,
                DeletedNext, CurrentJob, Requeued, Orphan, At, Row, Decided, Attempted
  <2> QED  BY <2>2, <2>3
<1> QED  BY <1>1, <1>2, WorkerLoopApart, WorkerClaims, WorkerLoopRows,
            WorkerLifeKeepsPlace DEF WorkerNext, OnePlace

(***************************************************************************)
(* A step of the gateway touches only a job that it has not pushed yet.    *)
(***************************************************************************)
LEMMA PushedAgrees ==
  ASSUME TypeOK, QueueAgreesWithRows, UNCHANGED <<status, retryCount>>, NEW e \in QueuePayload,
         EnqueuePending(e), Row(e.job, "PENDING", e.retry)
  PROVE  QueueAgreesWithRows'
<1>1. ToSet(pending') = ToSet(pending) \union {e}
  BY PushAndPop DEF TypeOK, StoreTypeOK, EnqueuePending
<1> QED  BY <1>1 DEF QueueAgreesWithRows, Row

LEMMA GatewayKeepsPlace ==
  ASSUME OnlyWorkersFail, RetriesOrCrashes, Known, OnePlace, GatewayNext,
         UNCHANGED <<workerVars, monitorVars>>
  PROVE  OnePlace'
<1> USE DEF Call, Disrupted, OnlyWorkersFail, dbVars, rowVars, redisVars, queueVars
<1>0. /\ TypeOK /\ Exclusive /\ RowsFollow /\ NoCompensation
      /\ UNCHANGED <<workerAt, current, processing, monitorAt, target, orphans>>
      /\ post \in [Jobs -> PostStates] /\ status \in [Jobs -> RowStates]
  BY DEF Known, OnePlace, monitorVars, scanVars, workerVars, TypeOK, GatewayTypeOK, StoreTypeOK,
         StatusTable, GatewayNext, Request, GatewayCrash, Submit, Enqueue, ReadDepth, MarkFailed,
         RecordFailure
<1>1. NoRestart'
  BY <1>0 DEF OnePlace, NoRestart
<1>2. \A v \in Workers, j \in Jobs : Keeps(v, j)' <=> Keeps(v, j)
  BY <1>0 DEF Keeps, Works, Leaves, DeletedNext, CurrentJob
<1>3. ASSUME \A k \in Jobs : ~Fresh(k) => SameRows(k)
      PROVE  /\ \A v \in Workers : WorkerRow(v)' /\ LeftRow(v)'
             /\ \A m \in Monitors : MonitorRow(m)'
             /\ \A k \in Jobs : Waits(k) => SameRows(k)
  <2>1. ASSUME NEW v \in Workers  PROVE WorkerRow(v)'
    <3>1. \A j \in Jobs : Works(v, j) => SameRows(j)
      BY <1>0, <1>3 DEF Exclusive, Keeps
    <3> QED  BY <1>0, <3>1, WorkerRowStays DEF RowsFollow
  <2>2. ASSUME NEW v \in Workers  PROVE LeftRow(v)'
    <3>1. \A j \in Jobs : Leaves(v, j) => SameRows(j)
      BY <1>0, <1>3 DEF Exclusive, Keeps
    <3>2. (DeletedNext(v) => DeletedNext(v)') /\ (Requeued(v) => Requeued(v)')
      BY <1>0 DEF DeletedNext, Requeued
    <3> QED  BY <1>0, <3>1, <3>2, LeftRowStays DEF RowsFollow
  <2>3. ASSUME NEW m \in Monitors  PROVE MonitorRow(m)'
    <3>1. monitorAt[m] \in NeedsOrphan => SameRows(Orphan(m).job)
      BY <1>0, <1>3, OrphanIsLeft DEF Exclusive, Keeps
    <3> QED  BY <1>0, <3>1, MonitorRowStays DEF RowsFollow
  <2> QED  BY <1>0, <1>3, <2>1, <2>2, <2>3 DEF Exclusive
<1>4. CASE GatewayCrash \/ \E j \in Jobs : ReadDepth(j)
  <2>1. /\ UNCHANGED <<status, retryCount, results, pending>>
        /\ \A j \in Jobs : post'[j] \in {"none", "enqueue"} => post'[j] = post[j]
    BY <1>0, <1>4 DEF GatewayCrash, ReadDepth, Advance, InFlight
  <2>2. \A j \in Jobs : Fresh(j)' => Fresh(j)
    BY <2>1 DEF Fresh
  <2>3. Exclusive'
    BY <1>0, <1>2, <2>1, <2>2, StaysApart DEF NoNewPlace
  <2>4. \A k \in Jobs : SameRows(k)
    BY <2>1 DEF SameRows
  <2>5. FreshRows' /\ QueueAgreesWithRows'
    BY <1>0, <2>1 DEF RowsFollow, FreshRows, QueueAgreesWithRows, At, Row
  <2> QED  BY <1>1, <1>3, <2>3, <2>4, <2>5 DEF OnePlace, RowsFollow
<1>5. ASSUME NEW j \in Jobs, Submit(j)
      PROVE  OnePlace'
  <2>1. /\ At(j, "none") /\ post' = [post EXCEPT ![j] = "enqueue"]
        /\ status' = [status EXCEPT ![j] = "PENDING"]
        /\ UNCHANGED <<retryCount, results, pending>>
    BY <1>5 DEF Submit, InsertRow, SetStatus, Advance
  <2>2. \A k \in Jobs : Fresh(k)' <=> Fresh(k)
    BY <1>0, <2>1 DEF Fresh, At
  <2>3. Exclusive'
    BY <1>0, <1>2, <2>1, <2>2, StaysApart DEF NoNewPlace
  <2>4. \A k \in Jobs : ~Fresh(k) => SameRows(k)
    BY <1>0, <2>1 DEF SameRows, Fresh, At
  <2>5. FreshRows'
    BY <1>0, <2>1 DEF RowsFollow, FreshRows, At, Row
  <2>6. QueueAgreesWithRows'
    BY <1>0, <1>3, <2>1, <2>4, QueueRowsStay DEF RowsFollow
  <2> QED  BY <1>1, <1>3, <2>3, <2>4, <2>5, <2>6 DEF OnePlace, RowsFollow
<1>6. ASSUME NEW j \in Jobs, Enqueue(j)
      PROVE  OnePlace'
  <2>1. /\ At(j, "enqueue") /\ post' = [post EXCEPT ![j] = "read_depth"]
        /\ EnqueuePending(Entry(j, 0)) /\ UNCHANGED <<status, retryCount, results>>
    BY <1>6 DEF Enqueue, Advance
  <2>2. PICK e \in QueuePayload : e = Entry(j, 0) /\ e.job = j /\ e.retry = 0
    <3>1. Entry(j, 0) \in QueuePayload
      BY MaxRetryAssumption DEF Entry, QueuePayload
    <3>2. Entry(j, 0).job = j /\ Entry(j, 0).retry = 0
      BY DEF Entry
    <3> QED  BY <3>1, <3>2
  <2>3. /\ \A k \in Jobs : Fresh(k)' => Fresh(k)
        /\ Fresh(e.job) /\ ~Fresh(e.job)'
    BY <1>0, <2>1, <2>2 DEF Fresh, At
  <2>4. \A v \in Workers : ~Keeps(v, e.job)'
    BY <1>0, <1>2, <2>2, <2>3 DEF Exclusive
  <2>5. Exclusive'
    BY <1>0, <1>2, <2>1, <2>2, <2>3, <2>4, PushedApart DEF NoNewPlace, TypeOK
  <2>6. FreshRows'
    BY <1>0, <2>1 DEF RowsFollow, FreshRows, At, Row
  <2>7. QueueAgreesWithRows'
    BY <1>0, <2>1, <2>2, PushedAgrees DEF RowsFollow, FreshRows
  <2>8. \A k \in Jobs : SameRows(k)
    BY <2>1 DEF SameRows
  <2> QED  BY <1>1, <1>3, <2>5, <2>6, <2>7, <2>8 DEF OnePlace, RowsFollow
<1>7. \A j \in Jobs : ~MarkFailed(j) /\ ~RecordFailure(j)
  BY <1>0 DEF NoCompensation, MarkFailed, RecordFailure, At
<1> QED  BY <1>4, <1>5, <1>6, <1>7 DEF GatewayNext, Request

(***************************************************************************)
(* A monitor that scans moves no job and touches no row.                   *)
(***************************************************************************)
LEMMA ScanKeepsPlace ==
  ASSUME OnlyWorkersFail, RetriesOrCrashes, Known, OnePlace, NEW m \in Monitors, Scan(m),
         UNCHANGED <<post, workerVars>>
  PROVE  OnePlace'
<1> USE DEF Call, Disrupted, OnlyWorkersFail, MonitorProceeds, MonitorGoto
<1>0. /\ TypeOK /\ Exclusive /\ RowsFollow /\ NoRestart
      /\ monitorAt \in [Monitors -> MonitorSteps]
      /\ UNCHANGED <<workerAt, current, processing, pending, status, retryCount, results>>
  BY ScanTouchesNothing, MonitorTypeAt
     DEF Known, OnePlace, TypeOK, workerVars, dbVars, rowVars, queueVars
<1>1. \A n \in Monitors : n # m => /\ monitorAt'[n] = monitorAt[n] /\ orphans'[n] = orphans[n]
                                   /\ target'[n] = target[n]
  BY <1>0, OneMonitorHolds DEF TypeOK
<1>2. /\ monitorAt[m] \notin {"delete_queue", "push_recovered"}
      /\ monitorAt'[m] \in {"asleep", "scan_queues", "scan_heartbeats", "pick_worker", "release",
                            "read_status", "delete_queue"}
  BY <1>0 DEF Scan, AcquireLock, ScanQueues, ScanHeartbeats, PickWorker, ReleaseLock
<1>3. NoRestart'
  <2>1. monitorAt'[m] \notin {"down"} \union StartupSteps
    BY <1>2 DEF StartupSteps
  <2> QED  BY <1>0, <1>1, <2>1 DEF NoRestart
<1>4. \A v \in Workers : (DeletedNext(v) => DeletedNext(v)') /\ (Requeued(v) => Requeued(v)')
  BY <1>1, <1>2 DEF DeletedNext, Requeued
<1>5. \A k \in Jobs : SameRows(k)
  BY <1>0 DEF SameRows
<1>6. Exclusive'
  <2>1. \A v \in Workers, j \in Jobs : Keeps(v, j)' => Keeps(v, j)
    BY <1>0, <1>4 DEF Keeps, Works, Leaves, CurrentJob
  <2> QED  BY <1>0, <2>1, StaysApart DEF NoNewPlace, Fresh
<1>7. ASSUME NEW v \in Workers  PROVE WorkerRow(v)' /\ LeftRow(v)'
  BY <1>0, <1>4, <1>5, WorkerRowStays, LeftRowStays DEF RowsFollow
<1>8. ASSUME NEW n \in Monitors  PROVE MonitorRow(n)'
  <2>1. CASE n = m
    BY <1>2, <2>1 DEF MonitorRow
  <2>2. CASE n # m
    <3>1. monitorAt[n] \in NeedsOrphan => SameRows(Orphan(n).job)
      BY <1>0, <1>5, MonitorHolds DEF TypeOK
    <3> QED  BY <1>0, <1>1, <2>2, <3>1, MonitorRowStays DEF RowsFollow
  <2> QED  BY <2>1, <2>2
<1>9. FreshRows' /\ QueueAgreesWithRows'
  BY <1>0 DEF RowsFollow, FreshRows, QueueAgreesWithRows, At, Row
<1> QED  BY <1>3, <1>6, <1>7, <1>8, <1>9 DEF OnePlace, RowsFollow

(***************************************************************************)
(* A monitor that recovers moves the job its target left, and touches the  *)
(* row of that job only.                                                   *)
(***************************************************************************)
LEMMA RecoverFrame ==
  ASSUME OnlyWorkersFail, RetriesOrCrashes, Known, OnePlace, NEW m \in Monitors, Recover(m),
         UNCHANGED <<post, workerVars>>
  PROVE  /\ NoRestart' /\ target[m] \in Workers /\ target'[m] = target[m]
         /\ \A n \in Monitors : n # m => monitorAt[n] \notin ScanSteps /\ monitorAt'[n] = monitorAt[n]
         /\ \A v \in Workers : v # target[m] =>
              processing'[v] = processing[v] /\ ~DeletedNext(v)' /\ ~Requeued(v)
         /\ \A v \in Workers, k \in Jobs : Works(v, k) => v # target[m]
         /\ \A v \in Workers, k \in Jobs : Keeps(v, k) /\ v # target[m] => SameRows(k)
         /\ \A k \in Jobs : Fresh(k) \/ Waits(k) => SameRows(k)
         /\ NoNewPlace
<1> USE DEF Call, Disrupted, OnlyWorkersFail, MonitorProceeds, MonitorGoto, NextOrphan
<1>0. /\ TypeOK /\ Exclusive /\ NoRestart
      /\ monitorAt \in [Monitors -> MonitorSteps] /\ UNCHANGED <<workerAt, current>>
  BY MonitorTypeAt DEF Known, OnePlace, TypeOK, workerVars
<1>1. /\ Recovering(m) /\ Scanning(m) /\ target[m] \in Workers /\ Gone(target[m])
  <2>1. Recovering(m) /\ Scanning(m)
    BY DEF Recover, ReadStatus, MarkPending, PushRecovered, MonitorDlqPersist, MonitorDlqPush,
           DeleteQueue, Scanning, ScanSteps, Recovering, RecoverSteps
  <2> QED  BY <1>0, <2>1, MonitorTypeAt DEF TypeOK, Known, Safekept, SuspectsGone, Recovering
<1>2. \A n \in Monitors : n # m => /\ monitorAt[n] \notin ScanSteps
                                   /\ monitorAt'[n] = monitorAt[n] /\ target'[n] = target[n]
  BY <1>0, <1>1, OneMonitorHolds DEF TypeOK, Known, Safekept, LockHeld, Scanning
<1>3. target'[m] = target[m]
  BY DEF Recover, ReadStatus, MarkPending, PushRecovered, MonitorDlqPersist, MonitorDlqPush,
         DeleteQueue, scanVars
<1>4. NoRestart'
  <2>1. monitorAt'[m] \in {"release", "pick_worker", "delete_queue", "read_status", "mark_pending",
                           "push_recovered", "dlq_persist", "dlq_push"}
    BY <1>0 DEF Recover, ReadStatus, MarkPending, PushRecovered, MonitorDlqPersist, MonitorDlqPush,
                DeleteQueue, ScanFails
  <2>2. monitorAt'[m] \notin {"down"} \union StartupSteps
    BY <2>1 DEF StartupSteps
  <2> QED  BY <1>0, <1>2, <2>2 DEF NoRestart
<1>5. \A w \in Workers : \/ processing'[w] = processing[w]
                         \/ w = target[m] /\ processing'[w] = <<>>
  BY <1>0, RecoverCopies, WorkersOnlyIsProcessesOnly DEF Known, Safekept
<1>6. \A v \in Workers : v # target[m] => ~DeletedNext(v) /\ ~DeletedNext(v)' /\ ~Requeued(v)
  <2>1. \A n \in Monitors : n # m => monitorAt[n] \notin {"delete_queue", "push_recovered"}
    BY <1>2 DEF ScanSteps, RecoverSteps
  <2> QED  BY <1>2, <1>3, <2>1 DEF DeletedNext, Requeued
<1>7. \A v \in Workers, k \in Jobs : Works(v, k) => v # target[m]
  BY <1>1, PlacePoints, BusyPoints DEF Works, Gone, Inert
<1>8. /\ \A v \in Workers, k \in Jobs : Keeps(v, k) /\ v # target[m] => SameRows(k)
      /\ \A k \in Jobs : Fresh(k) \/ Waits(k) => SameRows(k)
  <2>1. CASE monitorAt[m] \in NeedsOrphan
    <3>1. PICK j \in Jobs : j = Orphan(m).job /\ Keeps(target[m], j)
      BY <2>1, OrphanIsLeft DEF Keeps
    <3>2. \A k \in Jobs : k # j => SameRows(k)
      BY <1>0, <3>1, MonitorTouches DEF TypeOK
    <3> QED  BY <1>0, <1>1, <3>1, <3>2 DEF Exclusive
  <2>2. CASE monitorAt[m] \notin NeedsOrphan
    BY <1>0, <2>2, MonitorTouches DEF TypeOK
  <2> QED  BY <2>1, <2>2
<1>9. NoNewPlace
  <2>1. ASSUME NEW v \in Workers, NEW j \in Jobs, Keeps(v, j)'
        PROVE  Keeps(v, j)
    <3>1. CASE v # target[m]
      BY <1>0, <1>5, <1>6, <2>1, <3>1 DEF Keeps, Works, Leaves, CurrentJob
    <3>2. CASE v = target[m]
      <4>1. ~Works(v, j)'
        BY <1>0, <1>7, <3>2 DEF Works, CurrentJob
      <4>2. /\ workerAt[v] = "crashed" /\ processing'[v] = processing[v]
            /\ processing[v] # <<>> /\ Head(processing[v]).job = j
        BY <1>0, <1>5, <2>1, <4>1 DEF Keeps, Leaves
      <4>3. ~DeletedNext(v)
        <5>1. ~DeleteQueue(m)
          BY <1>0, <1>1, <3>2, <4>2 DEF DeleteQueue, TypeOK, StoreTypeOK, Queues
        <5>2. monitorAt[m] # "delete_queue"
          BY <5>1 DEF Recover, ReadStatus, MarkPending, PushRecovered, MonitorDlqPersist,
                      MonitorDlqPush
        <5> QED  BY <1>2, <5>2 DEF DeletedNext, ScanSteps, RecoverSteps
      <4> QED  BY <4>2, <4>3 DEF Keeps, Leaves
    <3> QED  BY <3>1, <3>2
  <2> QED  BY <2>1 DEF NoNewPlace, Fresh
<1> QED  BY <1>1, <1>2, <1>3, <1>4, <1>5, <1>6, <1>7, <1>8, <1>9

LEMMA RecoverRows ==
  ASSUME OnlyWorkersFail, RetriesOrCrashes, Known, OnePlace, NEW m \in Monitors, Recover(m),
         UNCHANGED <<post, workerVars>>
  PROVE  /\ FreshRows' /\ \A v \in Workers : WorkerRow(v)'
         /\ \A v \in Workers : v # target[m] => LeftRow(v)'
         /\ \A n \in Monitors : n # m => MonitorRow(n)'
         /\ UNCHANGED pending => Exclusive' /\ QueueAgreesWithRows'
<1>0. TypeOK /\ Exclusive /\ RowsFollow /\ UNCHANGED <<workerAt, current>>
  BY DEF Known, OnePlace, workerVars
<1>1. FreshRows'
  BY <1>0, RecoverFrame DEF RowsFollow, FreshRows, Fresh, At, Row, SameRows
<1>2. ASSUME NEW v \in Workers  PROVE WorkerRow(v)'
  <2>1. \A j \in Jobs : Works(v, j) => SameRows(j)
    BY RecoverFrame DEF Keeps
  <2> QED  BY <1>0, <2>1, WorkerRowStays DEF RowsFollow
<1>3. ASSUME NEW v \in Workers, v # target[m]  PROVE LeftRow(v)'
  <2>1. \A j \in Jobs : Leaves(v, j) => SameRows(j)
    BY <1>3, RecoverFrame DEF Keeps
  <2>2. processing'[v] = processing[v] /\ ~DeletedNext(v)' /\ ~Requeued(v)
    BY <1>3, RecoverFrame
  <2>3. ASSUME DeletedNext(v)  PROVE LeftRow(v)'
    <3>1. PICK n \in Monitors : monitorAt[n] = "delete_queue" /\ target[n] = v
      BY <2>3 DEF DeletedNext
    <3> QED  BY <1>3, <3>1, RecoverFrame DEF ScanSteps, RecoverSteps
  <2> QED  BY <1>0, <2>1, <2>2, <2>3, LeftRowStays DEF RowsFollow
<1>4. ASSUME NEW n \in Monitors, n # m  PROVE MonitorRow(n)'
  <2>1. monitorAt'[n] \notin ScanSteps
    BY <1>4, RecoverFrame
  <2> QED  BY <2>1 DEF MonitorRow, ScanSteps, RecoverSteps
<1>5. ASSUME UNCHANGED pending  PROVE Exclusive' /\ QueueAgreesWithRows'
  <2>1. \A j \in Jobs : Waits(j) => SameRows(j)
    BY RecoverFrame
  <2> QED  BY <1>0, <1>5, <2>1, RecoverFrame, StaysApart, QueueRowsStay DEF RowsFollow
<1> QED  BY <1>1, <1>2, <1>3, <1>4, <1>5

LEMMA RecoverKeepsPlace ==
  ASSUME OnlyWorkersFail, RetriesOrCrashes, Known, OnePlace, NEW m \in Monitors, Recover(m),
         UNCHANGED <<post, workerVars>>
  PROVE  OnePlace'
<1> USE DEF Call, Disrupted, OnlyWorkersFail, MonitorProceeds, MonitorGoto
<1>0. /\ TypeOK /\ RowsFollow /\ Shape /\ UNCHANGED <<workerAt, current>>
      /\ monitorAt \in [Monitors -> MonitorSteps] /\ processing \in [Workers -> Queue]
      /\ status \in [Jobs -> RowStates] /\ retryCount \in [Jobs -> 0..MaxRetry]
  BY MonitorTypeAt DEF Known, Safekept, OnePlace, RowsFollow, TypeOK, StoreTypeOK, StatusTable,
                       RetryTable, Queues, workerVars
<1>1. PICK t \in Workers : t = target[m] /\ t = target'[m]
  BY RecoverFrame
<1>2. ASSUME Exclusive', QueueAgreesWithRows', MonitorRow(m)', LeftRow(t)'
      PROVE  OnePlace'
  BY <1>1, <1>2, RecoverFrame, RecoverRows DEF OnePlace, RowsFollow
<1>3. UNCHANGED pending => Exclusive' /\ QueueAgreesWithRows'
  BY RecoverRows
<1>4. ASSUME monitorAt'[m] = "delete_queue"  PROVE MonitorRow(m)' /\ LeftRow(t)'
  BY <1>1, <1>4 DEF MonitorRow, LeftRow, DeletedNext
<1>5. monitorAt[m] \in NeedsOrphan =>
        /\ Orphan(m) \in QueuePayload /\ Orphan(m).job \in Jobs
        /\ processing[t] # <<>> /\ Head(processing[t]) = Orphan(m)
        /\ Leaves(t, Orphan(m).job) /\ ~DeletedNext(t)
  BY <1>1, OrphanIsLeft DEF Leaves
<1>6. CASE ReadStatus(m)
  <2>1. monitorAt[m] \in NeedsOrphan /\ UNCHANGED <<status, retryCount, results, pending, processing>>
    BY <1>6, MonitorPoints DEF ReadStatus, dbVars, rowVars, redisVars, queueVars
  <2>2. CASE Settled(m)
    BY <1>0, <1>2, <1>3, <1>4, <1>6, <2>1, <2>2, NextIsDelete DEF ReadStatus
  <2>3. CASE ~Settled(m)
    <3>1. monitorAt'[m] \in {"mark_pending", "dlq_persist"} /\ UNCHANGED orphans
      BY <1>0, <1>6, <2>3 DEF ReadStatus, scanVars
    <3>2. MonitorRow(m)'
      BY <2>1, <2>3, <3>1 DEF MonitorRow, Settled, Decided, Orphan
    <3>3. LeftRow(t)'
      <4>1. SameRows(Orphan(m).job)
        BY <2>1 DEF SameRows
      <4>2. ~Requeued(t)
        BY <1>6, RecoverFrame DEF Requeued, ReadStatus, ScanSteps, RecoverSteps
      <4> QED  BY <1>0, <1>5, <2>1, <4>1, <4>2 DEF RowsFollow, LeftRow, Leaves, Attempted, Decided,
                                                   SameRows
    <3> QED  BY <1>2, <1>3, <2>1, <3>2, <3>3
  <2> QED  BY <2>2, <2>3
<1>7. CASE MarkPending(m)
  <2>1. /\ monitorAt[m] \in NeedsOrphan /\ monitorAt'[m] = "push_recovered"
        /\ UNCHANGED <<pending, processing, orphans>>
        /\ MarkForRetry(Orphan(m).job, Orphan(m).retry + 1)
    BY <1>0, <1>7, MonitorPoints DEF MarkPending, redisVars, queueVars, scanVars
  <2>2. /\ status' = [status EXCEPT ![Orphan(m).job] = "PENDING"]
        /\ retryCount' = [retryCount EXCEPT ![Orphan(m).job] = Orphan(m).retry + 1]
    BY <2>1 DEF MarkForRetry, SetStatus
  <2>3. MonitorRow(m)'
    BY <1>0, <1>5, <2>1, <2>2 DEF MonitorRow, Row, Orphan
  <2>4. LeftRow(t)'
    BY <1>1, <2>1 DEF LeftRow, Requeued
  <2> QED  BY <1>2, <1>3, <2>1, <2>3, <2>4
<1>8. CASE PushRecovered(m)
  <2>1. /\ monitorAt[m] \in NeedsOrphan /\ UNCHANGED <<status, retryCount, processing>>
        /\ monitorAt'[m] = "delete_queue"
    <3>1. monitorAt[m] \in NeedsOrphan /\ NextOrphan(m)
          /\ UNCHANGED <<status, retryCount, processing>>
      BY <1>8, MonitorPoints DEF PushRecovered, dbVars, rowVars
    <3> QED  BY <1>0, <3>1, NextIsDelete
  <2>2. ~Exhausted(Orphan(m))
    BY <1>0, <1>8, MonitorTypeAt DEF PushRecovered, TypeOK, RetryPoints, Orphan
  <2>3. PICK e \in QueuePayload : e = Entry(Orphan(m).job, Orphan(m).retry + 1)
    BY <1>5, <2>1, <2>2, RetryStaysPayload
  <2>4. e.job \in Jobs /\ e.job = Orphan(m).job /\ e.retry = Orphan(m).retry + 1
    BY <2>3 DEF Entry, QueuePayload
  <2>5. EnqueuePending(e) /\ Row(e.job, "PENDING", e.retry)
    BY <1>0, <1>8, <2>3, <2>4 DEF PushRecovered, RowsFollow, MonitorRow
  <2>6. Keeps(t, e.job)
    BY <1>5, <2>1, <2>4 DEF Keeps
  <2>7. ~Fresh(e.job)' /\ \A v \in Workers : ~Keeps(v, e.job)'
    <3>1. ~Fresh(e.job) /\ \A v \in Workers : Keeps(v, e.job) => v = t
      BY <2>4, <2>6 DEF OnePlace, Exclusive
    <3>2. ~Keeps(t, e.job)'
      <4>1. DeletedNext(t)'
        BY <1>1, <2>1 DEF DeletedNext
      <4>2. ~Works(t, e.job)
        BY <1>1, <2>4, RecoverFrame
      <4> QED  BY <1>0, <4>1, <4>2 DEF Keeps, Works, Leaves, CurrentJob
    <3> QED  BY <2>4, <3>1, <3>2, RecoverFrame DEF NoNewPlace
  <2>8. Exclusive'
    BY <1>0, <2>5, <2>6, <2>7, RecoverFrame, PushedApart DEF OnePlace, TypeOK
  <2>9. QueueAgreesWithRows'
    BY <1>0, <2>1, <2>5, PushedAgrees DEF RowsFollow
  <2> QED  BY <1>2, <1>4, <2>1, <2>8, <2>9
<1>9. CASE MonitorDlqPersist(m)
  <2>1. /\ monitorAt[m] \in NeedsOrphan /\ monitorAt'[m] = "dlq_push"
        /\ UNCHANGED <<pending, processing>>
        /\ status' = [status EXCEPT ![Orphan(m).job] = "FAILED"]
    BY <1>0, <1>9, MonitorPoints
       DEF MonitorDlqPersist, redisVars, queueVars, DeadLetterInDb, SetStatus
  <2>2. MonitorRow(m)'
    BY <2>1 DEF MonitorRow
  <2>3. LeftRow(t)'
    BY <1>0, <1>5, <2>1 DEF LeftRow, Decided, IsTerminalStatus, TerminalStatuses
  <2> QED  BY <1>2, <1>3, <2>1, <2>2, <2>3
<1>10. CASE MonitorDlqPush(m)
  <2>1. monitorAt[m] \in NeedsOrphan /\ NextOrphan(m) /\ UNCHANGED pending
    BY <1>10, MonitorPoints DEF MonitorDlqPush
  <2> QED  BY <1>0, <1>2, <1>3, <1>4, <2>1, NextIsDelete
<1>11. CASE DeleteQueue(m)
  <2>1. /\ monitorAt'[m] \in {"release", "pick_worker"} /\ UNCHANGED pending
        /\ processing' = [processing EXCEPT ![target[m]] = <<>>]
    BY <1>0, <1>11 DEF DeleteQueue
  <2>2. processing'[t] = <<>>
    BY <1>0, <1>1, <2>1
  <2>3. MonitorRow(m)' /\ LeftRow(t)'
    BY <2>1, <2>2 DEF MonitorRow, LeftRow
  <2> QED  BY <1>2, <1>3, <2>1, <2>3
<1> QED  BY <1>6, <1>7, <1>8, <1>9, <1>10, <1>11 DEF Recover

LEMMA MonitorsKeepPlace ==
  ASSUME OnlyWorkersFail, RetriesOrCrashes, Known, OnePlace, MonitorNext,
         UNCHANGED <<post, workerVars>>
  PROVE  OnePlace'
<1>1. ASSUME NEW m \in Monitors, Startup(m) \/ MonitorCrash(m)  PROVE FALSE
  BY <1>1 DEF OnePlace, NoRestart, Startup, StartMonitor, ResetRunning, MonitorReadDepth,
              SelectPending, Hydrate, StartupSteps, MonitorCrash, Disrupted, OnlyWorkersFail
<1>2. CASE LockExpires
  <2>1. /\ UNCHANGED <<pending, processing, status, retryCount, workerAt, current>>
        /\ UNCHANGED <<monitorAt, target, orphans>>
    BY <1>2 DEF LockExpires, dbVars, rowVars, queueVars, monitorVars, scanVars, workerVars
  <2>2. Exclusive'
    BY <2>1 DEF OnePlace, Exclusive, NoTwins, Waits, Fresh, Keeps, Works, Leaves, DeletedNext,
                CurrentJob
  <2>3. RowsFollow'
    BY <2>1 DEF OnePlace, RowsFollow, FreshRows, QueueAgreesWithRows, WorkerRow, LeftRow, MonitorRow,
                DeletedNext, CurrentJob, Requeued, Orphan, At, Row, Decided, Attempted
  <2> QED  BY <2>1, <2>2, <2>3 DEF OnePlace, NoRestart
<1> QED  BY <1>1, <1>2, ScanKeepsPlace, RecoverKeepsPlace DEF MonitorNext

\* In every state a job is in one place, and its row says which.
LEMMA OnePlaceHolds ==
  ASSUME OnlyWorkersFail, RetriesOrCrashes
  PROVE  Spec => [](Known /\ OnePlace)
<1>1. Spec => []Known
  <2>1. OnlyProcessesFail /\ "redis_error" \notin Disruptions
    BY WorkersOnlyIsProcessesOnly DEF OnlyWorkersFail
  <2>2. TablesAgree => NoCompensation
    BY DEF TablesAgree
  <2>3. Known <=> TypeOK /\ (Safekept /\ Accounted) /\ OutcomeInOrder /\ NoCompensation
    BY DEF Known
  <2> QED  BY <2>1, <2>2, <2>3, TypeCorrect, AllAccounted, OutcomesInOrder, TablesHold, PTL
<1>2. Init => OnePlace
  <2> SUFFICES ASSUME Init  PROVE OnePlace
    OBVIOUS
  <2>1. /\ status = [j \in Jobs |-> "ABSENT"] /\ retryCount = [j \in Jobs |-> 0] /\ pending = <<>>
        /\ \A w \in Workers : workerAt[w] = "off"
        /\ \A m \in Monitors : monitorAt[m] = "asleep"
        /\ \A j \in Jobs : post[j] = "none"
    BY DEF Init, StoreInit, WorkerInit, MonitorInit, GatewayInit
  <2>2. NoRestart
    BY <2>1 DEF NoRestart, StartupSteps
  <2>3. ToSet(pending) = {} /\ NoTwins(pending)
    BY <2>1 DEF ToSet, NoTwins
  <2>4. Exclusive
    BY <2>1, <2>3, PlacePoints, BusyPoints DEF Exclusive, Waits, Keeps, Works, Leaves, Inert
  <2>5. \A w \in Workers : WorkerRow(w) /\ LeftRow(w)
    BY <2>1, PlacePoints DEF WorkerRow, LeftRow
  <2>6. FreshRows /\ QueueAgreesWithRows /\ \A m \in Monitors : MonitorRow(m)
    BY <2>1, <2>3 DEF FreshRows, QueueAgreesWithRows, MonitorRow, At, Row
  <2> QED  BY <2>2, <2>4, <2>5, <2>6 DEF OnePlace, RowsFollow
<1>3. Known /\ OnePlace /\ [Next]_vars => OnePlace'
  <2>1. OnePlace /\ UNCHANGED vars => OnePlace'
    BY DEF vars, storeVars, dbVars, rowVars, redisVars, queueVars, workerVars, monitorVars, scanVars,
           OnePlace, NoRestart, Exclusive, NoTwins, Waits, Fresh, Keeps, Works, Leaves, DeletedNext,
           CurrentJob, RowsFollow, FreshRows, QueueAgreesWithRows, WorkerRow, LeftRow, MonitorRow,
           Requeued, Orphan, At, Row, Decided, Attempted
  <2> QED  BY <2>1, WorkersKeepPlace, GatewayKeepsPlace, MonitorsKeepPlace DEF Next
<1> QED  BY <1>1, <1>2, <1>3, PTL DEF Spec

(***************************************************************************)
(* What follows for the jobs that run, wait and are claimed. The two       *)
(* hypotheses are needed: a monitor that restarts resets every RUNNING row *)
(* whoever runs it, and a worker that dies between the LPUSH and the LREM  *)
(* of requeueWithBackoff has left a second copy of the job.                *)
(***************************************************************************)
LEMMA ExecutingWorks ==
  ASSUME TypeOK, NEW w \in Workers, Executing(w)
  PROVE  CurrentJob(w) \in Jobs /\ Keeps(w, CurrentJob(w))
<1>1. workerAt[w] \in Busy \ {"remove_old"}
  BY DEF Executing, Busy, Sandboxed
<1> QED  BY <1>1, BusyHolds DEF TypeOK, Keeps, Works

\* SingleExecution: however many workers crash or drain and are recovered, no
\* two of them have a sandbox for the same job: BRPOPLPUSH gives an entry to
\* one worker, and the reaper pushes it again only once its worker is dead.
THEOREM SingleExecutionSafe ==
  ASSUME OnlyWorkersFail, RetriesOrCrashes
  PROVE  Spec => []SingleExecution
<1>1. Known /\ OnePlace => SingleExecution
  BY ExecutingWorks DEF SingleExecution, Known, OnePlace, Exclusive
<1> QED  BY <1>1, OnePlaceHolds, PTL

\* QueueAgreesWithRows: an entry that waits can be claimed as it stands, since
\* its row is PENDING with the same retry count. POST /submissions,
\* requeueWithBackoff and the reaper all write the row before they push.
THEOREM QueueAgreesWithRowsSafe ==
  ASSUME OnlyWorkersFail, RetriesOrCrashes
  PROVE  Spec => []QueueAgreesWithRows
<1>1. OnePlace => QueueAgreesWithRows
  BY DEF OnePlace, RowsFollow
<1> QED  BY <1>1, OnePlaceHolds, PTL

\* ClaimNeverRejected: the UPDATE ... WHERE status = PENDING of the claim finds
\* its row, so the branches of the loop that give an entry back or throw it
\* away are never taken. The comment on them (index.ts:189-194) has a worker pop
\* a recovered job before the reaper's UPDATE committed: no recovery does that,
\* as the UPDATE is awaited and RowsFollow holds of every entry that waits.
THEOREM ClaimNeverRejectedSafe ==
  ASSUME OnlyWorkersFail, RetriesOrCrashes
  PROVE  Spec => []ClaimNeverRejected
<1>1. OnePlace => ClaimNeverRejected
  BY DEF OnePlace, RowsFollow, WorkerRow, ClaimNeverRejected
<1> QED  BY <1>1, OnePlaceHolds, PTL

(***************************************************************************)
(* A job that is decided is left alone by every step: no place that could  *)
(* write its row has it.                                                   *)
(***************************************************************************)
LEMMA WorkerLeavesDecided ==
  ASSUME Known, OnePlace, NEW w \in Workers, Loop(w), NEW j \in Jobs, Decided(j)
  PROVE  SameRows(j)
<1>0. TypeOK /\ WorkerRow(w) /\ StoreTypeOK
  BY DEF Known, TypeOK, OnePlace, RowsFollow
<1>1. CASE ~Works(w, j)
  BY <1>0, <1>1, WorkerChangesOwn
<1>2. CASE Works(w, j)
  <2>1. workerAt[w] \notin {"claim", "push_retry"} \union Running
    BY <1>0, <1>2 DEF WorkerRow, Works, Row, Decided, IsTerminalStatus, TerminalStatuses
  <2>2. ~Claim(w) /\ ~Persist(w) /\ ~Requeue(w) /\ ~DlqPersist(w)
    BY <2>1, PlacePoints DEF Claim, Persist, Requeue, DlqPersist
  <2>3. UNCHANGED dbVars
    BY <1>0, <2>2
       DEF WorkerRow, Loop, Take, Pop, PopTimesOut, Check, GiveBack, Discard, RunJob,
           RemoveStaleContainer, StartContainer, ContainerExits, Conclude, Acknowledge,
           PublishCompletion, PutBack, PushRetry, RemoveOld, GiveUp, RemoveExhausted, DlqPush,
           DlqPublish, RedisOnly, SandboxOnly, PublishOnly
  <2> QED  BY <2>3 DEF dbVars, rowVars, SameRows
<1> QED  BY <1>1, <1>2

LEMMA DecidedStays ==
  ASSUME OnlyWorkersFail, RetriesOrCrashes, Known, OnePlace, [Next]_vars, NEW j \in Jobs, Decided(j)
  PROVE  SameRows(j)
<1> USE DEF dbVars, rowVars
<1>0. TypeOK /\ StoreTypeOK /\ status \in [Jobs -> RowStates]
  BY DEF Known, TypeOK, StoreTypeOK, StatusTable
<1>1. CASE UNCHANGED <<status, retryCount, results>>
  BY <1>1 DEF SameRows
<1>2. CASE GatewayNext
  <2>1. ASSUME NEW k \in Jobs, Submit(k)  PROVE SameRows(j)
    <3>1. ~Decided(k)
      BY <2>1 DEF Submit, OnePlace, RowsFollow, FreshRows, Row, Decided, IsTerminalStatus,
                  TerminalStatuses
    <3>2. UNCHANGED <<retryCount, results>>
          /\ (UNCHANGED status \/ status' = [status EXCEPT ![k] = "PENDING"])
      BY <2>1 DEF Submit, InsertRow, SetStatus, Call
    <3> QED  BY <1>0, <3>1, <3>2 DEF SameRows
  <2>2. \A k \in Jobs : ~MarkFailed(k) /\ ~RecordFailure(k)
    BY DEF Known, NoCompensation, MarkFailed, RecordFailure, At
  <2> QED  BY <1>1, <1>2, <2>1, <2>2 DEF GatewayNext, GatewayCrash, Request, Enqueue, ReadDepth
<1>3. CASE WorkerNext
  <2>1. ASSUME NEW w \in Workers, StartWorker(w) \/ Live(w)  PROVE SameRows(j)
    BY <1>1, <2>1, LiveTouchesNothing
  <2>2. ASSUME NEW k \in Jobs, OrphanExits(k)  PROVE SameRows(j)
    BY <1>1, <2>2 DEF OrphanExits, SandboxOnly
  <2> QED  BY <1>3, <2>1, <2>2, WorkerLeavesDecided DEF WorkerNext
<1>4. CASE MonitorNext
  <2>1. ASSUME NEW m \in Monitors, Scan(m) \/ MonitorCrash(m)  PROVE SameRows(j)
    BY <1>1, <2>1, ScanTouchesNothing
  <2>2. ASSUME NEW m \in Monitors, Startup(m)  PROVE FALSE
    BY <2>2 DEF OnePlace, NoRestart, Startup, StartMonitor, ResetRunning, MonitorReadDepth,
                SelectPending, Hydrate, StartupSteps
  <2>3. ASSUME NEW m \in Monitors, Recover(m)  PROVE SameRows(j)
    <3>1. CASE MarkPending(m) \/ MonitorDlqPersist(m)
      <4>1. ~Decided(Orphan(m).job)
        BY <3>1 DEF MarkPending, MonitorDlqPersist, OnePlace, RowsFollow, MonitorRow
      <4> QED  BY <1>0, <2>3, <4>1, MonitorTouches
    <3>2. CASE ~(MarkPending(m) \/ MonitorDlqPersist(m))
      BY <1>1, <2>3, <3>2 DEF Recover, ReadStatus, PushRecovered, MonitorDlqPush, DeleteQueue
    <3> QED  BY <3>1, <3>2
  <2>4. CASE LockExpires
    BY <1>1, <2>4 DEF LockExpires
  <2> QED  BY <1>4, <2>1, <2>2, <2>3, <2>4 DEF MonitorNext
<1>5. CASE UNCHANGED vars
  BY <1>1, <1>5 DEF vars, storeVars
<1> QED  BY <1>2, <1>3, <1>4, <1>5 DEF Next

\* TerminalIsFinal: the outcome of a job, once committed, is neither replaced
\* nor run for again. Nobody who has the job writes its row: a worker publishes
\* and acknowledges only after its COMMIT, and the reaper reads the status
\* before it touches a row (recoverJobsFromDeadWorker).
THEOREM TerminalIsFinalSafe ==
  ASSUME OnlyWorkersFail, RetriesOrCrashes
  PROVE  Spec => TerminalIsFinal
<1>1. Known /\ OnePlace /\ [Next]_vars =>
        [\A j \in Jobs : Decided(j) => status'[j] = status[j] /\ results'[j] = results[j]]_vars
  BY DecidedStays DEF SameRows
<1> QED  BY <1>1, OnePlaceHolds, PTL DEF Spec, TerminalIsFinal

\* The same for a status alone: no committed job comes back into the queue's
\* domain. (A Redis error after COMMIT does bring one back, and the hypothesis
\* excludes it: see the run FindRequeuedAfterCommit.)
THEOREM TerminalNotRequeuedSafe ==
  ASSUME OnlyWorkersFail, RetriesOrCrashes
  PROVE  Spec => TerminalNotRequeued
<1>1. Known /\ OnePlace /\ [Next]_vars => [\A j \in Jobs : Decided(j) => status'[j] # "PENDING"]_vars
  BY DecidedStays DEF SameRows, Decided, IsTerminalStatus, TerminalStatuses
<1> QED  BY <1>1, OnePlaceHolds, PTL DEF Spec, TerminalNotRequeued

(***************************************************************************)
(* The completion marker. Only the two announcements of a worker set one,  *)
(* and each follows the transaction that decided the job.                  *)
(***************************************************************************)
LEMMA MarkedByWorker ==
  ASSUME StoreTypeOK, [Next]_vars, NEW j \in Jobs, completion'[j]
  PROVE  completion[j] \/ \E w \in Workers : workerAt[w] \in Deciding /\ CurrentJob(w) = j
<1> USE DEF redisVars
<1>1. CASE UNCHANGED completion
  BY <1>1
<1>2. CASE GatewayNext
  BY <1>1, <1>2 DEF GatewayNext, Request, GatewayCrash, Submit, Enqueue, ReadDepth, MarkFailed,
                    RecordFailure
<1>3. CASE WorkerNext
  <2>1. ASSUME NEW w \in Workers, StartWorker(w) \/ Live(w)  PROVE UNCHANGED completion
    BY <2>1, LiveTouchesNothing
  <2>2. ASSUME NEW k \in Jobs, OrphanExits(k)  PROVE UNCHANGED completion
    BY <2>2 DEF OrphanExits, SandboxOnly
  <2>3. ASSUME NEW w \in Workers, PublishCompletion(w) \/ DlqPublish(w)
        PROVE  completion[j] \/ (workerAt[w] \in Deciding /\ CurrentJob(w) = j)
    <3>1. UNCHANGED completion \/ completion' = [completion EXCEPT ![CurrentJob(w)] = TRUE]
      BY <2>3 DEF PublishCompletion, DlqPublish, PublishSystemChunk, Call
    <3>2. workerAt[w] \in Deciding
      BY <2>3 DEF PublishCompletion, DlqPublish, Deciding
    <3> QED  BY <3>1, <3>2 DEF StoreTypeOK
  <2>4. ASSUME NEW w \in Workers, Loop(w), ~PublishCompletion(w), ~DlqPublish(w)
        PROVE  UNCHANGED completion
    BY <2>4
       DEF Loop, Take, Pop, PopTimesOut, Claim, Check, GiveBack, Discard, RunJob,
           RemoveStaleContainer, StartContainer, ContainerExits, Conclude, Persist, Acknowledge,
           PutBack, Requeue, PushRetry, RemoveOld, GiveUp, RemoveExhausted, DlqPersist, DlqPush,
           RedisOnly, DbOnly, SandboxOnly, KeepsSignals
  <2> QED  BY <1>1, <1>3, <2>1, <2>2, <2>3, <2>4 DEF WorkerNext
<1>4. CASE MonitorNext
  BY <1>1, <1>4
     DEF MonitorNext, LockExpires, Startup, StartMonitor, ResetRunning, MonitorReadDepth,
         SelectPending, Hydrate, Scan, AcquireLock, ScanQueues, ScanHeartbeats, PickWorker,
         ReleaseLock, Recover, ReadStatus, MarkPending, PushRecovered, MonitorDlqPersist,
         MonitorDlqPush, DeleteQueue, MonitorCrash
<1>5. CASE UNCHANGED vars
  BY <1>1, <1>5 DEF vars, storeVars
<1> QED  BY <1>2, <1>3, <1>4, <1>5 DEF Next

\* MarkerMeansDecided: a client that sees EXECUTION_COMPLETE can read the
\* outcome. The PUBLISH comes after COMMIT, and what was committed stays.
THEOREM MarkerMeansDecidedSafe ==
  ASSUME OnlyWorkersFail, RetriesOrCrashes
  PROVE  Spec => []MarkerMeansDecided
<1>1. Init => MarkerMeansDecided
  BY DEF Init, StoreInit, MarkerMeansDecided
<1>2. Known /\ OnePlace /\ MarkerMeansDecided /\ [Next]_vars => MarkerMeansDecided'
  <2> SUFFICES ASSUME Known, OnePlace, MarkerMeansDecided, [Next]_vars,
                      NEW j \in Jobs, completion'[j]
               PROVE  Decided(j)'
    BY DEF MarkerMeansDecided
  <2>1. Decided(j)
    BY MarkedByWorker DEF Known, TypeOK, OnePlace, RowsFollow, WorkerRow, MarkerMeansDecided
  <2> QED  BY <2>1, DecidedStays DEF SameRows, Decided
<1> QED  BY <1>1, <1>2, OnePlaceHolds, PTL DEF Spec

(***************************************************************************)
(* The names of containers. One job, one worker: so nobody can take the    *)
(* name between docker rm -f and docker run. A docker rm that fails leaves *)
(* the container of a dead worker, if there is one, and a worker that died *)
(* is a crash.                                                             *)
(***************************************************************************)
RunsOwn(j) ==
  container[j] # Nobody => workerAt[container[j]] = "running" /\ CurrentJob(container[j]) = j

Named == ContainerNameFree /\ ("worker_crash" \notin Disruptions => \A j \in Jobs : RunsOwn(j))

LEMMA SandboxedWorks ==
  ASSUME TypeOK, NEW w \in Workers, workerAt[w] \in {"remove_stale", "start_container", "running"}
  PROVE  CurrentJob(w) \in Jobs /\ Keeps(w, CurrentJob(w))
<1>1. Executing(w)
  BY DEF Executing, Sandboxed
<1> QED  BY <1>1, ExecutingWorks

LEMMA SandboxKeepsNames ==
  ASSUME RetriesOrCrashes, TypeOK, Exclusive, Named, NEW w \in Workers, RunJob(w)
  PROVE  Named'
<1> DEFINE j == CurrentJob(w)
<1>0. /\ TypeOK /\ WorkerTypeOK
      /\ container \in [Jobs -> Workers \union {Nobody}]
      /\ workerAt \in [Workers -> {"pop"} \union Busy \union Inert]
  BY DEF TypeOK, WorkerTypeOK
<1>1. /\ workerAt[w] \in {"remove_stale", "start_container", "running"} /\ CurrentJob(w)' = j
      /\ \A v \in Workers : v # w => workerAt'[v] = workerAt[v] /\ CurrentJob(v)' = CurrentJob(v)
  <2>1. /\ workerAt[w] \in {"remove_stale", "start_container", "running"}
        /\ current' = current
    BY DEF RunJob, RemoveStaleContainer, StartContainer, ContainerExits, Proceed
  <2> QED  BY <1>0, <2>1, OneWorkerMoves DEF Loop, CurrentJob
<1>2. j \in Jobs /\ Keeps(w, j)
  BY <1>0, <1>1, SandboxedWorks
<1>3. \A v \in Workers : v # w /\ workerAt[v] \in {"remove_stale", "start_container", "running"} =>
                           CurrentJob(v) \in Jobs \ {j}
  BY <1>0, <1>2, SandboxedWorks DEF Exclusive
<1> HIDE DEF j
<1>4. CASE RemoveStaleContainer(w)
  <2>1. workerAt[w] = "remove_stale" /\ workerAt'[w] = "start_container"
    BY <1>0, <1>4 DEF RemoveStaleContainer, Proceed, Goto
  <2>2. /\ container' = [container EXCEPT ![j] = Nobody] \/ UNCHANGED container
        /\ container'[j] = Nobody
    <3>1. CASE container' = [container EXCEPT ![j] = Nobody]
      BY <1>0, <1>2, <3>1
    <3>2. CASE Disrupted("spawn_error") /\ UNCHANGED container
      <4>1. "worker_crash" \notin Disruptions
        BY <3>2 DEF Disrupted, RetriesOrCrashes
      <4>2. container[j] # Nobody => container[j] \in Workers \ {w}
        BY <1>0, <1>2, <2>1, <4>1 DEF Named, RunsOwn
      <4> QED  BY <1>2, <1>3, <3>2, <4>1, <4>2 DEF Named, RunsOwn
    <3> QED  BY <1>4, <3>1, <3>2 DEF RemoveStaleContainer, j
  <2>3. ContainerNameFree'
    <3> SUFFICES ASSUME NEW v \in Workers, workerAt'[v] = "start_container"
                 PROVE  container'[CurrentJob(v)'] = Nobody
      BY DEF ContainerNameFree
    <3>1. v # w => container'[CurrentJob(v)'] = container[CurrentJob(v)]
      BY <1>0, <1>1, <1>2, <1>3, <2>2
    <3> QED  BY <1>1, <2>2, <3>1 DEF Named, ContainerNameFree
  <2>4. ASSUME "worker_crash" \notin Disruptions, NEW k \in Jobs, k # j  PROVE RunsOwn(k)'
    <3>1. container'[k] = container[k] /\ RunsOwn(k)
      BY <1>0, <2>2, <2>4 DEF Named
    <3>2. container[k] # Nobody => container[k] \in Workers \ {w}
      BY <1>0, <2>1, <3>1 DEF RunsOwn
    <3> QED  BY <1>1, <3>1, <3>2 DEF RunsOwn
  <2> QED  BY <2>2, <2>3, <2>4 DEF Named, RunsOwn
<1>5. CASE StartContainer(w)
  <2>1. workerAt[w] = "start_container" /\ container[j] = Nobody
    BY <1>5 DEF StartContainer, Named, ContainerNameFree, j
  <2>2. \/ container' = [container EXCEPT ![j] = w] /\ workerAt'[w] = "running"
        \/ UNCHANGED container /\ workerAt'[w] = "requeue"
    BY <1>0, <1>5, <2>1 DEF StartContainer, Proceed, Goto, j
  <2>3. ContainerNameFree'
    <3> SUFFICES ASSUME NEW v \in Workers, workerAt'[v] = "start_container"
                 PROVE  container'[CurrentJob(v)'] = Nobody
      BY DEF ContainerNameFree
    <3>1. v # w => container'[CurrentJob(v)'] = container[CurrentJob(v)]
      BY <1>0, <1>1, <1>2, <1>3, <2>2
    <3> QED  BY <1>1, <2>2, <3>1 DEF Named, ContainerNameFree
  <2>4. ASSUME "worker_crash" \notin Disruptions, NEW k \in Jobs  PROVE RunsOwn(k)'
    <3>1. CASE container'[k] = container[k]
      <4>1. container[k] # Nobody => container[k] \in Workers \ {w}
        BY <1>0, <2>1, <2>4 DEF Named, RunsOwn
      <4> QED  BY <1>1, <2>4, <3>1, <4>1 DEF Named, RunsOwn
    <3>2. CASE container'[k] # container[k]
      <4>1. k = j /\ container'[k] = w /\ workerAt'[w] = "running"
        BY <1>0, <1>2, <2>2, <3>2
      <4> QED  BY <1>1, <4>1 DEF RunsOwn
    <3> QED  BY <3>1, <3>2
  <2> QED  BY <2>3, <2>4 DEF Named
<1>6. CASE ContainerExits(w)
  <2>1. /\ workerAt[w] = "running" /\ workerAt'[w] = "persist"
        /\ container' = IF container[j] = w THEN [container EXCEPT ![j] = Nobody] ELSE container
    BY <1>0, <1>6 DEF ContainerExits, Goto, j
  <2>2. ContainerNameFree'
    BY <1>0, <1>1, <1>2, <1>3, <2>1 DEF Named, ContainerNameFree
  <2>3. ASSUME "worker_crash" \notin Disruptions, NEW k \in Jobs  PROVE RunsOwn(k)'
    <3>1. container'[k] # Nobody => container'[k] = container[k] /\ container[k] \in Workers \ {w}
      <4>1. container[k] = w => k = j
        BY <1>0, <2>3, StoreAssumption DEF Named, RunsOwn, j
      <4> QED  BY <1>0, <1>2, <2>1, <4>1
    <3> QED  BY <1>1, <2>3, <3>1 DEF Named, RunsOwn
  <2> QED  BY <2>2, <2>3 DEF Named
<1> QED  BY <1>4, <1>5, <1>6 DEF RunJob

LEMMA NamesStay ==
  ASSUME RetriesOrCrashes, TypeOK, Exclusive, Named, [Next]_vars
  PROVE  Named'
<1>0. /\ TypeOK /\ WorkerTypeOK
      /\ container \in [Jobs -> Workers \union {Nobody}]
      /\ workerAt \in [Workers -> {"pop"} \union Busy \union Inert]
  BY DEF TypeOK, WorkerTypeOK
<1>1. CASE UNCHANGED workerVars
  BY <1>1 DEF workerVars, Named, ContainerNameFree, RunsOwn, CurrentJob
<1>2. CASE WorkerNext
  <2>1. ASSUME NEW w \in Workers, StartWorker(w) \/ Live(w) \/ Loop(w), ~RunJob(w)
        PROVE  Named'
    <3>1. UNCHANGED container
      BY <2>1, LiveTouchesNothing
         DEF Loop, Take, Pop, PopTimesOut, Claim, Check, GiveBack, Discard, Conclude, Persist,
             Acknowledge, PublishCompletion, PutBack, Requeue, PushRetry, RemoveOld, GiveUp,
             RemoveExhausted, DlqPersist, DlqPush, DlqPublish, RedisOnly, DbOnly, PublishOnly,
             KeepsWorld
    <3>2. \A v \in Workers : v # w => workerAt'[v] = workerAt[v] /\ CurrentJob(v)' = CurrentJob(v)
      BY <1>0, <2>1, OneWorkerMoves DEF CurrentJob
    <3>3. \/ UNCHANGED <<workerAt, current>>
          \/ /\ workerAt'[w] # "start_container"
             /\ workerAt[w] # "running" \/ "worker_crash" \in Disruptions
      BY <1>0, <2>1
         DEF StartWorker, Live, SendHeartbeat, HeartbeatExpires, Sigterm, WorkerCrash, workerVars,
             Loop, Take, Pop, PopTimesOut, Claim, Check, GiveBack, Discard, Conclude, Persist,
             Acknowledge, PublishCompletion, PutBack, Requeue, PushRetry, RemoveOld, GiveUp,
             RemoveExhausted, DlqPersist, DlqPush, DlqPublish, Call, Disrupted, Goto, Proceed,
             NextIteration
    <3>4. ContainerNameFree'
      BY <3>1, <3>2, <3>3 DEF Named, ContainerNameFree, CurrentJob
    <3>5. ASSUME "worker_crash" \notin Disruptions, NEW k \in Jobs  PROVE RunsOwn(k)'
      BY <1>0, <3>1, <3>2, <3>3, <3>5 DEF Named, RunsOwn, CurrentJob
    <3> QED  BY <3>4, <3>5 DEF Named
  <2>2. ASSUME NEW k \in Jobs, OrphanExits(k)  PROVE Named'
    <3>1. UNCHANGED <<workerAt, current>> /\ container' = [container EXCEPT ![k] = Nobody]
      BY <2>2 DEF OrphanExits
    <3>2. \A w \in Workers : CurrentJob(w)' = CurrentJob(w)
      BY <3>1 DEF CurrentJob
    <3>3. ContainerNameFree'
      BY <1>0, <3>1, <3>2, SandboxedWorks DEF Named, ContainerNameFree
    <3>4. ASSUME "worker_crash" \notin Disruptions, NEW i \in Jobs  PROVE RunsOwn(i)'
      <4>1. container'[i] # Nobody => container'[i] = container[i] /\ container[i] \in Workers
        BY <1>0, <3>1
      <4> QED  BY <3>1, <3>2, <3>4, <4>1 DEF Named, RunsOwn
    <3> QED  BY <3>3, <3>4 DEF Named
  <2> QED  BY <1>2, <2>1, <2>2, SandboxKeepsNames DEF WorkerNext
<1> QED  BY <1>1, <1>2 DEF Next, vars

\* ContainerNameFree: docker run never meets a container of its own name, so a
\* program is never taken for one that failed at once because of that.
\* removeStaleContainer has removed the container that a dead worker left, and
\* no other worker has the job.
THEOREM ContainerNameFreeSafe ==
  ASSUME OnlyWorkersFail, RetriesOrCrashes
  PROVE  Spec => []ContainerNameFree
<1>1. Init => Named
  <2> SUFFICES ASSUME Init  PROVE Named
    OBVIOUS
  <2>1. /\ \A w \in Workers : workerAt[w] = "off"
        /\ \A j \in Jobs : container[j] = Nobody
    BY DEF Init, WorkerInit
  <2> QED  BY <2>1 DEF Named, ContainerNameFree, RunsOwn
<1>2. Known /\ OnePlace /\ Named /\ [Next]_vars => Named'
  BY NamesStay DEF Known, OnePlace
<1>3. Named => ContainerNameFree
  BY DEF Named
<1> QED  BY <1>1, <1>2, <1>3, OnePlaceHolds, PTL DEF Spec

(***************************************************************************)
(* The refinement. A step of the platform moves the row of one job as the  *)
(* lifecycle allows, or moves no row.                                      *)
(***************************************************************************)
LEMMA MoveImplements ==
  ASSUME NEW j \in Jobs,
         \/ Lifecycle!Accept(j) \/ Lifecycle!Advance(j) \/ Lifecycle!TryAgain(j)
         \/ Lifecycle!Abandon(j)
  PROVE  [Lifecycle!Next]_(Lifecycle!vars)
BY DEF Lifecycle!Next

LEMMA StillImplements ==
  ASSUME UNCHANGED <<status, retryCount>>
  PROVE  [Lifecycle!Next]_(Lifecycle!vars)
BY DEF Lifecycle!vars

LEMMA Transitions ==
  /\ Lifecycle!IsValidTransition("PENDING", "RUNNING") /\ "RUNNING" \in Lifecycle!Statuses
  /\ \A s \in TerminalStatuses :
       Lifecycle!IsValidTransition("RUNNING", s) /\ s \in Lifecycle!Statuses
BY DEF Lifecycle!IsValidTransition, Lifecycle!AllowedTransitions, Lifecycle!Statuses,
       Lifecycle!TerminalStatuses, TerminalStatuses

LEMMA WorkerImplements ==
  ASSUME Known, OnePlace, NEW w \in Workers, Loop(w)
  PROVE  [Lifecycle!Next]_(Lifecycle!vars)
<1> USE DEF Call, DbOnly, RedisOnly, SandboxOnly, PublishOnly, dbVars, rowVars
<1> DEFINE j == CurrentJob(w)
<1>0. /\ TypeOK /\ WorkerRow(w) /\ retryCount \in [Jobs -> 0..MaxRetry]
      /\ workerAt[w] \in Busy => j \in Jobs /\ current[w] \in QueuePayload
  BY BusyHolds DEF Known, TypeOK, OnePlace, RowsFollow, StoreTypeOK, RetryTable
<1>1. CASE Claim(w)
  <2>1. j \in Jobs /\ status[j] = "PENDING"
    BY <1>0, <1>1, PlacePoints DEF Claim, WorkerRow, Row
  <2>2. UNCHANGED <<status, retryCount>> \/ Lifecycle!Advance(j)
    BY <1>1, <2>1, Transitions DEF Claim, Lifecycle!Advance
  <2> QED  BY <2>1, <2>2, MoveImplements, StillImplements
<1>2. CASE Persist(w) \/ DlqPersist(w)
  <2>1. j \in Jobs /\ status[j] = "RUNNING"
    BY <1>0, <1>2, PlacePoints DEF Persist, DlqPersist, WorkerRow, Row
  <2>2. /\ UNCHANGED retryCount
        /\ UNCHANGED status \/ \E s \in TerminalStatuses : status' = [status EXCEPT ![j] = s]
    BY <1>2 DEF Persist, DlqPersist, DeadLetterInDb, SetStatus, FinalStatus, TerminalStatuses
  <2>3. UNCHANGED <<status, retryCount>> \/ Lifecycle!Advance(j)
    BY <2>1, <2>2, Transitions DEF Lifecycle!Advance
  <2> QED  BY <2>1, <2>3, MoveImplements, StillImplements
<1>3. CASE Requeue(w)
  <2>1. /\ j \in Jobs /\ status[j] = "RUNNING" /\ current[w].retry \in Nat
        /\ retryCount[j] = current[w].retry /\ retryCount[j] < MaxRetry
    BY <1>0, <1>3, PlacePoints, MaxRetryAssumption
       DEF Requeue, WorkerRow, Row, Exhausted, QueuePayload
  <2>2. UNCHANGED <<status, retryCount>> \/ MarkForRetry(j, retryCount[j] + 1)
    BY <1>3, <2>1 DEF Requeue
  <2>3. UNCHANGED <<status, retryCount>> \/ Lifecycle!TryAgain(j)
    BY <2>1, <2>2 DEF MarkForRetry, SetStatus, Lifecycle!TryAgain, Lifecycle!Move
  <2> QED  BY <2>1, <2>3, MoveImplements, StillImplements
<1>4. CASE ~(Claim(w) \/ Persist(w) \/ DlqPersist(w) \/ Requeue(w))
  <2>1. UNCHANGED <<status, retryCount>>
    BY <1>4
       DEF Loop, Take, Pop, PopTimesOut, Check, GiveBack, Discard, RunJob, RemoveStaleContainer,
           StartContainer, ContainerExits, Conclude, Acknowledge, PublishCompletion, PutBack,
           PushRetry, RemoveOld, GiveUp, RemoveExhausted, DlqPush, DlqPublish
  <2> QED  BY <2>1, StillImplements
<1> QED  BY <1>1, <1>2, <1>3, <1>4

\* A monitor that holds an undecided job finds it in its last recorded attempt.
LEMMA OrphanAttempted ==
  ASSUME OnlyWorkersFail, RetriesOrCrashes, Known, OnePlace, NEW m \in Monitors,
         monitorAt[m] \in {"mark_pending", "dlq_persist"}
  PROVE  Orphan(m) \in QueuePayload /\ Orphan(m).job \in Jobs /\ Attempted(Orphan(m))
<1>1. /\ target[m] \in Workers /\ workerAt[target[m]] = "crashed" /\ ~DeletedNext(target[m])
      /\ processing[target[m]] # <<>> /\ Head(processing[target[m]]) = Orphan(m)
      /\ Orphan(m) \in QueuePayload /\ Orphan(m).job \in Jobs
  BY OrphanIsLeft, MonitorPoints DEF Leaves
<1>2. ~Decided(Orphan(m).job)
  BY DEF OnePlace, RowsFollow, MonitorRow
<1>3. ~Requeued(target[m])
  <2> SUFFICES ASSUME NEW n \in Monitors, monitorAt[n] = "push_recovered"  PROVE FALSE
    BY DEF Requeued
  <2>1. Scanning(m) /\ Scanning(n)
    BY DEF Scanning, ScanSteps, RecoverSteps
  <2> QED  BY <2>1 DEF Known, Safekept, LockHeld
<1> QED  BY <1>1, <1>2, <1>3 DEF OnePlace, RowsFollow, LeftRow

LEMMA RecoverImplements ==
  ASSUME OnlyWorkersFail, RetriesOrCrashes, Known, OnePlace, NEW m \in Monitors, Recover(m)
  PROVE  [Lifecycle!Next]_(Lifecycle!vars)
<1> USE DEF Call, dbVars, rowVars
<1>1. CASE MarkPending(m)
  <2>1. PICK j \in Jobs : j = Orphan(m).job
    BY <1>1, OrphanAttempted DEF MarkPending
  <2>2. /\ status[j] \in {"PENDING", "RUNNING"} /\ retryCount[j] = Orphan(m).retry
        /\ Orphan(m).retry \in Nat /\ ~Exhausted(Orphan(m))
    BY <1>1, <2>1, OrphanAttempted, MonitorTypeAt
       DEF MarkPending, Attempted, QueuePayload, RetryPoints, Orphan, Known, TypeOK
  <2>3. retryCount[j] < MaxRetry
    BY <2>2, MaxRetryAssumption DEF Exhausted
  <2>4. UNCHANGED <<status, retryCount>> \/ MarkForRetry(j, retryCount[j] + 1)
    BY <1>1, <2>1, <2>2 DEF MarkPending
  <2>5. UNCHANGED <<status, retryCount>> \/ Lifecycle!TryAgain(j)
    BY <2>2, <2>3, <2>4 DEF MarkForRetry, SetStatus, Lifecycle!TryAgain, Lifecycle!Move
  <2> QED  BY <2>5, MoveImplements, StillImplements
<1>2. CASE MonitorDlqPersist(m)
  <2>1. PICK j \in Jobs : j = Orphan(m).job
    BY <1>2, OrphanAttempted DEF MonitorDlqPersist
  <2>2. status[j] \in {"PENDING", "RUNNING"} /\ retryCount[j] = Orphan(m).retry
    BY <1>2, <2>1, OrphanAttempted DEF MonitorDlqPersist, Attempted
  <2>3. retryCount[j] = MaxRetry
    BY <1>2, <2>2 DEF MonitorDlqPersist, Known, OutcomeInOrder, LastAttempt
  <2>4. /\ UNCHANGED retryCount
        /\ UNCHANGED status \/ status' = [status EXCEPT ![j] = "FAILED"]
    BY <1>2, <2>1 DEF MonitorDlqPersist, DeadLetterInDb, SetStatus
  <2>5. UNCHANGED <<status, retryCount>> \/ Lifecycle!Abandon(j)
    BY <2>2, <2>3, <2>4 DEF Lifecycle!Abandon, Lifecycle!Move
  <2> QED  BY <2>5, MoveImplements, StillImplements
<1>3. CASE ReadStatus(m) \/ PushRecovered(m) \/ MonitorDlqPush(m) \/ DeleteQueue(m)
  BY <1>3, StillImplements DEF ReadStatus, PushRecovered, MonitorDlqPush, DeleteQueue
<1> QED  BY <1>1, <1>2, <1>3 DEF Recover

LEMMA StepImplements ==
  ASSUME OnlyWorkersFail, RetriesOrCrashes, Known, OnePlace, [Next]_vars
  PROVE  [Lifecycle!Next]_(Lifecycle!vars)
<1> USE DEF dbVars, rowVars
<1>1. CASE GatewayNext
  <2>1. ASSUME NEW j \in Jobs, Submit(j)  PROVE [Lifecycle!Next]_(Lifecycle!vars)
    <3>1. status[j] = "ABSENT"
      BY <2>1 DEF Submit, OnePlace, RowsFollow, FreshRows, Row
    <3>2. UNCHANGED <<status, retryCount>> \/ Lifecycle!Accept(j)
      BY <2>1, <3>1 DEF Submit, InsertRow, SetStatus, Call, Lifecycle!Accept, Lifecycle!Move
    <3> QED  BY <3>2, MoveImplements, StillImplements
  <2>2. \A j \in Jobs : ~MarkFailed(j) /\ ~RecordFailure(j)
    BY DEF Known, NoCompensation, MarkFailed, RecordFailure, At
  <2> QED  BY <1>1, <2>1, <2>2, StillImplements DEF GatewayNext, GatewayCrash, Request, Enqueue,
                                                    ReadDepth
<1>2. CASE WorkerNext
  <2>1. ASSUME NEW w \in Workers, StartWorker(w) \/ Live(w)  PROVE UNCHANGED <<status, retryCount>>
    BY <2>1, LiveTouchesNothing
  <2>2. ASSUME NEW k \in Jobs, OrphanExits(k)  PROVE UNCHANGED <<status, retryCount>>
    BY <2>2 DEF OrphanExits, SandboxOnly
  <2> QED  BY <1>2, <2>1, <2>2, StillImplements, WorkerImplements DEF WorkerNext
<1>3. CASE MonitorNext
  <2>1. ASSUME NEW m \in Monitors, Startup(m)  PROVE FALSE
    BY <2>1 DEF OnePlace, NoRestart, Startup, StartMonitor, ResetRunning, MonitorReadDepth,
                SelectPending, Hydrate, StartupSteps
  <2>2. ASSUME NEW m \in Monitors, Scan(m) \/ MonitorCrash(m)
        PROVE  UNCHANGED <<status, retryCount>>
    BY <2>2, ScanTouchesNothing
  <2>3. LockExpires => UNCHANGED <<status, retryCount>>
    BY DEF LockExpires
  <2> QED  BY <1>3, <2>1, <2>2, <2>3, StillImplements, RecoverImplements DEF MonitorNext
<1>4. CASE UNCHANGED vars
  BY <1>4, StillImplements DEF vars, storeVars
<1> QED  BY <1>1, <1>2, <1>3, <1>4 DEF Next

\* ImplementsLifecycle: whatever workers and gateways do or fail to do, a job
\* moves as JobLifecycle says: claimed from PENDING, put back with one retry
\* more and never more than MaxRetry, abandoned only at its last attempt,
\* decided once (ALLOWED_TRANSITIONS of the contracts, and the UPDATEs of
\* requeueWithBackoff, sendToDLQ and recoverJobsFromDeadWorker).
THEOREM ImplementsLifecycleSafe ==
  ASSUME OnlyWorkersFail, RetriesOrCrashes
  PROVE  Spec => ImplementsLifecycle
<1>1. Init => Lifecycle!Init
  BY DEF Init, StoreInit, Lifecycle!Init
<1>2. Known /\ OnePlace /\ [Next]_vars => [Lifecycle!Next]_(Lifecycle!vars)
  BY StepImplements
<1> QED  BY <1>1, <1>2, OnePlaceHolds, PTL DEF Spec, ImplementsLifecycle, Lifecycle!Spec

(***************************************************************************)
(* Dead letters. Who is about to file a job has buried it in the database, *)
(* and nobody has filed it before.                                         *)
(***************************************************************************)
Buried(j) == status[j] = "FAILED" /\ results[j].category = "WORKER_CRASH"
Filed(j)  == \E e \in ToSet(deadLetter) : e.job = j

LettersInOrder ==
  /\ NoTwins(deadLetter)
  /\ \A j \in Jobs : Filed(j) => Buried(j)
  /\ \A w \in Workers : workerAt[w] = "dlq_push" => Buried(CurrentJob(w)) /\ ~Filed(CurrentJob(w))
  /\ \A m \in Monitors : monitorAt[m] = "dlq_push" => Buried(Orphan(m).job) /\ ~Filed(Orphan(m).job)

LEMMA BuriedStays ==
  ASSUME OnlyWorkersFail, RetriesOrCrashes, Known, OnePlace, [Next]_vars, NEW j \in Jobs, Buried(j)
  PROVE  Buried(j)'
<1>1. Decided(j)
  BY DEF Buried, Decided, IsTerminalStatus, TerminalStatuses
<1> QED  BY <1>1, DecidedStays DEF SameRows, Buried

LEMMA DbBuries ==
  ASSUME StoreTypeOK, NEW j \in Jobs, DeadLetterInDb(j)
  PROVE  Buried(j)'
BY DEF StoreTypeOK, StatusTable, ResultTable, DeadLetterInDb, SetStatus, UpsertResult, Buried

\* A worker comes to the LPUSH of sendToDLQ from its transaction only.
LEMMA WorkerComesToFile ==
  ASSUME OnlyWorkersFail, TypeOK, NEW w \in Workers, Loop(w), workerAt'[w] = "dlq_push"
  PROVE  DlqPersist(w) /\ DeadLetterInDb(CurrentJob(w)) /\ UNCHANGED <<current, deadLetter>>
<1> USE DEF Goto, Proceed, NextIteration, Call, Disrupted, OnlyWorkersFail
<1>0. workerAt \in [Workers -> {"pop"} \union Busy \union Inert]
  BY DEF TypeOK, WorkerTypeOK
<1>1. DlqPersist(w)
  BY <1>0
     DEF Loop, Take, Pop, PopTimesOut, Claim, Check, GiveBack, Discard, RunJob,
         RemoveStaleContainer, StartContainer, ContainerExits, Conclude, Persist, Acknowledge,
         PublishCompletion, PutBack, Requeue, PushRetry, RemoveOld, GiveUp, RemoveExhausted,
         DlqPush, DlqPublish
<1> QED  BY <1>1 DEF DlqPersist, DbOnly, redisVars, queueVars

LEMMA MonitorComesToFile ==
  ASSUME OnlyWorkersFail, TypeOK, NEW m \in Monitors,
         Startup(m) \/ Scan(m) \/ Recover(m) \/ MonitorCrash(m), monitorAt'[m] = "dlq_push"
  PROVE  MonitorDlqPersist(m) /\ DeadLetterInDb(Orphan(m).job) /\ UNCHANGED <<orphans, deadLetter>>
<1> USE DEF MonitorGoto, MonitorProceeds, ScanFails, Exits, NextOrphan, Call, Disrupted,
            OnlyWorkersFail
<1>0. monitorAt \in [Monitors -> MonitorSteps]
  BY MonitorTypeAt DEF TypeOK
<1>1. MonitorDlqPersist(m)
  BY <1>0
     DEF Startup, StartMonitor, ResetRunning, MonitorReadDepth, SelectPending, Hydrate, Scan,
         AcquireLock, ScanQueues, ScanHeartbeats, PickWorker, ReleaseLock, Recover, ReadStatus,
         MarkPending, PushRecovered, MonitorDlqPush, DeleteQueue, MonitorCrash, StartupSteps
<1> QED  BY <1>1 DEF MonitorDlqPersist, redisVars, queueVars, scanVars

\* No other step of theirs touches the list.
LEMMA WorkerFiles ==
  ASSUME TypeOK, NEW w \in Workers, Loop(w), deadLetter' # deadLetter
  PROVE  /\ workerAt[w] = "dlq_push" /\ workerAt'[w] # "dlq_push" /\ UNCHANGED dbVars
         /\ deadLetter' = LPush(deadLetter, current[w])
<1> USE DEF Goto, Proceed, NextIteration, Call
<1>0. workerAt \in [Workers -> {"pop"} \union Busy \union Inert]
  BY DEF TypeOK, WorkerTypeOK
<1>1. DlqPush(w)
  BY DEF Loop, Take, Pop, PopTimesOut, Claim, Check, GiveBack, Discard, RunJob,
         RemoveStaleContainer, StartContainer, ContainerExits, Conclude, Persist, Acknowledge,
         PublishCompletion, PutBack, Requeue, PushRetry, RemoveOld, GiveUp, RemoveExhausted,
         DlqPersist, DlqPublish, RedisOnly, DbOnly, SandboxOnly, PublishOnly, KeepsQueues,
         queueVars, redisVars
<1> QED  BY <1>0, <1>1 DEF DlqPush, RedisOnly

LEMMA MonitorFiles ==
  ASSUME OnlyWorkersFail, TypeOK, Safekept, NEW m \in Monitors,
         Startup(m) \/ Scan(m) \/ Recover(m) \/ MonitorCrash(m), deadLetter' # deadLetter
  PROVE  /\ monitorAt[m] = "dlq_push" /\ monitorAt'[m] # "dlq_push" /\ UNCHANGED dbVars
         /\ deadLetter' = LPush(deadLetter, Orphan(m))
<1> USE DEF MonitorGoto, MonitorProceeds, ScanFails, NextOrphan, Call, Disrupted, OnlyWorkersFail
<1>0. monitorAt \in [Monitors -> MonitorSteps]
  BY MonitorTypeAt DEF TypeOK
<1>1. MonitorDlqPush(m)
  BY ScanTouchesNothing
     DEF Startup, StartMonitor, ResetRunning, MonitorReadDepth, SelectPending, Hydrate, Recover,
         ReadStatus, MarkPending, PushRecovered, MonitorDlqPersist, DeleteQueue, queueVars, redisVars
<1> QED  BY <1>0, <1>1 DEF MonitorDlqPush

\* Filing one more letter, and filing none.
LEMMA LetterFiled ==
  ASSUME StoreTypeOK, NoTwins(deadLetter), NEW e \in QueuePayload,
         ~Filed(e.job), deadLetter' = LPush(deadLetter, e)
  PROVE  NoTwins(deadLetter') /\ \A j \in Jobs : Filed(j)' => Filed(j) \/ j = e.job
<1>1. ToSet(deadLetter') = ToSet(deadLetter) \union {e}
  BY PushAndPop DEF StoreTypeOK
<1>2. NoTwins(deadLetter')
  BY TwinsPushed DEF StoreTypeOK, Filed
<1> QED  BY <1>1, <1>2 DEF Filed

LEMMA WorkersFileInOrder ==
  ASSUME OnlyWorkersFail, RetriesOrCrashes, Known, OnePlace, LettersInOrder, [Next]_vars,
         NEW w \in Workers, Loop(w), UNCHANGED monitorVars
  PROVE  LettersInOrder'
<1>0. TypeOK /\ StoreTypeOK /\ WorkerTypeOK /\ Alive(w)
  BY LoopLives DEF Known, TypeOK
<1>1. \A v \in Workers : v # w => workerAt'[v] = workerAt[v] /\ CurrentJob(v)' = CurrentJob(v)
  BY <1>0, OneWorkerMoves DEF CurrentJob
<1>2. \A v \in Workers : workerAt[v] = "dlq_push" =>
                           /\ CurrentJob(v) \in Jobs /\ current[v] \in QueuePayload
                           /\ Works(v, CurrentJob(v))
  BY <1>0, BusyHolds, PlacePoints DEF Works
<1>3. \A m \in Monitors : /\ monitorAt'[m] = monitorAt[m] /\ Orphan(m)' = Orphan(m)
                          /\ monitorAt[m] = "dlq_push" => Orphan(m).job \in Jobs
  BY <1>0, MonitorHolds, MonitorPoints DEF monitorVars, scanVars, Orphan, TypeOK
<1>4. CASE deadLetter' = deadLetter
  <2>1. \A j : Filed(j)' <=> Filed(j)
    BY <1>4 DEF Filed
  <2>2. ASSUME workerAt'[w] = "dlq_push"
        PROVE  Buried(CurrentJob(w))' /\ ~Filed(CurrentJob(w))'
    <3>1. /\ DlqPersist(w) /\ DeadLetterInDb(CurrentJob(w)) /\ CurrentJob(w)' = CurrentJob(w)
      BY <1>0, <2>2, WorkerComesToFile DEF CurrentJob
    <3>2. /\ CurrentJob(w) \in Jobs /\ status[CurrentJob(w)] = "RUNNING"
      BY <1>0, <3>1, BusyHolds, PlacePoints DEF DlqPersist, OnePlace, RowsFollow, WorkerRow, Row
    <3>3. Buried(CurrentJob(w))'
      BY <1>0, <3>1, <3>2, DbBuries DEF Buried
    <3>4. ~Filed(CurrentJob(w))
      BY <3>2 DEF LettersInOrder, Buried
    <3> QED  BY <2>1, <3>1, <3>3, <3>4 DEF Filed
  <2>3. ASSUME NEW v \in Workers, v # w, workerAt'[v] = "dlq_push"
        PROVE  Buried(CurrentJob(v))' /\ ~Filed(CurrentJob(v))'
    <3>1. PICK j \in Jobs : j = CurrentJob(v) /\ j = CurrentJob(v)' /\ workerAt[v] = "dlq_push"
      BY <1>1, <1>2, <2>3
    <3>2. Buried(j)' /\ ~Filed(j)'
      BY <2>1, <3>1, BuriedStays DEF LettersInOrder
    <3> QED  BY <3>1, <3>2 DEF Buried, Filed
  <2>4. ASSUME NEW m \in Monitors, monitorAt'[m] = "dlq_push"
        PROVE  Buried(Orphan(m).job)' /\ ~Filed(Orphan(m).job)'
    <3>1. PICK j \in Jobs : j = Orphan(m).job /\ j = Orphan(m)'.job /\ monitorAt[m] = "dlq_push"
      BY <1>3, <2>4
    <3>2. Buried(j)' /\ ~Filed(j)'
      BY <2>1, <3>1, BuriedStays DEF LettersInOrder
    <3> QED  BY <3>1, <3>2 DEF Buried, Filed
  <2>5. \A j \in Jobs : Filed(j)' => Buried(j)'
    BY <2>1, BuriedStays DEF LettersInOrder
  <2> QED  BY <1>4, <2>2, <2>3, <2>4, <2>5 DEF LettersInOrder, NoTwins
<1>5. CASE deadLetter' # deadLetter
  <2>1. /\ workerAt[w] = "dlq_push" /\ workerAt'[w] # "dlq_push"
        /\ deadLetter' = LPush(deadLetter, current[w])
    BY <1>0, <1>5, WorkerFiles
  <2>2. PICK e \in QueuePayload : e = current[w] /\ e.job = CurrentJob(w) /\ e.job \in Jobs
    BY <1>2, <2>1 DEF CurrentJob
  <2>3. NoTwins(deadLetter') /\ \A j \in Jobs : Filed(j)' => Filed(j) \/ j = e.job
    BY <1>0, <2>1, <2>2, LetterFiled DEF LettersInOrder
  <2>4. \A j \in Jobs : Filed(j)' => Buried(j)'
    BY <2>1, <2>2, <2>3, BuriedStays DEF LettersInOrder
  <2>5. ASSUME NEW v \in Workers, workerAt'[v] = "dlq_push"
        PROVE  Buried(CurrentJob(v))' /\ ~Filed(CurrentJob(v))'
    <3>1. PICK j \in Jobs : /\ j = CurrentJob(v) /\ j = CurrentJob(v)' /\ workerAt[v] = "dlq_push"
                            /\ v # w
      BY <1>1, <1>2, <2>1, <2>5
    <3>2. j # e.job
      BY <1>2, <2>1, <2>2, <3>1 DEF OnePlace, Exclusive, Keeps
    <3>3. Buried(j)' /\ ~Filed(j)'
      BY <2>3, <3>1, <3>2, BuriedStays DEF LettersInOrder
    <3> QED  BY <3>1, <3>3 DEF Buried, Filed
  <2>6. ASSUME NEW m \in Monitors, monitorAt'[m] = "dlq_push"
        PROVE  Buried(Orphan(m).job)' /\ ~Filed(Orphan(m).job)'
    <3>1. PICK j \in Jobs : j = Orphan(m).job /\ j = Orphan(m)'.job /\ monitorAt[m] = "dlq_push"
      BY <1>3, <2>6
    <3>2. j # e.job
      BY <1>0, <1>2, <2>1, <2>2, <3>1, WorksAlone, MonitorPoints
    <3>3. Buried(j)' /\ ~Filed(j)'
      BY <2>3, <3>1, <3>2, BuriedStays DEF LettersInOrder
    <3> QED  BY <3>1, <3>3 DEF Buried, Filed
  <2> QED  BY <2>3, <2>4, <2>5, <2>6 DEF LettersInOrder
<1> QED  BY <1>4, <1>5

LEMMA MonitorsFileInOrder ==
  ASSUME OnlyWorkersFail, RetriesOrCrashes, Known, OnePlace, LettersInOrder, [Next]_vars,
         NEW m \in Monitors, Startup(m) \/ Scan(m) \/ Recover(m) \/ MonitorCrash(m),
         UNCHANGED workerVars
  PROVE  LettersInOrder'
<1>0. TypeOK /\ StoreTypeOK /\ WorkerTypeOK /\ MonitorTypeOK /\ Safekept
  BY DEF Known, TypeOK
<1>1. \A n \in Monitors : n # m => monitorAt'[n] = monitorAt[n] /\ Orphan(n)' = Orphan(n)
  BY <1>0, OneMonitorHolds DEF Orphan
<1>2. \A n \in Monitors : monitorAt[n] = "dlq_push" =>
                            Orphan(n) \in QueuePayload /\ Orphan(n).job \in Jobs
  BY <1>0, MonitorHolds, MonitorPoints
<1>3. \A v \in Workers : /\ workerAt'[v] = workerAt[v] /\ CurrentJob(v)' = CurrentJob(v)
                         /\ workerAt[v] = "dlq_push" => CurrentJob(v) \in Jobs
  BY <1>0, BusyHolds, PlacePoints DEF workerVars, CurrentJob
<1>4. CASE deadLetter' = deadLetter
  <2>1. \A j : Filed(j)' <=> Filed(j)
    BY <1>4 DEF Filed
  <2>2. ASSUME monitorAt'[m] = "dlq_push"
        PROVE  Buried(Orphan(m).job)' /\ ~Filed(Orphan(m).job)'
    <3>1. /\ MonitorDlqPersist(m) /\ DeadLetterInDb(Orphan(m).job) /\ Orphan(m)' = Orphan(m)
      BY <1>0, <2>2, MonitorComesToFile DEF Orphan
    <3>2. PICK j \in Jobs : j = Orphan(m).job /\ j = Orphan(m)'.job
      BY <1>0, <3>1, MonitorHolds, MonitorPoints DEF MonitorDlqPersist
    <3>3. ~Decided(j)
      BY <3>1, <3>2 DEF MonitorDlqPersist, OnePlace, RowsFollow, MonitorRow
    <3>4. Buried(j)'
      BY <1>0, <3>1, <3>2, DbBuries
    <3>5. ~Filed(j)'
      BY <2>1, <3>3 DEF LettersInOrder, Buried, Decided, IsTerminalStatus, TerminalStatuses
    <3> QED  BY <3>2, <3>4, <3>5 DEF Buried, Filed
  <2>3. ASSUME NEW n \in Monitors, n # m, monitorAt'[n] = "dlq_push"
        PROVE  Buried(Orphan(n).job)' /\ ~Filed(Orphan(n).job)'
    <3>1. PICK j \in Jobs : j = Orphan(n).job /\ j = Orphan(n)'.job /\ monitorAt[n] = "dlq_push"
      BY <1>1, <1>2, <2>3
    <3>2. Buried(j)' /\ ~Filed(j)'
      BY <2>1, <3>1, BuriedStays DEF LettersInOrder
    <3> QED  BY <3>1, <3>2 DEF Buried, Filed
  <2>4. ASSUME NEW v \in Workers, workerAt'[v] = "dlq_push"
        PROVE  Buried(CurrentJob(v))' /\ ~Filed(CurrentJob(v))'
    <3>1. PICK j \in Jobs : j = CurrentJob(v) /\ j = CurrentJob(v)' /\ workerAt[v] = "dlq_push"
      BY <1>3, <2>4
    <3>2. Buried(j)' /\ ~Filed(j)'
      BY <2>1, <3>1, BuriedStays DEF LettersInOrder
    <3> QED  BY <3>1, <3>2 DEF Buried, Filed
  <2>5. \A j \in Jobs : Filed(j)' => Buried(j)'
    BY <2>1, BuriedStays DEF LettersInOrder
  <2> QED  BY <1>4, <2>2, <2>3, <2>4, <2>5 DEF LettersInOrder, NoTwins
<1>5. CASE deadLetter' # deadLetter
  <2>1. /\ monitorAt[m] = "dlq_push" /\ monitorAt'[m] # "dlq_push"
        /\ deadLetter' = LPush(deadLetter, Orphan(m))
    BY <1>0, <1>5, MonitorFiles
  <2>2. PICK e \in QueuePayload : e = Orphan(m) /\ e.job \in Jobs
    BY <1>2, <2>1
  <2>3. NoTwins(deadLetter') /\ \A j \in Jobs : Filed(j)' => Filed(j) \/ j = e.job
    BY <1>0, <2>1, <2>2, LetterFiled DEF LettersInOrder
  <2>4. \A j \in Jobs : Filed(j)' => Buried(j)'
    BY <2>1, <2>2, <2>3, BuriedStays DEF LettersInOrder
  <2>5. ASSUME NEW n \in Monitors, monitorAt'[n] = "dlq_push"  PROVE FALSE
    <3>1. n # m /\ monitorAt[n] = "dlq_push"
      BY <1>1, <2>1, <2>5
    <3>2. Scanning(n) /\ Scanning(m)
      BY <2>1, <3>1 DEF Scanning, ScanSteps, RecoverSteps
    <3> QED  BY <1>0, <3>1, <3>2 DEF Safekept, LockHeld
  <2>6. ASSUME NEW v \in Workers, workerAt'[v] = "dlq_push"  PROVE FALSE
    BY <1>3, <2>1, <2>6, OrphanIsLeft, MonitorPoints DEF Requeuing
  <2> QED  BY <2>3, <2>4, <2>5, <2>6 DEF LettersInOrder
<1> QED  BY <1>4, <1>5

LEMMA NobodyFiles ==
  ASSUME OnlyWorkersFail, RetriesOrCrashes, Known, OnePlace, LettersInOrder, [Next]_vars,
         UNCHANGED deadLetter,
         \A v \in Workers : workerAt'[v] = "dlq_push" =>
                              workerAt[v] = "dlq_push" /\ current'[v] = current[v],
         UNCHANGED monitorVars
  PROVE  LettersInOrder'
<1>0. TypeOK /\ WorkerTypeOK /\ MonitorTypeOK
  BY DEF Known, TypeOK
<1>1. \A j : Filed(j)' <=> Filed(j)
  BY DEF Filed
<1>2. ASSUME NEW v \in Workers, workerAt'[v] = "dlq_push"
      PROVE  Buried(CurrentJob(v))' /\ ~Filed(CurrentJob(v))'
  <2>1. PICK j \in Jobs : j = CurrentJob(v) /\ j = CurrentJob(v)' /\ workerAt[v] = "dlq_push"
    BY <1>0, <1>2, BusyHolds, PlacePoints DEF CurrentJob
  <2>2. Buried(j)' /\ ~Filed(j)'
    BY <1>1, <2>1, BuriedStays DEF LettersInOrder
  <2> QED  BY <2>1, <2>2 DEF Buried, Filed
<1>3. ASSUME NEW n \in Monitors, monitorAt'[n] = "dlq_push"
      PROVE  Buried(Orphan(n).job)' /\ ~Filed(Orphan(n).job)'
  <2>1. PICK j \in Jobs : j = Orphan(n).job /\ j = Orphan(n)'.job /\ monitorAt[n] = "dlq_push"
    BY <1>0, <1>3, MonitorHolds, MonitorPoints DEF Orphan, monitorVars, scanVars
  <2>2. Buried(j)' /\ ~Filed(j)'
    BY <1>1, <2>1, BuriedStays DEF LettersInOrder
  <2> QED  BY <2>1, <2>2 DEF Buried, Filed
<1>4. \A j \in Jobs : Filed(j)' => Buried(j)'
  BY <1>1, BuriedStays DEF LettersInOrder
<1> QED  BY <1>2, <1>3, <1>4 DEF LettersInOrder, NoTwins

LEMMA LettersStayInOrder ==
  ASSUME OnlyWorkersFail, RetriesOrCrashes, Known, OnePlace, LettersInOrder, [Next]_vars
  PROVE  LettersInOrder'
<1>1. CASE GatewayNext /\ UNCHANGED <<workerVars, monitorVars>>
  BY <1>1, NobodyFiles
     DEF GatewayNext, Request, GatewayCrash, Submit, Enqueue, ReadDepth, MarkFailed, RecordFailure,
         redisVars, queueVars, workerVars
<1>2. CASE WorkerNext /\ UNCHANGED monitorVars
  <2>1. ASSUME NEW w \in Workers, StartWorker(w) \/ Live(w)  PROVE LettersInOrder'
    <3>1. \A v \in Workers : v # w => workerAt'[v] = workerAt[v] /\ current'[v] = current[v]
      BY <2>1, OneWorkerMoves DEF Known, TypeOK
    <3>2. workerAt'[w] \in {"pop", "crashed"} \/ UNCHANGED <<workerAt, current>>
      BY <2>1 DEF StartWorker, Live, SendHeartbeat, HeartbeatExpires, Sigterm, WorkerCrash, Known,
                  TypeOK, WorkerTypeOK, Goto, Proceed, workerVars
    <3>3. UNCHANGED deadLetter
      BY <2>1, LiveTouchesNothing DEF queueVars
    <3> QED  BY <1>2, <3>1, <3>2, <3>3, NobodyFiles
  <2>2. ASSUME NEW k \in Jobs, OrphanExits(k)  PROVE LettersInOrder'
    BY <1>2, <2>2, NobodyFiles DEF OrphanExits, SandboxOnly, redisVars, queueVars
  <2> QED  BY <1>2, <2>1, <2>2, WorkersFileInOrder DEF WorkerNext
<1>3. CASE MonitorNext /\ UNCHANGED workerVars
  <2>1. CASE LockExpires
    BY <1>3, <2>1, NobodyFiles DEF LockExpires, queueVars, workerVars
  <2> QED  BY <1>3, <2>1, MonitorsFileInOrder DEF MonitorNext
<1>4. CASE UNCHANGED vars
  BY <1>4, NobodyFiles DEF vars, storeVars, redisVars, queueVars, workerVars
<1> QED  BY <1>1, <1>2, <1>3, <1>4 DEF Next

\* DeadLettersAgree: a dead letter names a job that its last attempt gave up,
\* stored as FAILED with WORKER_CRASH, and a job is filed once, whether a
\* worker gives it up (sendToDLQ) or the reaper (recoverJobsFromDeadWorker).
THEOREM DeadLettersAgreeSafe ==
  ASSUME OnlyWorkersFail, RetriesOrCrashes
  PROVE  Spec => []DeadLettersAgree
<1>1. Init => LettersInOrder
  <2> SUFFICES ASSUME Init  PROVE LettersInOrder
    OBVIOUS
  <2>1. /\ deadLetter = <<>> /\ ToSet(deadLetter) = {}
        /\ \A w \in Workers : workerAt[w] = "off"
        /\ \A m \in Monitors : monitorAt[m] = "asleep"
    BY DEF Init, StoreInit, WorkerInit, MonitorInit, ToSet
  <2> QED  BY <2>1 DEF LettersInOrder, NoTwins, Filed
<1>2. Known /\ OnePlace /\ LettersInOrder /\ [Next]_vars => LettersInOrder'
  BY LettersStayInOrder
<1>3. Known /\ LettersInOrder => DeadLettersAgree
  <2> SUFFICES ASSUME Known, LettersInOrder  PROVE DeadLettersAgree
    OBVIOUS
  <2>1. ASSUME NEW e \in ToSet(deadLetter)
        PROVE  e.retry = MaxRetry /\ status[e.job] = "FAILED"
               /\ results[e.job].category = "WORKER_CRASH"
    <3>1. e.job \in Jobs /\ Filed(e.job)
      BY DeadLettersAreEntries DEF Known, TypeOK, Filed
    <3> QED  BY <3>1 DEF Known, OutcomeInOrder, ResultComesFirst, LettersInOrder, Buried
  <2> QED  BY <2>1 DEF DeadLettersAgree, LettersInOrder, NoTwins
<1> QED  BY <1>1, <1>2, <1>3, OnePlaceHolds, PTL DEF Spec

(***************************************************************************)
(* While it is calls that fail and no worker ends: PostgreSQL refuses or   *)
(* loses a reply, docker does not start a container, gateways die and the  *)
(* reaper's lock expires. An attempt whose COMMIT lost its reply is put    *)
(* back then, so a decided row may change; but a job still is in one place *)
(* at a time, and what was announced or filed is left alone.               *)
(***************************************************************************)
OnlyCallsFail ==
  Disruptions \subseteq {"db_error", "spawn_error", "gateway_crash", "lock_expiry"}

OnDuty(w) == shouldRun[w] /\ ~Gone(w)
AllOnDuty == \A w \in Workers : OnDuty(w)

CallRow(w) ==
  /\ Claims(w) /\ PushesAgreed(w)
  /\ workerAt[w] = "claim" => Row(CurrentJob(w), "PENDING", current[w].retry)
  /\ workerAt[w] \in Deciding => Decided(CurrentJob(w))
  /\ workerAt[w] = "dlq_push" => Buried(CurrentJob(w))

\* The one place a job is at, and what its row says there.
Placed == /\ Exclusive /\ FreshRows /\ QueueAgreesWithRows
          /\ \A w \in Workers : CallRow(w)

\* A job that nobody will touch again, but to announce its dead letter.
Closed(j) == /\ ~Fresh(j) /\ ~Waits(j)
             /\ \A w \in Workers : Works(w, j) => workerAt[w] = "dlq_publish"

Outcomes ==
  /\ NoTwins(deadLetter)
  /\ \A j \in Jobs : (completion[j] => Decided(j) /\ Closed(j)) /\ (Filed(j) => Buried(j) /\ Closed(j))

Learnt == TypeOK /\ SuspectsGone /\ NoCompensation
Steady == NoRestart /\ AllOnDuty /\ Placed /\ Outcomes /\ Named

\* No worker ends: SIGTERM and death are what ends one.
LEMMA DutyStays ==
  ASSUME OnlyCallsFail, TypeOK, AllOnDuty, [Next]_vars
  PROVE  AllOnDuty'
<1>1. CASE UNCHANGED workerVars
  BY <1>1 DEF workerVars, AllOnDuty, OnDuty, Gone
<1>2. ASSUME NEW w \in Workers, StartWorker(w) \/ Live(w) \/ Loop(w)
      PROVE  AllOnDuty'
  <2>1. UNCHANGED shouldRun
    BY <1>2
       DEF StartWorker, Live, SendHeartbeat, HeartbeatExpires, Sigterm, WorkerCrash, workerVars,
           Loop, Take, Pop, PopTimesOut, Claim, Check, GiveBack, Discard, RunJob,
           RemoveStaleContainer, StartContainer, ContainerExits, Conclude, Persist, Acknowledge,
           PublishCompletion, PutBack, Requeue, PushRetry, RemoveOld, GiveUp, RemoveExhausted,
           DlqPersist, DlqPush, DlqPublish, RedisOnly, DbOnly, SandboxOnly, PublishOnly, KeepsWorld,
           Disrupted, OnlyCallsFail
  <2>2. workerAt'[w] \notin {"stopped", "crashed"}
    <3>0. shouldRun[w] /\ ~Gone(w) /\ workerAt \in [Workers -> {"pop"} \union Busy \union Inert]
      BY DEF AllOnDuty, OnDuty, TypeOK, WorkerTypeOK
    <3>1. CASE StartWorker(w) \/ Live(w)
      BY <3>0, <3>1
         DEF StartWorker, Live, SendHeartbeat, HeartbeatExpires, Sigterm, WorkerCrash, workerVars,
             Disrupted, OnlyCallsFail, Gone, Proceed, Goto
    <3>2. CASE Loop(w)
      BY <3>0, <3>2
         DEF Loop, Take, Pop, PopTimesOut, Claim, Check, GiveBack, Discard, RunJob,
             RemoveStaleContainer, StartContainer, ContainerExits, Conclude, Persist, Acknowledge,
             PublishCompletion, PutBack, Requeue, PushRetry, RemoveOld, GiveUp, RemoveExhausted,
             DlqPersist, DlqPush, DlqPublish, Call, Proceed, Goto, NextIteration
    <3> QED  BY <1>2, <3>1, <3>2
  <2>3. \A v \in Workers : v # w => workerAt'[v] = workerAt[v]
    BY <1>2, OneWorkerMoves DEF TypeOK
  <2> QED  BY <2>1, <2>2, <2>3 DEF AllOnDuty, OnDuty, Gone
<1>3. ASSUME NEW j \in Jobs, OrphanExits(j)
      PROVE  AllOnDuty'
  BY <1>3 DEF OrphanExits, SandboxOnly, AllOnDuty, OnDuty, Gone
<1> QED  BY <1>1, <1>2, <1>3 DEF Next, WorkerNext, vars

\* So a monitor finds nothing to recover, and scans without an effect.
LEMMA MonitorsIdle ==
  ASSUME OnlyCallsFail, TypeOK, SuspectsGone, NoRestart, AllOnDuty, MonitorNext
  PROVE  NoRestart' /\ UNCHANGED <<dbVars, queueVars, completion>>
<1>1. CASE LockExpires
  BY <1>1 DEF LockExpires, NoRestart, monitorVars
<1>2. ASSUME NEW m \in Monitors, Startup(m) \/ Scan(m) \/ Recover(m) \/ MonitorCrash(m)
      PROVE  NoRestart' /\ UNCHANGED <<dbVars, queueVars, completion>>
  <2>1. ~Recovering(m)
    <3>1. Recovering(m) => target[m] \in Workers
      BY MonitorTypeAt DEF TypeOK, Recovering
    <3> QED  BY <3>1 DEF SuspectsGone, AllOnDuty, OnDuty
  <2>2. ~Startup(m) /\ ~Recover(m) /\ ~MonitorCrash(m)
    BY <2>1
       DEF NoRestart, StartupSteps, Startup, StartMonitor, ResetRunning, MonitorReadDepth,
           SelectPending, Hydrate, Recover, ReadStatus, MarkPending, PushRecovered,
           MonitorDlqPersist, MonitorDlqPush, DeleteQueue, MonitorCrash, Recovering, RecoverSteps,
           Disrupted, OnlyCallsFail
  <2>3. monitorAt'[m] \notin {"down"} \union StartupSteps
    <3>1. monitorAt \in [Monitors -> MonitorSteps]
      BY MonitorTypeAt DEF TypeOK
    <3> QED  BY <1>2, <2>2, <3>1
             DEF Scan, AcquireLock, ScanQueues, ScanHeartbeats, PickWorker, ReleaseLock, Call,
                 Disrupted, OnlyCallsFail, MonitorProceeds, MonitorGoto, ScanFails, StartupSteps
  <2>4. \A n \in Monitors : n # m => monitorAt'[n] = monitorAt[n]
    BY <1>2, OneMonitorHolds DEF TypeOK
  <2>5. UNCHANGED <<dbVars, queueVars, completion>>
    BY <1>2, <2>2, ScanTouchesNothing
  <2> QED  BY <2>3, <2>4, <2>5 DEF NoRestart
<1> QED  BY <1>1, <1>2 DEF MonitorNext

LEMMA CallRowFollows ==
  ASSUME OnlyCallsFail, TypeOK, QueueAgreesWithRows, NEW w \in Workers, CallRow(w), Loop(w)
  PROVE  CallRow(w)'
<1> USE DEF Call, Disrupted, OnlyCallsFail, dbVars, rowVars, Claims, PushesAgreed
<1> USE DEF DbOnly, RedisOnly, SandboxOnly, PublishOnly
<1>0. /\ workerAt \in [Workers -> {"pop"} \union Busy \union Inert]
      /\ current \in [Workers -> QueuePayload \union {NoJob}]
      /\ status \in [Jobs -> RowStates] /\ retryCount \in [Jobs -> 0..MaxRetry]
      /\ verdict[w] \in Verdicts /\ WorkerTypeOK /\ StoreTypeOK
  BY DEF TypeOK, WorkerTypeOK, StoreTypeOK, StatusTable, RetryTable
<1>1. workerAt[w] \in Busy => CurrentJob(w) \in Jobs
  BY <1>0, BusyHolds
<1>2. ASSUME workerAt'[w] \in {"pop", "stopped", "remove_old", "requeue", "dlq_persist",
                               "remove_stale", "start_container", "running", "persist"}
      PROVE  CallRow(w)'
  BY <1>2, PlacePoints DEF CallRow, Deciding
<1>3. CASE Pop(w)
  <2>1. Last(pending) \in ToSet(pending) /\ Last(pending) \in QueuePayload
    BY <1>3, PushAndPop DEF Pop, TypeOK, StoreTypeOK
  <2>2. workerAt'[w] = "claim" /\ current'[w] = Last(pending) /\ UNCHANGED <<status, retryCount>>
    BY <1>0, <1>3 DEF Pop, Goto
  <2>3. Row(Last(pending).job, "PENDING", Last(pending).retry)
    BY <2>1 DEF QueueAgreesWithRows, Row
  <2> QED  BY <2>2, <2>3, PlacePoints DEF CallRow, CurrentJob, Row
<1>4. CASE PopTimesOut(w) \/ PublishCompletion(w) \/ RemoveOld(w) \/ DlqPublish(w)
  <2>1. workerAt'[w] \in {"pop", "stopped"}
    BY <1>0, <1>4 DEF PopTimesOut, PublishCompletion, RemoveOld, DlqPublish, NextIteration, Goto
  <2> QED  BY <1>2, <2>1
<1>5. CASE Claim(w)
  <2>1. workerAt'[w] \in {"remove_stale", "requeue"}
    BY <1>0, <1>5 DEF Claim, CallRow, Row, Proceed, Goto
  <2> QED  BY <1>2, <2>1
<1>6. CASE Check(w) \/ GiveBack(w) \/ Discard(w)
  BY <1>6 DEF Check, GiveBack, Discard, CallRow
<1>7. CASE RunJob(w) \/ RemoveExhausted(w)
  <2>1. workerAt'[w] \in {"start_container", "running", "persist", "requeue", "dlq_persist"}
    BY <1>0, <1>7 DEF RunJob, RemoveStaleContainer, StartContainer, ContainerExits,
                      RemoveExhausted, Proceed, Goto
  <2> QED  BY <1>2, <2>1
<1>8. CASE Persist(w)
  <2>1. CASE Proceed(w, "requeue")
    BY <1>0, <1>2, <2>1 DEF Proceed, Goto
  <2>2. CASE Proceed(w, "acknowledge") /\ SetStatus(CurrentJob(w), FinalStatus(verdict[w]))
    <3>1. /\ workerAt'[w] = "acknowledge" /\ current'[w] = current[w] /\ CurrentJob(w) \in Jobs
          /\ IsTerminalStatus(FinalStatus(verdict[w]))
          /\ status' = [status EXCEPT ![CurrentJob(w)] = FinalStatus(verdict[w])]
      BY <1>0, <1>1, <1>8, <2>2, FinalIsTerminal, BusyPoints DEF Persist, Proceed, Goto, SetStatus
    <3> QED  BY <1>0, <3>1 DEF CallRow, CurrentJob, Decided
  <2> QED  BY <1>8, <2>1, <2>2 DEF Persist
<1>9. CASE DlqPersist(w)
  <2>1. CASE NextIteration(w)
    BY <1>0, <1>2, <2>1 DEF NextIteration, Goto
  <2>2. CASE Proceed(w, "dlq_push") /\ DeadLetterInDb(CurrentJob(w))
    <3>1. PICK j \in Jobs : j = CurrentJob(w)
      BY <1>1, <1>9, BusyPoints DEF DlqPersist
    <3>2. workerAt'[w] = "dlq_push" /\ j = CurrentJob(w)'
      BY <1>0, <2>2, <3>1 DEF Proceed, Goto, CurrentJob
    <3>3. Buried(j)'
      BY <1>0, <2>2, <3>1, DbBuries
    <3>4. Decided(j)'
      BY <3>3 DEF Buried, Decided, IsTerminalStatus, TerminalStatuses
    <3> QED  BY <3>2, <3>3, <3>4 DEF CallRow, Buried, Decided
  <2> QED  BY <1>9, <2>1, <2>2 DEF DlqPersist
<1>10. CASE Acknowledge(w) \/ DlqPush(w)
  <2>1. /\ workerAt[w] \in Deciding /\ workerAt'[w] \in {"publish", "dlq_publish"}
        /\ current'[w] = current[w] /\ UNCHANGED status
    BY <1>0, <1>10, PlacePoints DEF Acknowledge, DlqPush, Proceed, Goto
  <2> QED  BY <2>1 DEF CallRow, CurrentJob, Decided
<1>11. CASE Requeue(w)
  <2>1. CASE NextIteration(w)
    BY <1>0, <1>2, <2>1 DEF NextIteration, Goto
  <2>2. CASE Proceed(w, "push_retry") /\ MarkForRetry(CurrentJob(w), current[w].retry + 1)
    <3>1. /\ workerAt'[w] = "push_retry" /\ current'[w] = current[w] /\ CurrentJob(w) \in Jobs
          /\ status' = [status EXCEPT ![CurrentJob(w)] = "PENDING"]
          /\ retryCount' = [retryCount EXCEPT ![CurrentJob(w)] = current[w].retry + 1]
      BY <1>0, <1>1, <1>11, <2>2, BusyPoints DEF Requeue, MarkForRetry, SetStatus, Proceed, Goto
    <3> QED  BY <1>0, <3>1, PlacePoints DEF CallRow, CurrentJob, Row
  <2> QED  BY <1>11, <2>1, <2>2 DEF Requeue
<1>12. CASE PushRetry(w)
  <2>1. workerAt'[w] = "remove_old"
    BY <1>0, <1>12 DEF PushRetry, Proceed, Goto
  <2> QED  BY <1>2, <2>1
<1> QED  BY <1>3, <1>4, <1>5, <1>6, <1>7, <1>8, <1>9, <1>10, <1>11, <1>12
         DEF Loop, Take, Conclude, PutBack, GiveUp

LEMMA CallRowStays ==
  ASSUME TypeOK, NEW v \in Workers, CallRow(v),
         workerAt'[v] = workerAt[v], current'[v] = current[v],
         \A j \in Jobs : Works(v, j) => SameRows(j)
  PROVE  CallRow(v)'
<1>1. CASE workerAt[v] \in {"claim", "push_retry"} \union Deciding
  <2>1. workerAt[v] \in Busy \ {"remove_old"}
    BY <1>1, PlacePoints
  <2>2. CurrentJob(v) \in Jobs /\ SameRows(CurrentJob(v))
    BY <2>1, BusyHolds DEF TypeOK, Works
  <2> QED  BY <2>2 DEF CallRow, Claims, PushesAgreed, Row, Decided, Buried, CurrentJob, SameRows
<1>2. CASE workerAt[v] \notin {"claim", "push_retry"} \union Deciding
  BY <1>2 DEF CallRow, Claims, PushesAgreed, Deciding
<1> QED  BY <1>1, <1>2

LEMMA LoopKeepsPlaced ==
  ASSUME OnlyCallsFail, TypeOK, AllOnDuty, Placed, NEW w \in Workers, Loop(w),
         UNCHANGED <<post, monitorVars>>
  PROVE  Placed'
<1>1. "redis_error" \notin Disruptions /\ Claims(w) /\ PushesAgreed(w)
  BY DEF OnlyCallsFail, Placed, CallRow
<1>2. \A k \in Jobs : ~Works(w, k) => SameRows(k)
  BY WorkerChangesOwn
<1>3. Exclusive' /\ QueueAgreesWithRows'
  BY <1>1, WorkerLoopApart, WorkerQueueFollows DEF Placed
<1>4. FreshRows'
  <2>1. \A j \in Jobs : Fresh(j) => SameRows(j)
    BY <1>2 DEF Placed, Exclusive, Keeps
  <2> QED  BY <2>1 DEF Placed, FreshRows, Fresh, At, Row, SameRows
<1>5. ASSUME NEW v \in Workers, v # w  PROVE CallRow(v)'
  <2>1. \A j \in Jobs : Works(v, j) => SameRows(j)
    BY <1>2, <1>5 DEF Placed, Exclusive, Keeps
  <2> QED  BY <1>5, <2>1, OthersKeep, CallRowStays DEF Placed
<1>6. CallRow(w)'
  BY CallRowFollows DEF Placed
<1> QED  BY <1>3, <1>4, <1>5, <1>6 DEF Placed

\* A step of a worker leaves a closed job alone, row and place.
LEMMA LoopLeavesClosed ==
  ASSUME OnlyCallsFail, TypeOK, NEW w \in Workers, Loop(w), UNCHANGED post,
         NEW j \in Jobs, Closed(j)
  PROVE  SameRows(j) /\ Closed(j)'
<1>0. StoreTypeOK /\ WorkerTypeOK /\ workerAt \in [Workers -> {"pop"} \union Busy \union Inert]
  BY DEF TypeOK, WorkerTypeOK
<1>1. ~Fresh(j)'
  BY DEF Closed, Fresh
<1>2. \A v \in Workers : v # w /\ Works(v, j)' => workerAt'[v] = "dlq_publish"
  BY <1>0, OneWorkerMoves DEF Closed, Works, CurrentJob
<1>3. CASE workerAt[w] \in {"dlq_publish", "remove_old"}
  <2>1. UNCHANGED <<pending, status, retryCount, results>> /\ workerAt'[w] \in {"pop", "stopped"}
    BY <1>0, <1>3
       DEF Loop, Take, Pop, PopTimesOut, Claim, Check, GiveBack, Discard, RunJob,
           RemoveStaleContainer, StartContainer, ContainerExits, Conclude, Persist, Acknowledge,
           PublishCompletion, PutBack, Requeue, PushRetry, RemoveOld, GiveUp, RemoveExhausted,
           DlqPersist, DlqPush, DlqPublish, RedisOnly, PublishOnly, KeepsQueues, queueVars, dbVars,
           rowVars, Call, NextIteration, Goto
  <2>2. ~Works(w, j)'
    BY <2>1, BusyPoints DEF Works, Inert
  <2> QED  BY <1>1, <1>2, <2>1, <2>2 DEF Closed, Waits, SameRows
<1>4. CASE workerAt[w] \notin {"dlq_publish", "remove_old"}
  <2>1. ~Works(w, j) /\ (workerAt[w] \in Busy => CurrentJob(w) # j)
    BY <1>4 DEF Closed, Works
  <2>2. SameRows(j)
    BY <2>1, WorkerChangesOwn
  <2>3. ~Waits(j)'
    BY <1>0, <2>1, WorkerEntries DEF Closed, Waits
  <2>4. ~Works(w, j)'
    BY <1>0, <2>1, WorkerEntries DEF Closed, Waits, Works, CurrentJob
  <2> QED  BY <1>1, <1>2, <2>2, <2>3, <2>4 DEF Closed
<1> QED  BY <1>3, <1>4

(***************************************************************************)
(* What the steps of each process do to places, rows and outcomes.         *)
(***************************************************************************)
LEMMA QuietKeeps ==
  ASSUME TypeOK, AllOnDuty, AllOnDuty', Placed, Outcomes,
         UNCHANGED <<post, pending, deadLetter, status, retryCount, results, completion>>,
         \A v \in Workers : \/ workerAt'[v] = workerAt[v] /\ current'[v] = current[v]
                            \/ workerAt'[v] = "pop"
  PROVE  Placed' /\ Outcomes'
<1>1. \A v \in Workers, j \in Jobs : Works(v, j)' => Works(v, j) /\ workerAt'[v] = workerAt[v]
  BY BusyPoints DEF Works, CurrentJob
<1>2. Exclusive'
  <2>1. \A v \in Workers, j \in Jobs : Keeps(v, j)' => Works(v, j)'
    BY DEF AllOnDuty, OnDuty, Gone, Keeps, Leaves
  <2> QED  BY <1>1, <2>1, StaysApart DEF NoNewPlace, Fresh, Keeps, Placed
<1>3. FreshRows' /\ QueueAgreesWithRows'
  BY DEF Placed, FreshRows, QueueAgreesWithRows, At, Row
<1>4. ASSUME NEW v \in Workers  PROVE CallRow(v)'
  <2>1. CASE workerAt'[v] = workerAt[v] /\ current'[v] = current[v]
    BY <2>1, CallRowStays DEF Placed, SameRows
  <2>2. CASE workerAt'[v] = "pop"
    BY <2>2, PlacePoints DEF CallRow, Claims, PushesAgreed
  <2> QED  BY <2>1, <2>2
<1>5. \A j \in Jobs : Closed(j) => Closed(j)'
  BY <1>1 DEF Closed, Fresh, Waits
<1>6. Outcomes'
  BY <1>5 DEF Outcomes, NoTwins, Filed, Buried, Decided
<1> QED  BY <1>2, <1>3, <1>4, <1>6 DEF Placed

LEMMA LoopKeepsOutcomes ==
  ASSUME OnlyCallsFail, TypeOK, AllOnDuty, Placed, Outcomes, [Next]_vars, NEW w \in Workers, Loop(w),
         UNCHANGED <<post, monitorVars>>
  PROVE  Outcomes'
<1>0. StoreTypeOK /\ WorkerTypeOK /\ workerAt \in [Workers -> {"pop"} \union Busy \union Inert]
  BY DEF TypeOK, WorkerTypeOK
<1>1. \A j \in Jobs : Closed(j) => SameRows(j) /\ Closed(j)'
  BY LoopLeavesClosed
<1>2. ASSUME NEW j \in Jobs, Works(w, j), UNCHANGED pending,
             workerAt'[w] \in {"pop", "stopped", "dlq_publish"}
      PROVE  Closed(j)'
  <2>1. ~Fresh(j)' /\ ~Waits(j)'
    BY <1>2 DEF Placed, Exclusive, Keeps, Fresh, Waits
  <2>2. \A v \in Workers : v # w => ~Works(v, j)'
    BY <1>0, <1>2, OneWorkerMoves DEF Placed, Exclusive, Keeps, Works, CurrentJob
  <2>3. Works(w, j)' => workerAt'[w] = "dlq_publish"
    BY <1>2, BusyPoints DEF Works, Inert
  <2> QED  BY <2>1, <2>2, <2>3 DEF Closed
<1>3. ASSUME NEW j \in Jobs, completion'[j]
      PROVE  Decided(j)' /\ Closed(j)'
  <2>1. CASE completion[j]
    BY <1>1, <2>1 DEF Outcomes, SameRows, Decided
  <2>2. CASE ~completion[j]
    <3>1. PublishCompletion(w) \/ DlqPublish(w)
      BY <1>3, <2>2
         DEF Loop, Take, Pop, PopTimesOut, Claim, Check, GiveBack, Discard, RunJob,
             RemoveStaleContainer, StartContainer, ContainerExits, Conclude, Persist, Acknowledge,
             PutBack, Requeue, PushRetry, RemoveOld, GiveUp, RemoveExhausted, DlqPersist, DlqPush,
             RedisOnly, DbOnly, SandboxOnly, KeepsSignals, redisVars
    <3>2. /\ workerAt[w] \in {"publish", "dlq_publish"} /\ workerAt'[w] \in {"pop", "stopped"}
          /\ UNCHANGED <<pending, status>>
      BY <1>0, <3>1 DEF PublishCompletion, DlqPublish, PublishOnly, KeepsQueues, queueVars, dbVars,
                        rowVars, Call, Disrupted, OnlyCallsFail, NextIteration, Goto
    <3>3. j = CurrentJob(w)
      <4>1. UNCHANGED completion \/ completion' = [completion EXCEPT ![CurrentJob(w)] = TRUE]
        BY <3>1 DEF PublishCompletion, DlqPublish, PublishSystemChunk, Call
      <4> QED  BY <1>0, <1>3, <2>2, <4>1 DEF StoreTypeOK
    <3>4. Works(w, j) /\ workerAt[w] \in Deciding
      BY <3>2, <3>3, BusyPoints, PlacePoints DEF Works
    <3> QED  BY <1>2, <3>2, <3>3, <3>4 DEF Placed, CallRow, Decided
  <2> QED  BY <2>1, <2>2
<1>4. CASE deadLetter' = deadLetter
  <2>1. ASSUME NEW j \in Jobs, Filed(j)'
        PROVE  Buried(j)' /\ Closed(j)'
    BY <1>1, <1>4, <2>1 DEF Outcomes, Filed, SameRows, Buried
  <2> QED  BY <1>3, <1>4, <2>1 DEF Outcomes, NoTwins
<1>5. CASE deadLetter' # deadLetter
  <2>1. /\ workerAt[w] = "dlq_push" /\ UNCHANGED dbVars /\ deadLetter' = LPush(deadLetter, current[w])
    BY <1>5, WorkerFiles
  <2>2. UNCHANGED pending /\ workerAt'[w] = "dlq_publish"
    BY <1>0, <2>1
       DEF Loop, Take, Pop, PopTimesOut, Claim, Check, GiveBack, Discard, RunJob,
           RemoveStaleContainer, StartContainer, ContainerExits, Conclude, Persist, Acknowledge,
           PublishCompletion, PutBack, Requeue, PushRetry, RemoveOld, GiveUp, RemoveExhausted,
           DlqPersist, DlqPush, DlqPublish, Call, Disrupted, OnlyCallsFail, Proceed, Goto
  <2>3. PICK e \in QueuePayload : e = current[w] /\ e.job = CurrentJob(w) /\ e.job \in Jobs
    BY <1>0, <2>1, BusyHolds, PlacePoints DEF CurrentJob
  <2>4. Works(w, e.job) /\ Buried(e.job)
    BY <2>1, <2>3, BusyPoints DEF Works, Placed, CallRow
  <2>5. ~Filed(e.job)
    BY <2>1, <2>3, <2>4 DEF Outcomes, Closed
  <2>6. NoTwins(deadLetter') /\ \A j \in Jobs : Filed(j)' => Filed(j) \/ j = e.job
    BY <1>0, <2>1, <2>3, <2>5, LetterFiled DEF Outcomes
  <2>7. Buried(e.job)' /\ Closed(e.job)'
    BY <1>2, <2>1, <2>2, <2>3, <2>4 DEF Buried, dbVars, rowVars
  <2>8. \A j \in Jobs : Filed(j)' => Buried(j)' /\ Closed(j)'
    BY <1>1, <2>6, <2>7 DEF Outcomes, SameRows, Buried
  <2> QED  BY <1>3, <2>6, <2>8 DEF Outcomes
<1> QED  BY <1>4, <1>5

\* The gateway inserts the row of a job that has none, and pushes the job that
\* has one; what is not fresh it leaves alone.
LEMMA GatewayMoves ==
  ASSUME OnlyCallsFail, TypeOK, NoCompensation, FreshRows, GatewayNext
  PROVE  /\ UNCHANGED <<processing, deadLetter, completion>>
         /\ \A j \in Jobs : (Fresh(j)' => Fresh(j)) /\ (~Fresh(j) => SameRows(j))
         /\ \/ UNCHANGED pending
            \/ \E j \in Jobs : /\ At(j, "enqueue") /\ ~Fresh(j)' /\ EnqueuePending(Entry(j, 0))
                               /\ UNCHANGED <<status, retryCount>>
         /\ FreshRows'
<1> USE DEF Call, Disrupted, OnlyCallsFail, dbVars, rowVars, redisVars, queueVars, At, Advance
<1>0. post \in [Jobs -> PostStates] /\ status \in [Jobs -> RowStates]
  BY DEF TypeOK, GatewayTypeOK, StoreTypeOK, StatusTable
<1>1. CASE GatewayCrash \/ \E j \in Jobs : ReadDepth(j)
  <2>1. /\ UNCHANGED <<status, retryCount, results, pending, processing, deadLetter, completion>>
        /\ \A j \in Jobs : post'[j] \in {"none", "enqueue"} => post'[j] = post[j]
    BY <1>0, <1>1 DEF GatewayCrash, ReadDepth, InFlight
  <2> QED  BY <2>1 DEF Fresh, SameRows, FreshRows, Row
<1>2. ASSUME NEW j \in Jobs, Submit(j)
      PROVE  /\ UNCHANGED <<pending, processing, deadLetter, completion>> /\ FreshRows'
             /\ \A k \in Jobs : (Fresh(k)' => Fresh(k)) /\ (~Fresh(k) => SameRows(k))
  <2>1. /\ post[j] = "none" /\ UNCHANGED <<retryCount, results>>
        /\ UNCHANGED <<pending, processing, deadLetter, completion>>
        /\ \/ /\ post' = [post EXCEPT ![j] = "enqueue"]
              /\ status' = [status EXCEPT ![j] = "PENDING"]
           \/ /\ post' = [post EXCEPT ![j] = "aborted"]
              /\ status' = [status EXCEPT ![j] = "PENDING"] \/ UNCHANGED status
    BY <1>2 DEF Submit, InsertRow, SetStatus
  <2>2. \A k \in Jobs : k # j => post'[k] = post[k] /\ SameRows(k)
    BY <1>0, <2>1 DEF SameRows
  <2>3. post'[j] \in {"enqueue", "aborted"} /\ (post'[j] = "enqueue" => status'[j] = "PENDING")
    BY <1>0, <2>1
  <2>4. retryCount'[j] = 0
    BY <2>1 DEF FreshRows, Row
  <2>5. FreshRows'
    BY <2>2, <2>3, <2>4 DEF FreshRows, Row, SameRows
  <2> QED  BY <2>1, <2>2, <2>5 DEF Fresh
<1>3. ASSUME NEW j \in Jobs, Enqueue(j)
      PROVE  /\ UNCHANGED <<status, retryCount, results, processing, deadLetter, completion>>
             /\ post[j] = "enqueue" /\ post' = [post EXCEPT ![j] = "read_depth"]
             /\ EnqueuePending(Entry(j, 0))
  BY <1>3 DEF Enqueue
<1>4. ASSUME NEW j \in Jobs, Enqueue(j)
      PROVE  /\ FreshRows' /\ ~Fresh(j)'
             /\ \A k \in Jobs : (Fresh(k)' => Fresh(k)) /\ SameRows(k)
  BY <1>0, <1>3, <1>4 DEF FreshRows, Fresh, Row, SameRows
<1>5. \A j \in Jobs : ~MarkFailed(j) /\ ~RecordFailure(j)
  BY DEF NoCompensation, MarkFailed, RecordFailure
<1>6. CASE \E j \in Jobs : Submit(j)
  BY <1>2, <1>6
<1>7. CASE \E j \in Jobs : Enqueue(j)
  BY <1>3, <1>4, <1>7
<1> QED  BY <1>1, <1>5, <1>6, <1>7 DEF GatewayNext, Request

LEMMA GatewayKeepsSteady ==
  ASSUME OnlyCallsFail, TypeOK, NoCompensation, AllOnDuty, Placed, Outcomes, GatewayNext,
         UNCHANGED <<workerVars, monitorVars>>
  PROVE  Placed' /\ Outcomes'
<1>0. UNCHANGED <<workerAt, current, monitorAt, target>>
  BY DEF workerVars, monitorVars, scanVars
<1>1. /\ UNCHANGED <<processing, deadLetter, completion>>
      /\ \A j \in Jobs : (Fresh(j)' => Fresh(j)) /\ (~Fresh(j) => SameRows(j))
      /\ FreshRows'
  BY GatewayMoves DEF Placed
<1>2. /\ \A v \in Workers, j \in Jobs : Keeps(v, j)' <=> Keeps(v, j)
      /\ \A v \in Workers, j \in Jobs : Works(v, j)' <=> Works(v, j)
  BY <1>0, <1>1 DEF Keeps, Works, Leaves, DeletedNext, CurrentJob
<1>3. NoNewPlace
  BY <1>1, <1>2 DEF NoNewPlace
<1>4. ASSUME NEW v \in Workers  PROVE CallRow(v)'
  <2>1. \A j \in Jobs : Works(v, j) => SameRows(j)
    BY <1>1 DEF Placed, Exclusive, Keeps
  <2> QED  BY <1>0, <2>1, CallRowStays DEF Placed
<1>5. \A j \in Jobs : Waits(j) => SameRows(j)
  BY <1>1 DEF Placed, Exclusive
<1>6. CASE UNCHANGED pending
  <2>1. Exclusive'
    BY <1>3, <1>6, StaysApart DEF Placed
  <2>2. QueueAgreesWithRows'
    BY <1>5, <1>6, QueueRowsStay DEF Placed
  <2>3. \A j \in Jobs : Closed(j) => Closed(j)' /\ SameRows(j)
    BY <1>0, <1>1, <1>2, <1>6 DEF Closed, Waits
  <2>4. Outcomes'
    BY <1>1, <2>3 DEF Outcomes, NoTwins, Filed, Buried, Decided, SameRows
  <2> QED  BY <1>1, <1>4, <2>1, <2>2, <2>4 DEF Placed
<1>7. ASSUME NEW j \in Jobs, At(j, "enqueue"), ~Fresh(j)', EnqueuePending(Entry(j, 0)),
             UNCHANGED <<status, retryCount>>
      PROVE  Placed' /\ Outcomes'
  <2>1. PICK e \in QueuePayload : e = Entry(j, 0) /\ e.job = j /\ e.retry = 0
    <3>1. Entry(j, 0) \in QueuePayload /\ Entry(j, 0).job = j /\ Entry(j, 0).retry = 0
      BY MaxRetryAssumption DEF Entry, QueuePayload
    <3> QED  BY <3>1
  <2>2. Fresh(e.job) /\ ~Fresh(e.job)' /\ EnqueuePending(e)
    BY <1>7, <2>1 DEF At, Fresh
  <2>3. \A v \in Workers : ~Keeps(v, e.job)'
    BY <1>2, <2>1, <2>2 DEF Placed, Exclusive
  <2>4. Exclusive'
    BY <1>3, <2>2, <2>3, PushedApart DEF Placed, TypeOK
  <2>5. QueueAgreesWithRows'
    BY <1>7, <2>1, <2>2, PushedAgrees DEF Placed, FreshRows
  <2>6. ToSet(pending') = ToSet(pending) \union {e}
    BY <2>2, PushAndPop DEF TypeOK, StoreTypeOK, EnqueuePending
  <2>7. \A k \in Jobs : Closed(k) => Closed(k)' /\ SameRows(k)
    BY <1>0, <1>1, <1>2, <2>2, <2>6 DEF Closed, Waits
  <2>8. Outcomes'
    BY <1>1, <2>7 DEF Outcomes, NoTwins, Filed, Buried, Decided, SameRows
  <2> QED  BY <1>1, <1>4, <2>4, <2>5, <2>8 DEF Placed
<1> QED  BY <1>6, <1>7, GatewayMoves DEF Placed

LEMMA SteadyStays ==
  ASSUME OnlyCallsFail, Learnt, Steady, [Next]_vars
  PROVE  Steady'
<1>0. TypeOK /\ SuspectsGone /\ NoCompensation /\ AllOnDuty /\ NoRestart /\ Placed /\ Outcomes /\ Named
  BY DEF Learnt, Steady
<1>1. AllOnDuty'
  BY <1>0, DutyStays
<1>2. Named'
  BY <1>0, NamesStay DEF RetriesOrCrashes, OnlyCallsFail, Placed
<1>3. UNCHANGED monitorVars => NoRestart'
  BY <1>0 DEF NoRestart, monitorVars
<1>4. CASE GatewayNext /\ UNCHANGED <<workerVars, monitorVars>>
  BY <1>0, <1>1, <1>2, <1>3, <1>4, GatewayKeepsSteady DEF Steady
<1>5. CASE WorkerNext /\ UNCHANGED <<post, monitorVars>>
  <2>1. ASSUME NEW w \in Workers, Loop(w)  PROVE Placed' /\ Outcomes'
    BY <1>0, <1>5, <2>1, LoopKeepsPlaced, LoopKeepsOutcomes
  <2>2. ASSUME NEW w \in Workers, StartWorker(w) \/ Live(w)  PROVE Placed' /\ Outcomes'
    <3>1. UNCHANGED <<pending, deadLetter, status, retryCount, results, completion>>
      BY <2>2, LiveTouchesNothing DEF dbVars, rowVars, queueVars
    <3>2. workerAt'[w] = "pop" \/ UNCHANGED <<workerAt, current>>
      BY <1>0, <2>2
         DEF TypeOK, WorkerTypeOK, StartWorker, Live, SendHeartbeat, HeartbeatExpires, Sigterm,
             WorkerCrash, Proceed, Goto, workerVars, Disrupted, OnlyCallsFail
    <3>3. \A v \in Workers : v # w => workerAt'[v] = workerAt[v] /\ current'[v] = current[v]
      BY <1>0, <2>2, OneWorkerMoves DEF TypeOK
    <3> QED  BY <1>0, <1>1, <1>5, <3>1, <3>2, <3>3, QuietKeeps
  <2>3. ASSUME NEW k \in Jobs, OrphanExits(k)  PROVE Placed' /\ Outcomes'
    <3>1. /\ UNCHANGED <<pending, deadLetter, status, retryCount, results, completion>>
          /\ UNCHANGED <<workerAt, current>>
      BY <2>3 DEF OrphanExits, SandboxOnly, dbVars, rowVars, redisVars, queueVars
    <3> QED  BY <1>0, <1>1, <1>5, <3>1, QuietKeeps
  <2> QED  BY <1>1, <1>2, <1>3, <1>5, <2>1, <2>2, <2>3 DEF WorkerNext, Steady
<1>6. CASE MonitorNext /\ UNCHANGED <<post, workerVars>>
  <2>1. NoRestart' /\ UNCHANGED <<dbVars, queueVars, completion>>
    BY <1>0, <1>6, MonitorsIdle
  <2>2. /\ UNCHANGED <<pending, deadLetter, status, retryCount, results, completion>>
        /\ UNCHANGED <<workerAt, current>>
    BY <1>6, <2>1 DEF workerVars, dbVars, rowVars, queueVars
  <2> QED  BY <1>0, <1>1, <1>2, <1>6, <2>1, <2>2, QuietKeeps DEF Steady
<1>7. CASE UNCHANGED vars
  <2>1. /\ UNCHANGED <<post, pending, deadLetter, status, retryCount, results, completion>>
        /\ UNCHANGED <<workerAt, current, monitorVars>>
    BY <1>7 DEF vars, storeVars, dbVars, rowVars, redisVars, queueVars, workerVars
  <2> QED  BY <1>0, <1>1, <1>2, <1>3, <2>1, QuietKeeps DEF Steady
<1> QED  BY <1>4, <1>5, <1>6, <1>7 DEF Next

LEMMA SteadyHolds ==
  ASSUME OnlyCallsFail
  PROVE  Spec => [](TypeOK /\ OutcomeInOrder /\ Steady)
<1>1. Spec => []Learnt
  <2>1. "heartbeat_lapse" \notin Disruptions /\ "redis_error" \notin Disruptions
    BY DEF OnlyCallsFail
  <2>2. TablesAgree => NoCompensation
    BY DEF TablesAgree
  <2>3. Learnt <=> TypeOK /\ SuspectsGone /\ NoCompensation
    BY DEF Learnt
  <2> QED  BY <2>1, <2>2, <2>3, TypeCorrect, SignsHold, TablesHold, PTL
<1>2. Init => Steady
  <2> SUFFICES ASSUME Init  PROVE Steady
    OBVIOUS
  <2>1. /\ status = [j \in Jobs |-> "ABSENT"] /\ retryCount = [j \in Jobs |-> 0]
        /\ pending = <<>> /\ deadLetter = <<>> /\ completion = [j \in Jobs |-> FALSE]
        /\ \A w \in Workers : workerAt[w] = "off" /\ shouldRun[w]
        /\ \A m \in Monitors : monitorAt[m] = "asleep"
        /\ \A j \in Jobs : post[j] = "none" /\ container[j] = Nobody
    BY DEF Init, StoreInit, WorkerInit, MonitorInit, GatewayInit
  <2>2. NoRestart /\ AllOnDuty
    BY <2>1 DEF NoRestart, StartupSteps, AllOnDuty, OnDuty, Gone
  <2>3. ToSet(pending) = {} /\ NoTwins(pending) /\ ToSet(deadLetter) = {} /\ NoTwins(deadLetter)
    BY <2>1 DEF ToSet, NoTwins
  <2>4. Exclusive
    BY <2>1, <2>3, PlacePoints, BusyPoints DEF Exclusive, Waits, Keeps, Works, Leaves, Inert
  <2>5. \A w \in Workers : CallRow(w)
    BY <2>1, PlacePoints DEF CallRow, Claims, PushesAgreed
  <2>6. FreshRows /\ QueueAgreesWithRows
    BY <2>1, <2>3 DEF FreshRows, QueueAgreesWithRows, At, Row
  <2>7. Outcomes
    BY <2>1, <2>3 DEF Outcomes, Filed
  <2>8. Named
    BY <2>1 DEF Named, ContainerNameFree, RunsOwn
  <2> QED  BY <2>2, <2>4, <2>5, <2>6, <2>7, <2>8 DEF Steady, Placed
<1>3. Learnt /\ Steady /\ [Next]_vars => Steady'
  BY SteadyStays
<1>4. Learnt => TypeOK
  BY DEF Learnt
<1> QED  BY <1>1, <1>2, <1>3, <1>4, OutcomesInOrder, PTL DEF Spec

\* While only calls fail, whatever PostgreSQL and docker refuse, and also after
\* a COMMIT that took effect and was reported as failed: a job never runs twice
\* at once, every queued entry can be claimed as it stands, no claim of
\* processQueue is rejected and docker run finds its name free.
THEOREM FailedCallsKeepOrder ==
  ASSUME OnlyCallsFail
  PROVE  Spec => [](SingleExecution /\ QueueAgreesWithRows /\ ClaimNeverRejected /\ ContainerNameFree)
<1>1. TypeOK /\ Steady =>
        SingleExecution /\ QueueAgreesWithRows /\ ClaimNeverRejected /\ ContainerNameFree
  <2>1. TypeOK /\ Exclusive => SingleExecution
    BY ExecutingWorks DEF SingleExecution, Exclusive
  <2>2. (\A w \in Workers : CallRow(w)) => ClaimNeverRejected
    BY DEF CallRow, Claims, ClaimNeverRejected
  <2> QED  BY <2>1, <2>2 DEF Steady, Placed, Named
<1> QED  BY <1>1, SteadyHolds, PTL

\* While only calls fail, what was told to the outside stays true, although the
\* row of a job that nobody was told about may be put back: a marker means that
\* the outcome can be read, and a dead letter that its job was given up, once.
THEOREM FailedCallsKeepWord ==
  ASSUME OnlyCallsFail
  PROVE  Spec => [](MarkerMeansDecided /\ DeadLettersAgree)
<1>1. Outcomes => MarkerMeansDecided
  BY DEF Outcomes, MarkerMeansDecided
<1>2. TypeOK /\ OutcomeInOrder /\ Outcomes => DeadLettersAgree
  <2> SUFFICES ASSUME TypeOK, OutcomeInOrder, Outcomes  PROVE DeadLettersAgree
    OBVIOUS
  <2>1. ASSUME NEW e \in ToSet(deadLetter)
        PROVE  e.retry = MaxRetry /\ status[e.job] = "FAILED"
               /\ results[e.job].category = "WORKER_CRASH"
    <3>1. e.job \in Jobs /\ Filed(e.job)
      BY DeadLettersAreEntries DEF TypeOK, Filed
    <3> QED  BY <3>1 DEF OutcomeInOrder, ResultComesFirst, Outcomes, Buried
  <2> QED  BY <2>1 DEF DeadLettersAgree, Outcomes, NoTwins
<1>3. Steady => Outcomes
  BY DEF Steady
<1> QED  BY <1>1, <1>2, <1>3, SteadyHolds, PTL

(***************************************************************************)
(* A rolling restart: monitors die and come back, workers get SIGTERM,     *)
(* gateways go away. The reset of a monitor's start lets a job run twice,  *)
(* at once even, and its outcome be replaced by another one; but no sandbox*)
(* fails and no list is left behind, so that nobody puts a job back that   *)
(* is decided, and nobody gives one up.                                    *)
(***************************************************************************)
OnlyRestarts == Disruptions \subseteq {"sigterm", "monitor_crash", "gateway_crash"}

NoRetrySpent == deadLetter = <<>> /\ \A j \in Jobs : retryCount[j] = 0

\* What a restart leaves of OnePlace: rows are ahead of what workers announce.
KeepsWord ==
  /\ MarkerMeansDecided /\ NoRetrySpent
  /\ \A w \in Workers : workerAt[w] \in {"acknowledge", "publish"} => Decided(CurrentJob(w))

\* Neither path that counts a retry is ever entered.
LEMMA NothingToRetry ==
  ASSUME OnlyRestarts, Known
  PROVE  /\ \A w \in Workers : workerAt[w] \notin Requeuing
         /\ \A m \in Monitors : monitorAt[m] \notin NeedsOrphan
<1>1. "worker_crash" \notin Disruptions /\ "spawn_error" \notin Disruptions
  BY DEF OnlyRestarts
<1>2. \A w \in Workers : workerAt[w] \notin Requeuing
  BY <1>1 DEF Known, Safekept, Shape, HandsOf
<1>3. ASSUME NEW m \in Monitors, monitorAt[m] \in NeedsOrphan  PROVE FALSE
  BY <1>1, <1>3, RecoveryExcludesRetry DEF RetriesOrCrashes, Known, Accounted
<1> QED  BY <1>2, <1>3

\* A restart may have the outcome of a job replaced, but not taken back.
LEMMA RestartsKeepDecided ==
  ASSUME OnlyRestarts, Known, [Next]_vars, NEW j \in Jobs, Decided(j)
  PROVE  Decided(j)'
<1> USE DEF dbVars, rowVars
<1>0. TypeOK /\ StoreTypeOK /\ WorkerTypeOK /\ status \in [Jobs -> RowStates] /\ Submitted(j)
  BY DEF Known, TypeOK, StoreTypeOK, StatusTable, Safekept, Issued, Decided, IsTerminalStatus,
         TerminalStatuses
<1>1. CASE UNCHANGED status
  BY <1>1 DEF Decided
<1>2. CASE GatewayNext
  <2>1. ASSUME NEW k \in Jobs, Submit(k)  PROVE Decided(j)'
    <3>1. k # j /\ (UNCHANGED status \/ status' = [status EXCEPT ![k] = "PENDING"])
      BY <1>0, <2>1 DEF Submit, InsertRow, SetStatus, Call, Submitted
    <3> QED  BY <1>0, <1>1, <3>1 DEF Decided
  <2>2. \A k \in Jobs : ~MarkFailed(k) /\ ~RecordFailure(k)
    BY DEF Known, NoCompensation, MarkFailed, RecordFailure, At
  <2> QED  BY <1>1, <1>2, <2>1, <2>2 DEF GatewayNext, GatewayCrash, Request, Enqueue, ReadDepth
<1>3. CASE WorkerNext
  <2>1. ASSUME NEW w \in Workers, StartWorker(w) \/ Live(w)  PROVE Decided(j)'
    BY <1>1, <2>1, LiveTouchesNothing
  <2>2. ASSUME NEW k \in Jobs, OrphanExits(k)  PROVE Decided(j)'
    BY <1>1, <2>2 DEF OrphanExits, SandboxOnly
  <2>3. ASSUME NEW w \in Workers, Loop(w)  PROVE Decided(j)'
    BY <1>0, <2>3, NothingToRetry, WorkerKeepsDecided DEF OnlyRestarts, OnlyProcessesFail
  <2> QED  BY <1>3, <2>1, <2>2, <2>3 DEF WorkerNext
<1>4. CASE MonitorNext
  <2>1. ASSUME NEW m \in Monitors, Scan(m) \/ MonitorCrash(m)  PROVE Decided(j)'
    BY <1>1, <2>1, ScanTouchesNothing
  <2>2. ASSUME NEW m \in Monitors, Recover(m)  PROVE Decided(j)'
    BY <1>0, <2>2, NothingToRetry, MonitorTouches DEF SameRows, Decided
  <2>3. ASSUME NEW m \in Monitors, ResetRunning(m)  PROVE Decided(j)'
    <3>1. UNCHANGED status
          \/ status' = [k \in Jobs |-> IF status[k] = "RUNNING" THEN "PENDING" ELSE status[k]]
      BY <2>3 DEF ResetRunning, Call
    <3>2. status[j] # "RUNNING"
      BY DEF Decided, IsTerminalStatus, TerminalStatuses
    <3> QED  BY <1>1, <3>1, <3>2 DEF Decided
  <2>4. ASSUME NEW m \in Monitors, Startup(m), ~ResetRunning(m)  PROVE Decided(j)'
    BY <1>1, <2>4 DEF Startup, StartMonitor, MonitorReadDepth, SelectPending, Hydrate
  <2>5. CASE LockExpires
    BY <1>1, <2>5 DEF LockExpires
  <2> QED  BY <1>4, <2>1, <2>2, <2>3, <2>4, <2>5 DEF MonitorNext
<1>5. CASE UNCHANGED vars
  BY <1>1, <1>5 DEF vars, storeVars
<1> QED  BY <1>2, <1>3, <1>4, <1>5 DEF Next

LEMMA RestartsSpendNoRetry ==
  ASSUME OnlyRestarts, Known, [Next]_vars
  PROVE  UNCHANGED <<retryCount, deadLetter>>
<1> USE DEF dbVars, rowVars, redisVars, queueVars
<1>1. \A w \in Workers : ~PutBack(w) /\ ~GiveUp(w)
  BY NothingToRetry
     DEF Requeuing, PutBack, Requeue, PushRetry, RemoveOld, GiveUp, RemoveExhausted, DlqPersist,
         DlqPush, DlqPublish
<1>2. \A m \in Monitors : ~MarkPending(m) /\ ~MonitorDlqPush(m)
  BY NothingToRetry, MonitorPoints DEF MarkPending, MonitorDlqPush
<1>3. CASE GatewayNext
  BY <1>3 DEF GatewayNext, GatewayCrash, Request, Submit, InsertRow, Enqueue, ReadDepth,
              MarkFailed, RecordFailure, Call
<1>4. CASE WorkerNext
  <2>1. ASSUME NEW w \in Workers, Loop(w)  PROVE UNCHANGED <<retryCount, deadLetter>>
    BY <1>1, <2>1
       DEF Loop, Take, Pop, PopTimesOut, Claim, Check, GiveBack, Discard, RunJob,
           RemoveStaleContainer, StartContainer, ContainerExits, Conclude, Persist, Acknowledge,
           PublishCompletion, RedisOnly, DbOnly, SandboxOnly, PublishOnly, KeepsQueues
  <2>2. ASSUME NEW k \in Jobs, OrphanExits(k)  PROVE UNCHANGED <<retryCount, deadLetter>>
    BY <2>2 DEF OrphanExits, SandboxOnly
  <2> QED  BY <1>4, <2>1, <2>2, LiveTouchesNothing DEF WorkerNext
<1>5. CASE MonitorNext
  BY <1>2, <1>5, ScanTouchesNothing
     DEF MonitorNext, LockExpires, Startup, StartMonitor, ResetRunning, MonitorReadDepth,
         SelectPending, Hydrate, Recover, ReadStatus, PushRecovered, MonitorDlqPersist, DeleteQueue,
         EnqueuePending
<1>6. CASE UNCHANGED vars
  BY <1>6 DEF vars, storeVars
<1> QED  BY <1>3, <1>4, <1>5, <1>6 DEF Next

\* A worker comes to announce a job by deciding it.
LEMMA AnnouncedIsDecided ==
  ASSUME OnlyRestarts, Known, KeepsWord, [Next]_vars,
         NEW w \in Workers, workerAt'[w] \in {"acknowledge", "publish"}
  PROVE  Decided(CurrentJob(w))'
<1>0. /\ TypeOK /\ StoreTypeOK /\ WorkerTypeOK /\ status \in [Jobs -> RowStates]
      /\ workerAt \in [Workers -> {"pop"} \union Busy \union Inert] /\ verdict[w] \in Verdicts
  BY DEF Known, TypeOK, StoreTypeOK, WorkerTypeOK, StatusTable
<1>1. ASSUME workerAt[w] \in {"acknowledge", "publish"}, current'[w] = current[w]
      PROVE  Decided(CurrentJob(w))'
  <2>1. CurrentJob(w) \in Jobs /\ Decided(CurrentJob(w))
    BY <1>0, <1>1, BusyPoints, BusyHolds DEF KeepsWord
  <2>2. PICK j \in Jobs : j = CurrentJob(w) /\ Decided(j)
    BY <2>1
  <2>3. Decided(j)'
    BY <2>2, RestartsKeepDecided
  <2>4. CurrentJob(w)' = j
    BY <1>1, <2>2 DEF CurrentJob
  <2> QED  BY <2>3, <2>4 DEF Decided
<1>2. CASE UNCHANGED <<workerAt, current>>
  BY <1>1, <1>2
<1>3. CASE Persist(w)
  <2>1. PICK j \in Jobs : j = CurrentJob(w)
    BY <1>0, <1>3, BusyPoints, BusyHolds DEF Persist
  <2>2. current'[w] = current[w] /\ status' = [status EXCEPT ![j] = FinalStatus(verdict[w])]
    BY <1>0, <1>3, <2>1 DEF Persist, Call, Proceed, Goto, SetStatus
  <2>3. Decided(j)'
    BY <1>0, <2>2, FinalIsTerminal DEF Decided
  <2>4. CurrentJob(w)' = j
    BY <2>1, <2>2 DEF CurrentJob
  <2> QED  BY <2>3, <2>4 DEF Decided
<1>4. CASE Loop(w) /\ ~Persist(w)
  <2>1. workerAt[w] \in {"acknowledge", "publish"} /\ current'[w] = current[w]
    BY <1>0, <1>4
       DEF Loop, Take, Pop, PopTimesOut, Claim, Check, GiveBack, Discard, RunJob,
           RemoveStaleContainer, StartContainer, ContainerExits, Conclude, Acknowledge,
           PublishCompletion, PutBack, Requeue, PushRetry, RemoveOld, GiveUp, RemoveExhausted,
           DlqPersist, DlqPush, DlqPublish, Call, NextIteration, Proceed, Goto
  <2> QED  BY <1>1, <2>1
<1>5. CASE StartWorker(w) \/ Live(w)
  <2>1. workerAt[w] \in {"acknowledge", "publish"} /\ current'[w] = current[w]
    BY <1>0, <1>5
       DEF StartWorker, Live, SendHeartbeat, HeartbeatExpires, Sigterm, WorkerCrash, workerVars,
           Proceed, Goto
  <2> QED  BY <1>1, <2>1
<1>6. ASSUME NEW v \in Workers, v # w, StartWorker(v) \/ Live(v) \/ Loop(v)
      PROVE  Decided(CurrentJob(w))'
  <2>1. workerAt'[w] = workerAt[w] /\ current'[w] = current[w]
    BY <1>0, <1>6, OneWorkerMoves
  <2> QED  BY <1>1, <2>1
<1>7. ASSUME NEW j \in Jobs, OrphanExits(j)  PROVE UNCHANGED <<workerAt, current>>
  BY <1>7 DEF OrphanExits
<1> QED  BY <1>2, <1>3, <1>4, <1>5, <1>6, <1>7 DEF Next, WorkerNext, vars, workerVars

LEMMA KeepsWordAlways ==
  ASSUME OnlyRestarts
  PROVE  Spec => [](Known /\ KeepsWord)
<1>1. Spec => []Known
  <2>1. OnlyProcessesFail /\ RetriesOrCrashes /\ "redis_error" \notin Disruptions
    BY DEF OnlyRestarts, OnlyProcessesFail, RetriesOrCrashes
  <2>2. TablesAgree => NoCompensation
    BY DEF TablesAgree
  <2>3. Known <=> TypeOK /\ (Safekept /\ Accounted) /\ OutcomeInOrder /\ NoCompensation
    BY DEF Known
  <2> QED  BY <2>1, <2>2, <2>3, TypeCorrect, AllAccounted, OutcomesInOrder, TablesHold, PTL
<1>2. Init => KeepsWord
  BY DEF Init, StoreInit, WorkerInit, KeepsWord, MarkerMeansDecided, NoRetrySpent
<1>3. Known /\ KeepsWord /\ [Next]_vars => KeepsWord'
  <2> SUFFICES ASSUME Known, KeepsWord, [Next]_vars  PROVE KeepsWord'
    OBVIOUS
  <2>1. ASSUME NEW j \in Jobs, completion'[j]  PROVE Decided(j)'
    <3>1. completion[j] \/ \E w \in Workers : workerAt[w] \in Deciding /\ CurrentJob(w) = j
      BY <2>1, MarkedByWorker DEF Known, TypeOK
    <3>2. \A w \in Workers : workerAt[w] \in Deciding => workerAt[w] \in {"acknowledge", "publish"}
      BY NothingToRetry DEF Deciding, Requeuing
    <3>3. Decided(j)
      BY <3>1, <3>2 DEF KeepsWord, MarkerMeansDecided
    <3> QED  BY <3>3, RestartsKeepDecided
  <2>2. NoRetrySpent'
    BY RestartsSpendNoRetry DEF KeepsWord, NoRetrySpent
  <2> QED  BY <2>1, <2>2, AnnouncedIsDecided DEF KeepsWord, MarkerMeansDecided
<1> QED  BY <1>1, <1>2, <1>3, PTL DEF Spec

\* Through any number of restarts of monitors, workers (SIGTERM) and gateways a
\* completion marker means a decided job, and no job is retried or filed as dead.
THEOREM RestartsKeepWord ==
  ASSUME OnlyRestarts
  PROVE  Spec => [](MarkerMeansDecided /\ NoRetrySpent)
<1>1. KeepsWord => MarkerMeansDecided /\ NoRetrySpent
  BY DEF KeepsWord
<1> QED  BY <1>1, KeepsWordAlways, PTL

\* Nor is a decided job put back: what is safe about the reset of a monitor's
\* start (bootstrap, SET status = PENDING WHERE status = RUNNING).
THEOREM RestartsRequeueNothing ==
  ASSUME OnlyRestarts
  PROVE  Spec => TerminalNotRequeued
<1>1. Known /\ [Next]_vars => [\A j \in Jobs : Decided(j) => status'[j] # "PENDING"]_vars
  <2>1. ASSUME NEW j \in Jobs, Decided(j)'  PROVE status'[j] # "PENDING"
    BY <2>1 DEF Decided, IsTerminalStatus, TerminalStatuses
  <2> QED  BY <2>1, RestartsKeepDecided
<1> QED  BY <1>1, KeepsWordAlways, PTL DEF Spec, TerminalNotRequeued
=============================================================================
