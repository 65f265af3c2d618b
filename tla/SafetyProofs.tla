---------------------------- MODULE SafetyProofs ----------------------------
(***************************************************************************)
(* Safety of the platform, for any jobs, workers, monitors and retry limit:*)
(* what the reaper's lock excludes, and the order in which an outcome is   *)
(* written.                                                                *)
(***************************************************************************)
EXTENDS PlatformProofs

(***************************************************************************)
(* The reaper's lock. A monitor inside a scan is the one the lock names.   *)
(***************************************************************************)
LockHeld == \A m \in Monitors : Scanning(m) => reaperLock = m

\* Every step of a monitor moves that monitor alone.
LEMMA OneMonitorMoves ==
  ASSUME MonitorTypeOK, NEW m \in Monitors,
         Startup(m) \/ Scan(m) \/ Recover(m) \/ MonitorCrash(m)
  PROVE  \E point : MonitorGoto(m, point)
<1> USE DEF MonitorProceeds, Exits, ScanFails, NextOrphan, Call
<1>1. CASE Startup(m)
  BY <1>1 DEF Startup, StartMonitor, ResetRunning, MonitorReadDepth, SelectPending, Hydrate
<1>2. CASE Scan(m)
  BY <1>2 DEF Scan, AcquireLock, ScanQueues, ScanHeartbeats, PickWorker, ReleaseLock
<1>3. CASE Recover(m)
  BY <1>3 DEF Recover, ReadStatus, MarkPending, PushRecovered, MonitorDlqPersist, MonitorDlqPush,
              DeleteQueue
<1>4. CASE MonitorCrash(m)
  BY <1>4 DEF MonitorCrash
<1> QED  BY <1>1, <1>2, <1>3, <1>4

\* Startup and death leave a monitor outside of any scan and the lock alone;
\* inside a scan only the release touches the lock.
LEMMA StartupNoScan ==
  ASSUME MonitorTypeOK, NEW m \in Monitors, Startup(m) \/ MonitorCrash(m)
  PROVE  monitorAt'[m] \notin ScanSteps /\ UNCHANGED reaperLock
BY MonitorPoints, MonitorTypeAt
   DEF Startup, MonitorCrash, StartMonitor, ResetRunning, MonitorReadDepth, SelectPending, Hydrate,
       MonitorProceeds, MonitorGoto, Exits, Call, ScanSteps, RecoverSteps, redisVars

LEMMA InsideScan ==
  ASSUME MonitorTypeOK, NEW m \in Monitors,
         ScanQueues(m) \/ ScanHeartbeats(m) \/ PickWorker(m) \/ Recover(m)
  PROVE  Scanning(m) /\ UNCHANGED reaperLock
BY DEF ScanQueues, ScanHeartbeats, PickWorker, Recover, ReadStatus, MarkPending, PushRecovered,
       MonitorDlqPersist, MonitorDlqPush, DeleteQueue, Call, Scanning, ScanSteps, RecoverSteps,
       redisVars

LEMMA MonitorKeepsLock ==
  ASSUME "lock_expiry" \notin Disruptions, MonitorTypeOK, LockHeld, MonitorNext
  PROVE  LockHeld'
<1>1. ASSUME NEW m \in Monitors, Startup(m) \/ Scan(m) \/ Recover(m) \/ MonitorCrash(m)
      PROVE  \A n \in Monitors : n # m => monitorAt'[n] = monitorAt[n]
  BY <1>1, OneMonitorMoves, MonitorTypeAt DEF MonitorGoto
<1>2. ASSUME NEW m \in Monitors, Startup(m) \/ MonitorCrash(m)
      PROVE  LockHeld'
  BY <1>1, <1>2, StartupNoScan DEF LockHeld, Scanning
<1>3. ASSUME NEW m \in Monitors, ScanQueues(m) \/ ScanHeartbeats(m) \/ PickWorker(m) \/ Recover(m)
      PROVE  LockHeld'
  BY <1>1, <1>3, InsideScan DEF LockHeld, Scanning, Scan
<1>4. ASSUME NEW m \in Monitors, AcquireLock(m)
      PROVE  LockHeld'
  <2>1. \A n \in Monitors : ~Scanning(n)
    BY <1>4, StoreAssumption DEF AcquireLock, LockHeld
  <2>2. CASE reaperLock' = m
    BY <1>1, <1>4, <2>1, <2>2 DEF LockHeld, Scanning, Scan
  <2>3. CASE Exits(m)
    BY <1>1, <1>4, <2>1, <2>3, MonitorTypeAt
       DEF LockHeld, Scanning, Scan, Exits, MonitorGoto, ScanSteps, RecoverSteps
  <2> QED  BY <1>4, <2>2, <2>3 DEF AcquireLock, Call
<1>5. ASSUME NEW m \in Monitors, ReleaseLock(m)
      PROVE  LockHeld'
  <2>1. \A n \in Monitors : Scanning(n) => n = m
    BY <1>5 DEF ReleaseLock, LockHeld, Scanning, ScanSteps
  <2>2. monitorAt'[m] \notin ScanSteps
    BY <1>5, MonitorTypeAt DEF ReleaseLock, Call, Exits, MonitorGoto, ScanSteps, RecoverSteps
  <2> QED  BY <1>1, <1>5, <2>1, <2>2 DEF LockHeld, Scanning, Scan
<1>6. CASE LockExpires
  BY <1>6 DEF LockExpires, Disrupted, LockHeld, Scanning, monitorVars
<1> QED  BY <1>2, <1>3, <1>4, <1>5, <1>6 DEF MonitorNext, Scan

LEMMA GatewayLeavesLock ==
  ASSUME GatewayNext PROVE UNCHANGED reaperLock
BY DEF GatewayNext, Request, GatewayCrash, Submit, Enqueue, ReadDepth, MarkFailed, RecordFailure,
       redisVars

LEMMA WorkerLeavesLock ==
  ASSUME WorkerNext PROVE UNCHANGED reaperLock
<1> USE DEF redisVars, KeepsSignals, RedisOnly, DbOnly, SandboxOnly, PublishOnly
<1>1. ASSUME NEW w \in Workers, StartWorker(w) \/ Live(w)  PROVE UNCHANGED reaperLock
  BY <1>1 DEF StartWorker, Live, SendHeartbeat, HeartbeatExpires, Sigterm, WorkerCrash
<1>2. ASSUME NEW w \in Workers, Take(w) \/ RunJob(w)  PROVE UNCHANGED reaperLock
  BY <1>2 DEF Take, Pop, PopTimesOut, Claim, Check, GiveBack, Discard,
              RunJob, RemoveStaleContainer, StartContainer, ContainerExits
<1>3. ASSUME NEW w \in Workers, Conclude(w) \/ PutBack(w) \/ GiveUp(w)  PROVE UNCHANGED reaperLock
  BY <1>3 DEF Conclude, Persist, Acknowledge, PublishCompletion, PutBack, Requeue, PushRetry,
              RemoveOld, GiveUp, RemoveExhausted, DlqPersist, DlqPush, DlqPublish
<1>4. ASSUME NEW j \in Jobs, OrphanExits(j)  PROVE UNCHANGED reaperLock
  BY <1>4 DEF OrphanExits
<1> QED  BY <1>1, <1>2, <1>3, <1>4 DEF WorkerNext, Loop

LEMMA LockIsHeld ==
  ASSUME "lock_expiry" \notin Disruptions
  PROVE  Spec => []LockHeld
<1>1. Init => LockHeld
  BY DEF Init, MonitorInit, LockHeld, Scanning, ScanSteps, RecoverSteps
<1>2. TypeOK /\ LockHeld /\ [Next]_vars => LockHeld'
  <2> SUFFICES ASSUME TypeOK, LockHeld, [Next]_vars PROVE LockHeld'
    OBVIOUS
  <2>1. CASE UNCHANGED <<monitorAt, reaperLock>>
    BY <2>1 DEF LockHeld, Scanning
  <2>2. CASE MonitorNext
    BY <2>2, MonitorKeepsLock DEF TypeOK
  <2> QED  BY <2>1, <2>2, GatewayLeavesLock, WorkerLeavesLock
           DEF Next, vars, storeVars, redisVars, monitorVars
<1> QED  BY <1>1, <1>2, TypeCorrect, PTL DEF Spec

\* While no lock expires under its holder, at most one monitor scans and
\* recovers: SET NX PX with the compare-and-delete of the release script.
THEOREM ScanExclusiveSafe ==
  ASSUME "lock_expiry" \notin Disruptions
  PROVE  Spec => []ScanExclusive
<1>1. LockHeld => ScanExclusive
  BY DEF LockHeld, ScanExclusive
<1> QED  BY <1>1, LockIsHeld, PTL

(***************************************************************************)
(* The order of an outcome: the result row first, then the dead letter or  *)
(* the marker. What a process still has to write follows a row that is     *)
(* there, and whoever buries a job holds its last attempt.                 *)
(***************************************************************************)
HasResult(j) == results[j] # NoResult

AfterResult == {"acknowledge", "publish", "dlq_push", "dlq_publish"}
LastAttempt == {"dlq_persist", "dlq_push"}

OutcomeInOrder ==
  /\ ResultComesFirst
  /\ \A w \in Workers :
       /\ workerAt[w] \in AfterResult => HasResult(CurrentJob(w))
       /\ workerAt[w] \in LastAttempt => current[w].retry = MaxRetry
  /\ \A m \in Monitors :
       /\ monitorAt[m] = "dlq_push" => HasResult(Orphan(m).job)
       /\ monitorAt[m] \in LastAttempt => Orphan(m).retry = MaxRetry

LEMMA ExhaustedIsLast ==
  ASSUME NEW e \in QueuePayload, Exhausted(e)
  PROVE  e.retry = MaxRetry
BY MaxRetryAssumption DEF QueuePayload, Exhausted

\* A result row is written and rewritten, never removed.
LEMMA UpsertGivesResult ==
  ASSUME results \in ResultTable, NEW j \in Jobs, NEW o \in {"sandbox", "empty"}, NEW c,
         UpsertResult(j, o, c)
  PROVE  HasResult(j)' /\ \A k \in Jobs : HasResult(k) => HasResult(k)'
<1>1. [output |-> o, category |-> c] # NoResult
  BY DEF NoResult
<1> QED  BY <1>1 DEF UpsertResult, HasResult, ResultTable

LEMMA DeadLettersAreEntries ==
  ASSUME StoreTypeOK, NEW e \in ToSet(deadLetter)
  PROVE  e \in QueuePayload /\ e.job \in Jobs
<1>1. PICK i \in DOMAIN deadLetter : deadLetter[i] = e
  BY DEF ToSet
<1>2. deadLetter \in Seq(QueuePayload)
  BY DEF StoreTypeOK, Queue
<1>3. e \in QueuePayload
  BY <1>1, <1>2
<1> QED  BY <1>3 DEF QueuePayload

LEMMA MonitorHolds ==
  ASSUME MonitorTypeOK, NEW m \in Monitors, monitorAt[m] \in NeedsOrphan
  PROVE  Orphan(m) \in QueuePayload /\ Orphan(m).job \in Jobs
<1>1. orphans[m] \in Seq(QueuePayload) /\ orphans[m] # <<>>
  BY MonitorTypeAt
<1>2. Orphan(m) \in QueuePayload
  BY <1>1, HeadTailType DEF Orphan
<1> QED  BY <1>2 DEF QueuePayload

LEMMA LPushToSet ==
  ASSUME NEW q \in Queue, NEW e \in QueuePayload, NEW x \in ToSet(LPush(q, e))
  PROVE  x = e \/ x \in ToSet(q)
BY DEF Queue, LPush, ToSet

\* ResultComesFirst goes on when nothing is announced or filed.
LEMMA NothingFiled ==
  ASSUME StoreTypeOK, ResultComesFirst, UNCHANGED <<completion, deadLetter>>,
         \A k \in Jobs : HasResult(k) => HasResult(k)'
  PROVE  ResultComesFirst'
BY DeadLettersAreEntries DEF ResultComesFirst, HasResult

LEMMA MarkerAfterResult ==
  ASSUME StoreTypeOK, ResultComesFirst, NEW j \in Jobs, HasResult(j),
         completion' = [completion EXCEPT ![j] = TRUE], UNCHANGED <<deadLetter, results>>
  PROVE  ResultComesFirst'
BY DEF StoreTypeOK, ResultComesFirst, HasResult

LEMMA LetterAfterResult ==
  ASSUME StoreTypeOK, ResultComesFirst, NEW e \in QueuePayload, HasResult(e.job),
         e.retry = MaxRetry, deadLetter' = LPush(deadLetter, e), UNCHANGED <<completion, results>>
  PROVE  ResultComesFirst'
<1>1. deadLetter \in Queue
  BY DEF StoreTypeOK
<1>2. ASSUME NEW x \in ToSet(deadLetter')
      PROVE  x.retry = MaxRetry /\ results[x.job] # NoResult
  <2>1. x = e \/ x \in ToSet(deadLetter)
    BY <1>1, <1>2, LPushToSet
  <2> QED  BY <2>1 DEF ResultComesFirst, HasResult
<1> QED  BY <1>2 DEF ResultComesFirst

\* One worker steps; the others, and the monitors, keep what they hold.
LEMMA WorkerInOrder ==
  ASSUME TypeOK, OutcomeInOrder, NEW w \in Workers,
         \A v \in Workers : v # w => workerAt'[v] = workerAt[v] /\ current'[v] = current[v],
         UNCHANGED monitorVars,
         \A k \in Jobs : HasResult(k) => HasResult(k)',
         ResultComesFirst',
         workerAt'[w] \in AfterResult => HasResult(CurrentJob(w))',
         workerAt'[w] \in LastAttempt => current'[w].retry = MaxRetry
  PROVE  OutcomeInOrder'
<1>1. AfterResult \subseteq Busy /\ "dlq_push" \in NeedsOrphan
  BY BusyPoints, MonitorPoints DEF AfterResult
<1>2. ASSUME NEW v \in Workers, v # w
      PROVE  /\ workerAt'[v] \in AfterResult => HasResult(CurrentJob(v))'
             /\ workerAt'[v] \in LastAttempt => current'[v].retry = MaxRetry
  <2>1. workerAt[v] \in AfterResult => CurrentJob(v) \in Jobs
    BY <1>1, BusyHolds DEF TypeOK
  <2>2. workerAt'[v] = workerAt[v] /\ current'[v] = current[v]
    BY <1>2
  <2>3. CurrentJob(v)' = CurrentJob(v)
    BY <2>2 DEF CurrentJob
  <2> QED  BY <2>1, <2>2, <2>3 DEF OutcomeInOrder, HasResult
<1>3. ASSUME NEW m \in Monitors
      PROVE  /\ monitorAt'[m] = "dlq_push" => HasResult(Orphan(m).job)'
             /\ monitorAt'[m] \in LastAttempt => Orphan(m)'.retry = MaxRetry
  <2>1. monitorAt[m] = "dlq_push" => Orphan(m).job \in Jobs
    BY <1>1, MonitorHolds DEF TypeOK
  <2>2. monitorAt'[m] = monitorAt[m] /\ Orphan(m)' = Orphan(m)
    BY DEF monitorVars, scanVars, Orphan
  <2> QED  BY <2>1, <2>2 DEF OutcomeInOrder, HasResult
<1> QED  BY <1>2, <1>3 DEF OutcomeInOrder

\* A step of one worker leaves the others where they are.
LEMMA OneWorkerMoves ==
  ASSUME WorkerTypeOK, NEW w \in Workers, StartWorker(w) \/ Live(w) \/ Loop(w)
  PROVE  \A v \in Workers : v # w => workerAt'[v] = workerAt[v] /\ current'[v] = current[v]
<1> USE DEF Goto, Proceed, NextIteration, Call, workerVars
<1>0. /\ workerAt \in [Workers -> {"pop"} \union Busy \union Inert]
      /\ current \in [Workers -> QueuePayload \union {NoJob}]
  BY DEF WorkerTypeOK
<1>1. CASE StartWorker(w) \/ Live(w)
  BY <1>0, <1>1 DEF StartWorker, Live, SendHeartbeat, HeartbeatExpires, Sigterm, WorkerCrash
<1>2. CASE Take(w)
  BY <1>0, <1>2 DEF Take, Pop, PopTimesOut, Claim, Check, GiveBack, Discard
<1>3. CASE RunJob(w)
  BY <1>0, <1>3 DEF RunJob, RemoveStaleContainer, StartContainer, ContainerExits
<1>4. CASE Conclude(w)
  BY <1>0, <1>4 DEF Conclude, Persist, Acknowledge, PublishCompletion
<1>5. CASE PutBack(w)
  BY <1>0, <1>5 DEF PutBack, Requeue, PushRetry, RemoveOld
<1>6. CASE GiveUp(w)
  BY <1>0, <1>6 DEF GiveUp, RemoveExhausted, DlqPersist, DlqPush, DlqPublish
<1> QED  BY <1>1, <1>2, <1>3, <1>4, <1>5, <1>6 DEF Loop

\* Steps of a worker that write neither a result, nor a marker, nor a dead
\* letter, and lead to no point after the result.
LEMMA QuietWorkerInOrder ==
  ASSUME TypeOK, OutcomeInOrder, NEW w \in Workers, UNCHANGED monitorVars,
         StartWorker(w) \/ Live(w) \/ Take(w) \/ RunJob(w) \/ PutBack(w)
  PROVE  OutcomeInOrder'
<1> USE DEF dbVars, redisVars, queueVars, workerVars, Call
<1> USE DEF KeepsWorld, KeepsQueues, KeepsSignals, RedisOnly, DbOnly, SandboxOnly
<1> USE DEF Goto, Proceed, NextIteration
<1>0. \A p \in {"pop", "claim", "check", "give_back", "discard", "remove_stale", "stopped",
                "start_container", "running", "persist", "requeue", "push_retry", "remove_old",
                "crashed"} : p \notin AfterResult /\ p \notin LastAttempt
  BY DEF AfterResult, LastAttempt
<1>1. CASE StartWorker(w) \/ Sigterm(w) \/ WorkerCrash(w) \/ SendHeartbeat(w) \/ HeartbeatExpires(w)
  <2>1. UNCHANGED <<completion, deadLetter, results>>
    BY <1>1 DEF StartWorker, SendHeartbeat, HeartbeatExpires, Sigterm, WorkerCrash
  <2>2. \/ workerAt'[w] \in {"pop", "crashed"}
        \/ UNCHANGED <<workerAt, current>>
    BY <1>1 DEF StartWorker, SendHeartbeat, HeartbeatExpires, Sigterm, WorkerCrash, TypeOK,
                WorkerTypeOK
  <2>3. \A k \in Jobs : HasResult(k) => HasResult(k)'
    BY <2>1 DEF HasResult
  <2>4. ResultComesFirst'
    BY <2>1, <2>3, NothingFiled DEF TypeOK, OutcomeInOrder
  <2>5. /\ workerAt'[w] \in AfterResult => HasResult(CurrentJob(w))'
        /\ workerAt'[w] \in LastAttempt => current'[w].retry = MaxRetry
    BY <1>0, <2>1, <2>2 DEF OutcomeInOrder, HasResult, CurrentJob
  <2>6. \A v \in Workers : v # w => workerAt'[v] = workerAt[v] /\ current'[v] = current[v]
    BY <1>1, OneWorkerMoves DEF Live, TypeOK
  <2> QED  BY <2>3, <2>4, <2>5, <2>6, WorkerInOrder
<1>2. CASE Take(w) \/ RunJob(w) \/ PutBack(w)
  <2>1. UNCHANGED <<completion, deadLetter, results>>
    BY <1>2 DEF Take, Pop, PopTimesOut, Claim, Check, GiveBack, Discard, RunJob,
                RemoveStaleContainer, StartContainer, ContainerExits, PutBack, Requeue, PushRetry,
                RemoveOld, MoveOldest
  <2>2. \E p \in {"pop", "claim", "check", "give_back", "discard", "remove_stale", "stopped",
                  "start_container", "running", "persist", "requeue", "push_retry", "remove_old"} :
          workerAt' = [workerAt EXCEPT ![w] = p]
    BY <1>2 DEF Take, Pop, PopTimesOut, Claim, Check, GiveBack, Discard, RunJob,
                RemoveStaleContainer, StartContainer, ContainerExits, PutBack, Requeue, PushRetry,
                RemoveOld
  <2>3. \A k \in Jobs : HasResult(k) => HasResult(k)'
    BY <2>1 DEF HasResult
  <2>4. ResultComesFirst'
    BY <2>1, <2>3, NothingFiled DEF TypeOK, OutcomeInOrder
  <2>5. workerAt'[w] \notin AfterResult /\ workerAt'[w] \notin LastAttempt
    BY <1>0, <2>2 DEF TypeOK, WorkerTypeOK
  <2>6. \A v \in Workers : v # w => workerAt'[v] = workerAt[v] /\ current'[v] = current[v]
    BY <1>2, OneWorkerMoves DEF Loop, TypeOK
  <2> QED  BY <2>3, <2>4, <2>5, <2>6, WorkerInOrder
<1> QED  BY <1>1, <1>2 DEF Live

\* The steps that write the outcome.
LEMMA ConcludeInOrder ==
  ASSUME TypeOK, OutcomeInOrder, NEW w \in Workers, UNCHANGED monitorVars, Conclude(w)
  PROVE  OutcomeInOrder'
<1> USE DEF dbVars, redisVars, queueVars, Call
<1> USE DEF KeepsWorld, KeepsQueues, KeepsSignals, RedisOnly, DbOnly, PublishOnly
<1>0. /\ \A v \in Workers : v # w => workerAt'[v] = workerAt[v] /\ current'[v] = current[v]
      /\ workerAt[w] \in Busy /\ CurrentJob(w) \in Jobs
  BY OneWorkerMoves, BusyHolds, BusyPoints
     DEF TypeOK, Loop, Conclude, Persist, Acknowledge, PublishCompletion
<1>1. workerAt \in [Workers -> {"pop"} \union Busy \union Inert]
  BY DEF TypeOK, WorkerTypeOK
<1>2. CASE Persist(w)
  <2>2. \A k \in Jobs : HasResult(k) => HasResult(k)'
    <3>1. CASE UpsertResult(CurrentJob(w), "sandbox", verdict[w])
      BY <1>0, <3>1, UpsertGivesResult DEF TypeOK, StoreTypeOK
    <3>2. CASE UNCHANGED results
      BY <3>2 DEF HasResult
    <3> QED  BY <1>2, <3>1, <3>2 DEF Persist
  <2>3. ResultComesFirst'
    BY <1>2, <2>2, NothingFiled DEF Persist, TypeOK, OutcomeInOrder
  <2>4. /\ workerAt'[w] \in AfterResult => HasResult(CurrentJob(w))'
        /\ workerAt'[w] \notin LastAttempt
    <3>1. CASE Proceed(w, "acknowledge") /\ UpsertResult(CurrentJob(w), "sandbox", verdict[w])
      <4>1. HasResult(CurrentJob(w))'
        <5>1. CurrentJob(w)' = CurrentJob(w)
          BY <3>1 DEF Proceed, CurrentJob
        <5>2. results'[CurrentJob(w)] # NoResult
          BY <1>0, <3>1, UpsertGivesResult DEF TypeOK, StoreTypeOK, HasResult
        <5> QED  BY <5>1, <5>2 DEF HasResult
      <4> QED  BY <1>1, <3>1, <4>1 DEF Proceed, Goto, LastAttempt
    <3>2. CASE Proceed(w, "requeue")
      BY <1>1, <3>2 DEF Proceed, Goto, LastAttempt, AfterResult
    <3> QED  BY <1>2, <3>1, <3>2 DEF Persist
  <2> QED  BY <1>0, <2>2, <2>3, <2>4, WorkerInOrder
<1>3. CASE Acknowledge(w)
  <2>1. HasResult(CurrentJob(w)) /\ UNCHANGED <<completion, deadLetter, results>>
    BY <1>3 DEF Acknowledge, OutcomeInOrder, AfterResult, RemoveRaw
  <2>2. \A k \in Jobs : HasResult(k) => HasResult(k)'
    BY <2>1 DEF HasResult
  <2>3. ResultComesFirst'
    BY <2>1, <2>2, NothingFiled DEF TypeOK, OutcomeInOrder
  <2>4. /\ HasResult(CurrentJob(w))'
        /\ workerAt'[w] \notin LastAttempt
    BY <1>1, <1>3, <2>1 DEF Acknowledge, Proceed, Goto, HasResult, CurrentJob, LastAttempt
  <2> QED  BY <1>0, <2>2, <2>3, <2>4, WorkerInOrder
<1>4. CASE PublishCompletion(w)
  <2>1. HasResult(CurrentJob(w)) /\ UNCHANGED <<deadLetter, results>>
    BY <1>4 DEF PublishCompletion, OutcomeInOrder, AfterResult
  <2>2. \A k \in Jobs : HasResult(k) => HasResult(k)'
    BY <2>1 DEF HasResult
  <2>3. ResultComesFirst'
    BY <1>0, <1>4, <2>1, <2>2, NothingFiled, MarkerAfterResult
       DEF PublishCompletion, PublishSystemChunk, TypeOK, OutcomeInOrder
  <2>4. workerAt'[w] \notin AfterResult /\ workerAt'[w] \notin LastAttempt
    BY <1>1, <1>4 DEF PublishCompletion, Proceed, NextIteration, Goto, AfterResult, LastAttempt
  <2> QED  BY <1>0, <2>2, <2>3, <2>4, WorkerInOrder
<1> QED  BY <1>2, <1>3, <1>4 DEF Conclude

LEMMA GiveUpInOrder ==
  ASSUME TypeOK, OutcomeInOrder, NEW w \in Workers, UNCHANGED monitorVars, GiveUp(w)
  PROVE  OutcomeInOrder'
<1> USE DEF dbVars, redisVars, queueVars, Call
<1> USE DEF KeepsWorld, KeepsQueues, KeepsSignals, RedisOnly, DbOnly, PublishOnly
<1>0. /\ \A v \in Workers : v # w => workerAt'[v] = workerAt[v] /\ current'[v] = current[v]
      /\ workerAt[w] \in Busy /\ CurrentJob(w) \in Jobs /\ current[w] \in QueuePayload
  BY OneWorkerMoves, BusyHolds, BusyPoints
     DEF TypeOK, Loop, GiveUp, RemoveExhausted, DlqPersist, DlqPush, DlqPublish
<1>1. workerAt \in [Workers -> {"pop"} \union Busy \union Inert]
  BY DEF TypeOK, WorkerTypeOK
<1>2. NextIteration(w) => workerAt'[w] \notin AfterResult /\ workerAt'[w] \notin LastAttempt
  BY <1>1 DEF NextIteration, Goto, AfterResult, LastAttempt
<1>3. CASE RemoveExhausted(w)
  <2>1. current[w].retry = MaxRetry /\ UNCHANGED <<completion, deadLetter, results>>
    BY <1>0, <1>3, ExhaustedIsLast DEF RemoveExhausted, RemoveRaw
  <2>2. \A k \in Jobs : HasResult(k) => HasResult(k)'
    BY <2>1 DEF HasResult
  <2>3. ResultComesFirst'
    BY <2>1, <2>2, NothingFiled DEF TypeOK, OutcomeInOrder
  <2>4. Proceed(w, "dlq_persist") =>
          workerAt'[w] \notin AfterResult /\ current'[w].retry = MaxRetry
    BY <1>1, <2>1 DEF Proceed, Goto, AfterResult
  <2> QED  BY <1>0, <1>2, <1>3, <2>2, <2>3, <2>4, WorkerInOrder DEF RemoveExhausted
<1>4. CASE DlqPersist(w)
  <2>1. current[w].retry = MaxRetry /\ UNCHANGED <<completion, deadLetter>>
    BY <1>4 DEF DlqPersist, OutcomeInOrder, LastAttempt
  <2>2. /\ \A k \in Jobs : HasResult(k) => HasResult(k)'
        /\ DeadLetterInDb(CurrentJob(w)) => results'[CurrentJob(w)] # NoResult
    <3>1. DeadLetterInDb(CurrentJob(w)) =>
            /\ results'[CurrentJob(w)] # NoResult
            /\ \A k \in Jobs : HasResult(k) => HasResult(k)'
      BY <1>0, UpsertGivesResult DEF DeadLetterInDb, TypeOK, StoreTypeOK, HasResult
    <3>2. UNCHANGED results => \A k \in Jobs : HasResult(k) => HasResult(k)'
      BY DEF HasResult
    <3> QED  BY <1>4, <3>1, <3>2 DEF DlqPersist
  <2>3. ResultComesFirst'
    BY <2>1, <2>2, NothingFiled DEF TypeOK, OutcomeInOrder
  <2>4. DeadLetterInDb(CurrentJob(w)) /\ Proceed(w, "dlq_push") =>
          HasResult(CurrentJob(w))' /\ current'[w].retry = MaxRetry
    BY <2>1, <2>2 DEF Proceed, HasResult, CurrentJob
  <2> QED  BY <1>0, <1>2, <1>4, <2>2, <2>3, <2>4, WorkerInOrder DEF DlqPersist
<1>5. CASE DlqPush(w)
  <2>1. /\ current[w].retry = MaxRetry /\ HasResult(CurrentJob(w))
        /\ UNCHANGED <<completion, results>>
    BY <1>5 DEF DlqPush, OutcomeInOrder, LastAttempt, AfterResult
  <2>2. \A k \in Jobs : HasResult(k) => HasResult(k)'
    BY <2>1 DEF HasResult
  <2>3. ResultComesFirst'
    BY <1>0, <1>5, <2>1, <2>2, NothingFiled, LetterAfterResult
       DEF DlqPush, CurrentJob, TypeOK, OutcomeInOrder
  <2>4. Proceed(w, "dlq_publish") =>
          HasResult(CurrentJob(w))' /\ workerAt'[w] \notin LastAttempt
    BY <1>1, <2>1 DEF Proceed, Goto, HasResult, CurrentJob, LastAttempt
  <2> QED  BY <1>0, <1>2, <1>5, <2>2, <2>3, <2>4, WorkerInOrder DEF DlqPush
<1>6. CASE DlqPublish(w)
  <2>1. HasResult(CurrentJob(w)) /\ UNCHANGED <<deadLetter, results>>
    BY <1>6 DEF DlqPublish, OutcomeInOrder, AfterResult
  <2>2. \A k \in Jobs : HasResult(k) => HasResult(k)'
    BY <2>1 DEF HasResult
  <2>3. ResultComesFirst'
    BY <1>0, <1>6, <2>1, <2>2, NothingFiled, MarkerAfterResult
       DEF DlqPublish, PublishSystemChunk, TypeOK, OutcomeInOrder
  <2> QED  BY <1>0, <1>2, <1>6, <2>2, <2>3, WorkerInOrder DEF DlqPublish
<1> QED  BY <1>3, <1>4, <1>5, <1>6 DEF GiveUp

\* Steps that leave every worker and monitor where it is.
LEMMA NobodyMovesInOrder ==
  ASSUME TypeOK, OutcomeInOrder, UNCHANGED <<workerAt, current, monitorVars>>,
         UNCHANGED <<completion, deadLetter>>, \A k \in Jobs : HasResult(k) => HasResult(k)'
  PROVE  OutcomeInOrder'
<1>1. ResultComesFirst'
  BY NothingFiled DEF TypeOK, OutcomeInOrder
<1>2. AfterResult \subseteq Busy /\ "dlq_push" \in NeedsOrphan
  BY BusyPoints, MonitorPoints DEF AfterResult
<1>3. ASSUME NEW v \in Workers
      PROVE  /\ workerAt'[v] \in AfterResult => HasResult(CurrentJob(v))'
             /\ workerAt'[v] \in LastAttempt => current'[v].retry = MaxRetry
  <2>1. workerAt[v] \in AfterResult => CurrentJob(v) \in Jobs
    BY <1>2, BusyHolds DEF TypeOK
  <2>2. CurrentJob(v)' = CurrentJob(v)
    BY DEF CurrentJob
  <2> QED  BY <2>1, <2>2 DEF OutcomeInOrder, HasResult
<1>4. ASSUME NEW m \in Monitors
      PROVE  /\ monitorAt'[m] = "dlq_push" => HasResult(Orphan(m).job)'
             /\ monitorAt'[m] \in LastAttempt => Orphan(m)'.retry = MaxRetry
  <2>1. monitorAt[m] = "dlq_push" => Orphan(m).job \in Jobs
    BY <1>2, MonitorHolds DEF TypeOK
  <2>2. monitorAt'[m] = monitorAt[m] /\ Orphan(m)' = Orphan(m)
    BY DEF monitorVars, scanVars, Orphan
  <2> QED  BY <2>1, <2>2 DEF OutcomeInOrder, HasResult
<1> QED  BY <1>1, <1>3, <1>4 DEF OutcomeInOrder

LEMMA GatewayInOrder ==
  ASSUME TypeOK, OutcomeInOrder, GatewayNext, UNCHANGED <<workerVars, monitorVars>>
  PROVE  OutcomeInOrder'
<1>1. UNCHANGED <<completion, deadLetter, workerAt, current>>
  BY DEF GatewayNext, Request, GatewayCrash, Submit, Enqueue, ReadDepth, MarkFailed, RecordFailure,
         redisVars, queueVars, workerVars
<1>2. ASSUME NEW j \in Jobs, RecordFailure(j)
      PROVE  \A k \in Jobs : HasResult(k) => HasResult(k)'
  <2> DEFINE output == IF results[j] = NoResult THEN "empty" ELSE results[j].output
  <2>1. output \in {"sandbox", "empty"}
    BY DEF TypeOK, StoreTypeOK, ResultTable, ResultRow
  <2>2. UpsertResult(j, output, "UNKNOWN") \/ UNCHANGED results
    BY <1>2 DEF RecordFailure, Call
  <2> HIDE DEF output
  <2> QED  BY <2>1, <2>2, UpsertGivesResult DEF TypeOK, StoreTypeOK, HasResult
<1>3. (\E j \in Jobs : RecordFailure(j)) \/ UNCHANGED results
  BY DEF GatewayNext, Request, GatewayCrash, Submit, Enqueue, ReadDepth, MarkFailed, dbVars
<1>4. \A k \in Jobs : HasResult(k) => HasResult(k)'
  BY <1>2, <1>3 DEF HasResult
<1> QED  BY <1>1, <1>4, NobodyMovesInOrder

\* One monitor steps.
LEMMA MonitorInOrder ==
  ASSUME TypeOK, OutcomeInOrder, NEW m \in Monitors, UNCHANGED workerVars,
         \A n \in Monitors : n # m => monitorAt'[n] = monitorAt[n] /\ orphans'[n] = orphans[n],
         \A k \in Jobs : HasResult(k) => HasResult(k)',
         ResultComesFirst',
         monitorAt'[m] = "dlq_push" => HasResult(Orphan(m).job)',
         monitorAt'[m] \in LastAttempt => Orphan(m)'.retry = MaxRetry
  PROVE  OutcomeInOrder'
<1>1. AfterResult \subseteq Busy /\ "dlq_push" \in NeedsOrphan
  BY BusyPoints, MonitorPoints DEF AfterResult
<1>2. ASSUME NEW v \in Workers
      PROVE  /\ workerAt'[v] \in AfterResult => HasResult(CurrentJob(v))'
             /\ workerAt'[v] \in LastAttempt => current'[v].retry = MaxRetry
  <2>1. workerAt[v] \in AfterResult => CurrentJob(v) \in Jobs
    BY <1>1, BusyHolds DEF TypeOK
  <2>2. UNCHANGED <<workerAt, current>> /\ CurrentJob(v)' = CurrentJob(v)
    BY DEF CurrentJob, workerVars
  <2> QED  BY <2>1, <2>2 DEF OutcomeInOrder, HasResult
<1>3. ASSUME NEW n \in Monitors, n # m
      PROVE  /\ monitorAt'[n] = "dlq_push" => HasResult(Orphan(n).job)'
             /\ monitorAt'[n] \in LastAttempt => Orphan(n)'.retry = MaxRetry
  <2>1. monitorAt[n] = "dlq_push" => Orphan(n).job \in Jobs
    BY <1>1, MonitorHolds DEF TypeOK
  <2>2. monitorAt'[n] = monitorAt[n] /\ Orphan(n)' = Orphan(n)
    BY <1>3 DEF Orphan
  <2> QED  BY <2>1, <2>2 DEF OutcomeInOrder, HasResult
<1> QED  BY <1>2, <1>3 DEF OutcomeInOrder

LEMMA OneMonitorHolds ==
  ASSUME MonitorTypeOK, NEW m \in Monitors,
         Startup(m) \/ Scan(m) \/ Recover(m) \/ MonitorCrash(m)
  PROVE  \A n \in Monitors :
           n # m => /\ monitorAt'[n] = monitorAt[n] /\ orphans'[n] = orphans[n]
                    /\ suspects'[n] = suspects[n] /\ target'[n] = target[n]
<1> USE DEF MonitorProceeds, Exits, ScanFails, NextOrphan, Call, scanVars, MonitorGoto
<1>0. /\ monitorAt \in [Monitors -> MonitorSteps]
      /\ orphans \in [Monitors -> Seq(QueuePayload)]
      /\ suspects \in [Monitors -> SUBSET Workers]
      /\ target \in [Monitors -> Workers \union {Nobody}]
  BY MonitorTypeAt
<1>1. CASE Startup(m)
  BY <1>0, <1>1 DEF Startup, StartMonitor, ResetRunning, MonitorReadDepth, SelectPending, Hydrate
<1>2. CASE Scan(m)
  BY <1>0, <1>2 DEF Scan, AcquireLock, ScanQueues, ScanHeartbeats, PickWorker, ReleaseLock
<1>3. CASE Recover(m)
  BY <1>0, <1>3 DEF Recover, ReadStatus, MarkPending, PushRecovered, MonitorDlqPersist,
                    MonitorDlqPush, DeleteQueue
<1>4. CASE MonitorCrash(m)
  BY <1>0, <1>4 DEF MonitorCrash
<1> QED  BY <1>1, <1>2, <1>3, <1>4

\* Steps of a monitor that write neither a result nor a dead letter.
LEMMA QuietMonitorInOrder ==
  ASSUME TypeOK, OutcomeInOrder, NEW m \in Monitors, UNCHANGED workerVars,
         Startup(m) \/ Scan(m) \/ MonitorCrash(m) \/ ReadStatus(m) \/ MarkPending(m)
           \/ PushRecovered(m) \/ DeleteQueue(m)
  PROVE  OutcomeInOrder'
<1> USE DEF dbVars, redisVars, queueVars, Call
<1>0. monitorAt \in [Monitors -> MonitorSteps]
  BY MonitorTypeAt DEF TypeOK
<1>1. UNCHANGED <<completion, deadLetter, results>>
  BY DEF Startup, StartMonitor, ResetRunning, MonitorReadDepth, SelectPending, Hydrate, Scan,
         AcquireLock, ScanQueues, ScanHeartbeats, PickWorker, ReleaseLock, MonitorCrash,
         ReadStatus, MarkPending, PushRecovered, DeleteQueue
<1>2. \A k \in Jobs : HasResult(k) => HasResult(k)'
  BY <1>1 DEF HasResult
<1>3. ResultComesFirst'
  BY <1>1, <1>2, NothingFiled DEF TypeOK, OutcomeInOrder
<1>4. \A n \in Monitors : n # m => monitorAt'[n] = monitorAt[n] /\ orphans'[n] = orphans[n]
  BY OneMonitorHolds DEF TypeOK, Recover
<1>5. CASE ReadStatus(m)
  <2>1. Orphan(m) \in QueuePayload
    BY <1>5, MonitorHolds, MonitorPoints DEF ReadStatus, TypeOK
  <2>2. CASE Exhausted(Orphan(m)) /\ MonitorProceeds(m, "dlq_persist")
    <3>1. Orphan(m)' = Orphan(m) /\ Orphan(m).retry = MaxRetry
      BY <2>1, <2>2, ExhaustedIsLast DEF MonitorProceeds, scanVars, Orphan
    <3>2. monitorAt'[m] = "dlq_persist"
      BY <1>0, <2>2 DEF MonitorProceeds, MonitorGoto
    <3> QED  BY <1>2, <1>3, <1>4, <3>1, <3>2, MonitorInOrder
  <2>3. CASE NextOrphan(m) \/ MonitorProceeds(m, "mark_pending") \/ ScanFails(m)
    <3>1. monitorAt'[m] \notin LastAttempt
      BY <1>0, <2>3 DEF NextOrphan, MonitorProceeds, ScanFails, MonitorGoto, LastAttempt
    <3> QED  BY <1>2, <1>3, <1>4, <3>1, MonitorInOrder DEF LastAttempt
  <2> QED  BY <1>5, <2>2, <2>3 DEF ReadStatus
<1>6. CASE Startup(m) \/ Scan(m) \/ MonitorCrash(m) \/ MarkPending(m) \/ PushRecovered(m)
             \/ DeleteQueue(m)
  <2>1. monitorAt'[m] \notin LastAttempt
    BY <1>0, <1>6
       DEF Startup, StartMonitor, ResetRunning, MonitorReadDepth, SelectPending, Hydrate, Scan,
           AcquireLock, ScanQueues, ScanHeartbeats, PickWorker, ReleaseLock, MonitorCrash,
           MarkPending, PushRecovered, DeleteQueue, NextOrphan, MonitorProceeds, ScanFails, Exits,
           MonitorGoto, LastAttempt
  <2> QED  BY <1>2, <1>3, <1>4, <2>1, MonitorInOrder DEF LastAttempt
<1> QED  BY <1>5, <1>6

LEMMA BuryingMonitorInOrder ==
  ASSUME TypeOK, OutcomeInOrder, NEW m \in Monitors, UNCHANGED workerVars,
         MonitorDlqPersist(m) \/ MonitorDlqPush(m)
  PROVE  OutcomeInOrder'
<1> USE DEF dbVars, redisVars, queueVars, Call
<1>0. monitorAt \in [Monitors -> MonitorSteps] /\ orphans \in [Monitors -> Seq(QueuePayload)]
  BY MonitorTypeAt DEF TypeOK
<1>1. Orphan(m) \in QueuePayload /\ Orphan(m).job \in Jobs
  BY MonitorHolds, MonitorPoints DEF MonitorDlqPersist, MonitorDlqPush, TypeOK
<1>2. \A n \in Monitors : n # m => monitorAt'[n] = monitorAt[n] /\ orphans'[n] = orphans[n]
  BY OneMonitorHolds DEF TypeOK, Recover
<1>3. Orphan(m).retry = MaxRetry
  BY DEF MonitorDlqPersist, MonitorDlqPush, OutcomeInOrder, LastAttempt
<1>4. ScanFails(m) \/ NextOrphan(m) => monitorAt'[m] \notin LastAttempt
  BY <1>0 DEF ScanFails, MonitorProceeds, NextOrphan, MonitorGoto, LastAttempt
<1>5. CASE MonitorDlqPersist(m)
  <2>1. /\ \A k \in Jobs : HasResult(k) => HasResult(k)'
        /\ DeadLetterInDb(Orphan(m).job) => results'[Orphan(m).job] # NoResult
    <3>1. DeadLetterInDb(Orphan(m).job) =>
            /\ results'[Orphan(m).job] # NoResult
            /\ \A k \in Jobs : HasResult(k) => HasResult(k)'
      BY <1>1, UpsertGivesResult DEF DeadLetterInDb, TypeOK, StoreTypeOK, HasResult
    <3>2. UNCHANGED results => \A k \in Jobs : HasResult(k) => HasResult(k)'
      BY DEF HasResult
    <3> QED  BY <1>5, <3>1, <3>2 DEF MonitorDlqPersist
  <2>2. ResultComesFirst'
    BY <1>5, <2>1, NothingFiled DEF MonitorDlqPersist, TypeOK, OutcomeInOrder
  <2>3. DeadLetterInDb(Orphan(m).job) /\ MonitorProceeds(m, "dlq_push") =>
          HasResult(Orphan(m).job)' /\ Orphan(m)'.retry = MaxRetry
    BY <1>3, <2>1 DEF MonitorProceeds, scanVars, HasResult, Orphan
  <2> QED  BY <1>2, <1>4, <1>5, <2>1, <2>2, <2>3, MonitorInOrder DEF MonitorDlqPersist, LastAttempt
<1>6. CASE MonitorDlqPush(m)
  <2>1. HasResult(Orphan(m).job) /\ UNCHANGED <<completion, results>>
    BY <1>6 DEF MonitorDlqPush, OutcomeInOrder
  <2>2. \A k \in Jobs : HasResult(k) => HasResult(k)'
    BY <2>1 DEF HasResult
  <2>3. ResultComesFirst'
    BY <1>1, <1>3, <1>6, <2>1, <2>2, NothingFiled, LetterAfterResult
       DEF MonitorDlqPush, TypeOK, OutcomeInOrder
  <2> QED  BY <1>2, <1>4, <1>6, <2>2, <2>3, MonitorInOrder DEF MonitorDlqPush, LastAttempt
<1> QED  BY <1>5, <1>6

\* The order is kept in every state, under every disruption.
LEMMA OutcomesInOrder == Spec => []OutcomeInOrder
<1>1. Init => OutcomeInOrder
  <2> SUFFICES ASSUME Init PROVE OutcomeInOrder
    OBVIOUS
  <2>1. ResultComesFirst
    BY DEF Init, StoreInit, ResultComesFirst, ToSet
  <2>2. \A w \in Workers : workerAt[w] \notin AfterResult /\ workerAt[w] \notin LastAttempt
    BY DEF Init, WorkerInit, AfterResult, LastAttempt
  <2>3. \A m \in Monitors : monitorAt[m] \notin LastAttempt
    BY DEF Init, MonitorInit, LastAttempt
  <2> QED  BY <2>1, <2>2, <2>3 DEF OutcomeInOrder, LastAttempt
<1>2. TypeOK /\ OutcomeInOrder /\ [Next]_vars => OutcomeInOrder'
  <2> SUFFICES ASSUME TypeOK, OutcomeInOrder, [Next]_vars PROVE OutcomeInOrder'
    OBVIOUS
  <2>1. ASSUME UNCHANGED <<workerAt, current, monitorVars, completion, deadLetter, results>>
        PROVE  OutcomeInOrder'
    BY <2>1, NobodyMovesInOrder DEF HasResult
  <2>2. CASE GatewayNext /\ UNCHANGED <<workerVars, monitorVars>>
    BY <2>2, GatewayInOrder
  <2>3. CASE WorkerNext /\ UNCHANGED monitorVars
    <3>1. ASSUME NEW j \in Jobs, OrphanExits(j)
          PROVE  OutcomeInOrder'
      BY <2>1, <2>3, <3>1 DEF OrphanExits, SandboxOnly, dbVars, redisVars, queueVars
    <3> QED  BY <2>3, <3>1, QuietWorkerInOrder, ConcludeInOrder, GiveUpInOrder DEF WorkerNext, Loop
  <2>4. CASE MonitorNext /\ UNCHANGED workerVars
    <3>1. CASE LockExpires
      BY <2>1, <2>4, <3>1 DEF LockExpires, workerVars, dbVars, queueVars
    <3> QED  BY <2>4, <3>1, QuietMonitorInOrder, BuryingMonitorInOrder DEF MonitorNext, Recover
  <2>5. CASE UNCHANGED vars
    BY <2>1, <2>5 DEF vars, storeVars, workerVars, dbVars, redisVars, queueVars
  <2> QED  BY <2>2, <2>3, <2>4, <2>5 DEF Next
<1> QED  BY <1>1, <1>2, TypeCorrect, PTL DEF Spec

\* Whatever crashes, fails or is lost, nothing is announced or filed as dead
\* before its result row is written, and only a job with no retry left is
\* filed (COMMIT before LREM and PUBLISH, COMMIT before the LPUSH of sendToDLQ).
THEOREM ResultAlwaysFirst == Spec => []ResultComesFirst
<1>1. OutcomeInOrder => ResultComesFirst
  BY DEF OutcomeInOrder
<1> QED  BY <1>1, OutcomesInOrder, PTL

(***************************************************************************)
(* Who is recovered. A worker that lives has a heartbeat, one that has not *)
(* started has no queue, and one that is gone never comes back: so a queue *)
(* without a heartbeat belongs to a worker that is gone for good.          *)
(***************************************************************************)
Gone(w) == workerAt[w] \in {"stopped", "crashed"}

LifeSigns ==
  /\ \A w \in Workers : Alive(w) => heartbeat[w]
  /\ \A w \in Workers : workerAt[w] = "off" => processing[w] = <<>>

SuspectsGone ==
  \A m \in Monitors :
    /\ monitorAt[m] = "scan_heartbeats" => \A w \in suspects[m] : workerAt[w] # "off"
    /\ monitorAt[m] = "pick_worker" \/ Recovering(m) => \A w \in suspects[m] : Gone(w)
    /\ Recovering(m) => Gone(target[m])

LEMMA GoneIsNotAlive == \A w \in Workers : Gone(w) <=> ~Alive(w) /\ workerAt[w] # "off"
BY DEF Gone, Alive, Inert

\* A step of a worker's loop starts and ends in the loop, or ends it.
LEMMA LoopLives ==
  ASSUME StoreTypeOK, WorkerTypeOK, NEW w \in Workers, Loop(w)
  PROVE  /\ Alive(w) /\ workerAt'[w] # "off" /\ UNCHANGED heartbeat
         /\ \A v \in Workers : v # w => processing'[v] = processing[v]
<1> USE DEF Goto, Proceed, NextIteration, Call, Alive, Inert, RemoveRaw, MoveOldest
<1> USE DEF KeepsSignals, KeepsQueues, RedisOnly, DbOnly, SandboxOnly, PublishOnly, queueVars, redisVars
<1>0. /\ workerAt \in [Workers -> {"pop"} \union Busy \union Inert]
      /\ processing \in [Workers -> Queue]
  BY DEF WorkerTypeOK, StoreTypeOK, Queues
<1>1. CASE Take(w)
  BY <1>0, <1>1 DEF Take, Pop, PopTimesOut, Claim, Check, GiveBack, Discard
<1>2. CASE RunJob(w)
  BY <1>0, <1>2 DEF RunJob, RemoveStaleContainer, StartContainer, ContainerExits
<1>3. CASE Conclude(w)
  BY <1>0, <1>3 DEF Conclude, Persist, Acknowledge, PublishCompletion
<1>4. CASE PutBack(w)
  BY <1>0, <1>4 DEF PutBack, Requeue, PushRetry, RemoveOld
<1>5. CASE GiveUp(w)
  BY <1>0, <1>5 DEF GiveUp, RemoveExhausted, DlqPersist, DlqPush, DlqPublish
<1> QED  BY <1>1, <1>2, <1>3, <1>4, <1>5 DEF Loop

\* What the workers do to each other's signs of life: nothing.
LEMMA WorkerSignsOfLife ==
  ASSUME "heartbeat_lapse" \notin Disruptions, "redis_error" \notin Disruptions,
         StoreTypeOK, WorkerTypeOK, LifeSigns, WorkerNext
  PROVE  /\ LifeSigns'
         /\ \A w \in Workers : workerAt[w] # "off" => workerAt'[w] # "off"
         /\ \A w \in Workers : Gone(w) => Gone(w)'
<1> USE DEF dbVars, redisVars, queueVars, workerVars, Alive, Inert, Gone
<1>0. /\ workerAt \in [Workers -> {"pop"} \union Busy \union Inert]
      /\ heartbeat \in [Workers -> BOOLEAN]
  BY DEF WorkerTypeOK, StoreTypeOK
<1>1. ASSUME NEW w \in Workers, Loop(w)
      PROVE  /\ LifeSigns'
             /\ \A v \in Workers : workerAt[v] # "off" => workerAt'[v] # "off"
             /\ \A v \in Workers : Gone(v) => Gone(v)'
  BY <1>1, LoopLives, OneWorkerMoves DEF LifeSigns
<1>2. ASSUME NEW w \in Workers, StartWorker(w) \/ Sigterm(w) \/ WorkerCrash(w)
      PROVE  /\ LifeSigns'
             /\ \A v \in Workers : workerAt[v] # "off" => workerAt'[v] # "off"
             /\ \A v \in Workers : Gone(v) => Gone(v)'
  <2>1. CASE StartWorker(w)
    <3>1. workerAt' = [workerAt EXCEPT ![w] = "pop"] /\ heartbeat' = [heartbeat EXCEPT ![w] = TRUE]
          /\ UNCHANGED processing
      BY <2>1 DEF StartWorker, Proceed, Goto, Call, Disrupted, KeepsQueues
    <3> QED  BY <1>0, <2>1, <3>1 DEF LifeSigns, StartWorker
  <2>2. CASE Sigterm(w)
    BY <2>2 DEF Sigterm, LifeSigns
  <2>3. CASE WorkerCrash(w)
    <3>1. workerAt' = [workerAt EXCEPT ![w] = "crashed"] /\ UNCHANGED <<heartbeat, processing>>
      BY <2>3 DEF WorkerCrash, Goto
    <3> QED  BY <1>0, <2>3, <3>1 DEF LifeSigns, WorkerCrash
  <2> QED  BY <1>2, <2>1, <2>2, <2>3
<1>3. ASSUME NEW w \in Workers, SendHeartbeat(w) \/ HeartbeatExpires(w)
      PROVE  /\ LifeSigns'
             /\ \A v \in Workers : workerAt[v] # "off" => workerAt'[v] # "off"
             /\ \A v \in Workers : Gone(v) => Gone(v)'
  <2>1. UNCHANGED <<workerAt, processing>>
    BY <1>3 DEF SendHeartbeat, HeartbeatExpires
  <2>2. \A v \in Workers : heartbeat[v] /\ Alive(v) => heartbeat'[v]
    BY <1>0, <1>3 DEF SendHeartbeat, HeartbeatExpires, Disrupted
  <2> QED  BY <2>1, <2>2 DEF LifeSigns
<1>4. ASSUME NEW j \in Jobs, OrphanExits(j)
      PROVE  /\ LifeSigns'
             /\ \A v \in Workers : workerAt[v] # "off" => workerAt'[v] # "off"
             /\ \A v \in Workers : Gone(v) => Gone(v)'
  BY <1>4 DEF OrphanExits, SandboxOnly, LifeSigns
<1> QED  BY <1>1, <1>2, <1>3, <1>4 DEF WorkerNext, Live

\* A monitor takes entries away, or leaves them, and writes no heartbeat.
LEMMA MonitorSignsOfLife ==
  ASSUME StoreTypeOK, MonitorTypeOK, LifeSigns, MonitorNext, UNCHANGED workerVars
  PROVE  LifeSigns' /\ \A w \in Workers : Gone(w) => Gone(w)'
<1>1. UNCHANGED <<workerAt, heartbeat>>
  BY DEF MonitorNext, Startup, StartMonitor, ResetRunning, MonitorReadDepth, SelectPending, Hydrate,
         Scan, AcquireLock, ScanQueues, ScanHeartbeats, PickWorker, ReleaseLock, Recover,
         ReadStatus, MarkPending, PushRecovered, MonitorDlqPersist, MonitorDlqPush, DeleteQueue,
         MonitorCrash, LockExpires, Call, redisVars, workerVars
<1>2. \A w \in Workers : processing[w] = <<>> => processing'[w] = <<>>
  <2>1. processing \in [Workers -> Queue]
    BY DEF StoreTypeOK, Queues
  <2>2. ASSUME NEW m \in Monitors, DeleteQueue(m)
        PROVE  processing' = [processing EXCEPT ![target[m]] = <<>>] \/ UNCHANGED processing
    BY <2>2 DEF DeleteQueue, Call
  <2>3. (\E m \in Monitors : DeleteQueue(m)) \/ UNCHANGED processing
    BY DEF MonitorNext, Startup, StartMonitor, ResetRunning, MonitorReadDepth, SelectPending,
           Hydrate, Scan, AcquireLock, ScanQueues, ScanHeartbeats, PickWorker, ReleaseLock, Recover,
           ReadStatus, MarkPending, PushRecovered, MonitorDlqPersist, MonitorDlqPush,
           MonitorCrash, LockExpires, redisVars, queueVars
  <2> QED  BY <2>1, <2>2, <2>3
<1> QED  BY <1>1, <1>2 DEF LifeSigns, Gone, Alive

LEMMA MonitorKnowsGone ==
  ASSUME StoreTypeOK, MonitorTypeOK, LifeSigns, SuspectsGone, MonitorNext, UNCHANGED workerVars
  PROVE  SuspectsGone'
<1> USE DEF MonitorProceeds, MonitorGoto, scanVars
<1>0. /\ monitorAt \in [Monitors -> MonitorSteps] /\ suspects \in [Monitors -> SUBSET Workers]
      /\ target \in [Monitors -> Workers \union {Nobody}]
  BY MonitorTypeAt
<1>1. \A w : Gone(w)' = Gone(w) /\ workerAt'[w] = workerAt[w]
  BY DEF Gone, workerVars
<1>2. ASSUME NEW m \in Monitors, Startup(m) \/ Scan(m) \/ Recover(m) \/ MonitorCrash(m),
             monitorAt'[m] = "scan_heartbeats" => \A w \in suspects'[m] : workerAt[w] # "off",
             monitorAt'[m] = "pick_worker" \/ monitorAt'[m] \in RecoverSteps =>
               \A w \in suspects'[m] : Gone(w),
             monitorAt'[m] \in RecoverSteps => Gone(target'[m])
      PROVE  SuspectsGone'
  <2>1. \A n \in Monitors : n # m => /\ monitorAt'[n] = monitorAt[n] /\ suspects'[n] = suspects[n]
                                     /\ target'[n] = target[n]
    BY <1>2, OneMonitorHolds
  <2> QED  BY <1>1, <1>2, <2>1 DEF SuspectsGone, Recovering
<1>3. ASSUME NEW m \in Monitors, Startup(m) \/ MonitorCrash(m) \/ AcquireLock(m) \/ ReleaseLock(m)
      PROVE  SuspectsGone'
  <2>1. monitorAt'[m] \notin {"scan_heartbeats", "pick_worker"} \union RecoverSteps
    BY <1>0, <1>3
       DEF Startup, StartMonitor, ResetRunning, MonitorReadDepth, SelectPending, Hydrate, MonitorCrash,
           AcquireLock, ReleaseLock, Exits, Call, RecoverSteps
  <2> QED  BY <1>2, <1>3, <2>1 DEF Scan
<1>4. ASSUME NEW m \in Monitors, ScanQueues(m)
      PROVE  SuspectsGone'
  <2>1. CASE ScanFails(m)
    <3>1. monitorAt'[m] = "release"
      BY <1>0, <2>1 DEF ScanFails
    <3> QED  BY <1>2, <1>4, <3>1 DEF Scan, RecoverSteps
  <2>2. CASE /\ suspects' = [suspects EXCEPT ![m] = {w \in Workers : processing[w] # <<>>}]
             /\ MonitorGoto(m, "scan_heartbeats")
    <3>1. /\ monitorAt'[m] = "scan_heartbeats"
          /\ suspects'[m] = {w \in Workers : processing[w] # <<>>}
      BY <1>0, <2>2
    <3>2. \A w \in suspects'[m] : workerAt[w] # "off"
      BY <3>1 DEF LifeSigns
    <3> QED  BY <1>2, <1>4, <3>1, <3>2 DEF Scan, RecoverSteps
  <2> QED  BY <1>4, <2>1, <2>2 DEF ScanQueues
<1>5. ASSUME NEW m \in Monitors, ScanHeartbeats(m)
      PROVE  SuspectsGone'
  <2>1. CASE ScanFails(m)
    <3>1. monitorAt'[m] = "release"
      BY <1>0, <2>1 DEF ScanFails
    <3> QED  BY <1>2, <1>5, <3>1 DEF Scan, RecoverSteps
  <2>2. CASE /\ suspects' = [suspects EXCEPT ![m] = DeadWorkers(m)]
             /\ MonitorGoto(m, IF DeadWorkers(m) = {} THEN "release" ELSE "pick_worker")
    <3>1. \A w \in DeadWorkers(m) : Gone(w)
      BY <1>0, <1>5, GoneIsNotAlive DEF DeadWorkers, ScanHeartbeats, SuspectsGone, LifeSigns
    <3>2. suspects'[m] = DeadWorkers(m) /\ monitorAt'[m] \in {"release", "pick_worker"}
      BY <1>0, <2>2
    <3> QED  BY <1>2, <1>5, <3>1, <3>2 DEF Scan, RecoverSteps
  <2> QED  BY <1>5, <2>1, <2>2 DEF ScanHeartbeats
<1>6. ASSUME NEW m \in Monitors, PickWorker(m)
      PROVE  SuspectsGone'
  <2>1. CASE ScanFails(m)
    <3>1. monitorAt'[m] = "release"
      BY <1>0, <2>1 DEF ScanFails
    <3> QED  BY <1>2, <1>6, <3>1 DEF Scan, RecoverSteps
  <2>2. ASSUME NEW w \in suspects[m], suspects' = [suspects EXCEPT ![m] = suspects[m] \ {w}],
               target' = [target EXCEPT ![m] = w]
        PROVE  SuspectsGone'
    <3>1. \A v \in suspects[m] : Gone(v)
      BY <1>6 DEF PickWorker, SuspectsGone
    <3>2. suspects'[m] = suspects[m] \ {w} /\ target'[m] = w
      BY <1>0, <2>2
    <3>3. monitorAt'[m] # "scan_heartbeats"
      BY <1>0, <1>6 DEF PickWorker, ScanFails
    <3> QED  BY <1>2, <1>6, <3>1, <3>2, <3>3 DEF Scan
  <2> QED  BY <1>6, <2>1, <2>2 DEF PickWorker
<1>7. ASSUME NEW m \in Monitors, Recover(m)
      PROVE  SuspectsGone'
  <2>1. Recovering(m) /\ UNCHANGED <<suspects, target>> /\ monitorAt'[m] # "scan_heartbeats"
    BY <1>0, <1>7
       DEF Recover, ReadStatus, MarkPending, PushRecovered, MonitorDlqPersist, MonitorDlqPush,
           DeleteQueue, NextOrphan, ScanFails, Call, Recovering, RecoverSteps
  <2> QED  BY <1>2, <1>7, <2>1 DEF SuspectsGone
<1>8. CASE LockExpires
  BY <1>1, <1>8 DEF LockExpires, SuspectsGone, Recovering, monitorVars
<1> QED  BY <1>3, <1>4, <1>5, <1>6, <1>7, <1>8 DEF MonitorNext, Scan

LEMMA SignsHold ==
  ASSUME "heartbeat_lapse" \notin Disruptions, "redis_error" \notin Disruptions
  PROVE  Spec => [](LifeSigns /\ SuspectsGone)
<1> DEFINE Inv == LifeSigns /\ SuspectsGone
<1>1. Init => Inv
  BY DEF Init, StoreInit, WorkerInit, MonitorInit, LifeSigns, SuspectsGone, Alive, Inert, Recovering,
         RecoverSteps
<1>2. TypeOK /\ Inv /\ [Next]_vars => Inv'
  <2> SUFFICES ASSUME TypeOK, Inv, [Next]_vars PROVE Inv'
    OBVIOUS
  <2>1. ASSUME UNCHANGED <<monitorVars, workerAt, heartbeat, processing>>
        PROVE  Inv'
    BY <2>1 DEF LifeSigns, SuspectsGone, Alive, Gone, Recovering, monitorVars, scanVars
  <2>2. CASE GatewayNext /\ UNCHANGED <<workerVars, monitorVars>>
    <3>1. UNCHANGED <<heartbeat, processing>>
      BY <2>2 DEF GatewayNext, Request, GatewayCrash, Submit, Enqueue, ReadDepth, MarkFailed,
                  RecordFailure, redisVars, queueVars
    <3> QED  BY <2>1, <2>2, <3>1 DEF workerVars
  <2>3. CASE WorkerNext /\ UNCHANGED monitorVars
    <3>1. /\ LifeSigns'
          /\ \A w \in Workers : workerAt[w] # "off" => workerAt'[w] # "off"
          /\ \A w \in Workers : Gone(w) => Gone(w)'
      BY <2>3, WorkerSignsOfLife DEF TypeOK
    <3>2. \A m \in Monitors : suspects[m] \subseteq Workers /\ (Recovering(m) => target[m] \in Workers)
      BY MonitorTypeAt DEF TypeOK, Recovering
    <3>3. SuspectsGone'
      <4>1. ASSUME NEW m \in Monitors
            PROVE  /\ monitorAt'[m] = monitorAt[m] /\ suspects'[m] = suspects[m]
                   /\ target'[m] = target[m] /\ Recovering(m)' = Recovering(m)
        BY <2>3 DEF monitorVars, scanVars, Recovering
      <4>2. ASSUME NEW m \in Monitors, Recovering(m)
            PROVE  Gone(target[m])'
        <5>1. target[m] \in Workers /\ Gone(target[m]) /\ target'[m] = target[m]
          BY <3>2, <4>1, <4>2 DEF SuspectsGone
        <5> QED  BY <3>1, <5>1 DEF Gone
      <4> QED  BY <3>1, <3>2, <4>1, <4>2 DEF SuspectsGone, Gone
    <3> QED  BY <3>1, <3>3
  <2>4. CASE MonitorNext /\ UNCHANGED workerVars
    BY <2>4, MonitorSignsOfLife, MonitorKnowsGone DEF TypeOK
  <2>5. CASE UNCHANGED vars
    BY <2>1, <2>5 DEF vars, storeVars, workerVars, redisVars, queueVars
  <2> QED  BY <2>2, <2>3, <2>4, <2>5 DEF Next
<1> HIDE DEF Inv
<1>3. Spec => []Inv
  BY <1>1, <1>2, TypeCorrect, PTL DEF Spec
<1> QED  BY <1>3 DEF Inv

\* While heartbeats reach Redis in time, the queue that the reaper reads,
\* copies and deletes belongs to a worker that will never touch it again.
THEOREM OnlyDeadRecoveredSafe ==
  ASSUME "heartbeat_lapse" \notin Disruptions, "redis_error" \notin Disruptions
  PROVE  Spec => []OnlyDeadRecovered
<1>1. LifeSigns /\ SuspectsGone => OnlyDeadRecovered
  BY DEF OnlyDeadRecovered, SuspectsGone, Gone, Alive, Inert
<1> QED  BY <1>1, SignsHold, PTL
=============================================================================
