---------------------------- MODULE CustodyProofs ----------------------------
(***************************************************************************)
(* That no accepted job is lost, and that results agree with statuses: for *)
(* any jobs, workers, monitors and retry limit.                            *)
(***************************************************************************)
EXTENDS SafetyProofs

(***************************************************************************)
(* Lists of one entry, and entries put at the head or taken from the tail. *)
(***************************************************************************)
LEMMA Singletons ==
  ASSUME NEW e \in QueuePayload
  PROVE  /\ <<e>> \in Queue /\ <<e>> # <<>> /\ Len(<<e>>) = 1
         /\ Head(<<e>>) = e /\ Tail(<<e>>) = <<>>
         /\ LPush(<<>>, e) = <<e>> /\ LRem(<<e>>, e) = <<>>
<1>1. /\ <<e>> \in Queue /\ <<e>> # <<>> /\ Len(<<e>>) = 1
      /\ Head(<<e>>) = e /\ Tail(<<e>>) = <<>> /\ LPush(<<>>, e) = <<e>>
  BY DEF Queue, LPush
<1>2. \E k \in 1..Len(<<e>>) : LRem(<<e>>, e) = RemoveAt(<<e>>, k)
  <2>1. 1 \in 1..Len(<<e>>) /\ <<e>>[1] = e /\ <<e>> \in Seq(QueuePayload)
    BY <1>1 DEF Queue
  <2> QED  BY <2>1, LRemRemovesOne
<1>3. LRem(<<e>>, e) = RemoveAt(<<e>>, 1)
  BY <1>1, <1>2
<1>4. SubSeq(<<e>>, 1, 0) = <<>> /\ SubSeq(<<e>>, 2, 1) = <<>>
  BY <1>1 DEF Queue
<1> QED  BY <1>1, <1>3, <1>4 DEF RemoveAt

LEMMA PushAndPop ==
  ASSUME NEW q \in Queue
  PROVE  /\ \A e \in QueuePayload : ToSet(LPush(q, e)) = ToSet(q) \union {e}
         /\ q # <<>> => /\ Last(q) \in QueuePayload /\ Last(q) \in ToSet(q)
                        /\ Front(q) \in Queue
                        /\ ToSet(q) = ToSet(Front(q)) \union {Last(q)}
         /\ ToSet(q) \subseteq QueuePayload
<1>1. ToSet(q) \subseteq QueuePayload
  BY DEF Queue, ToSet
<1>2. ASSUME NEW e \in QueuePayload
      PROVE  ToSet(LPush(q, e)) = ToSet(q) \union {e}
  <2>1. /\ Len(LPush(q, e)) = Len(q) + 1 /\ Len(q) \in Nat
        /\ DOMAIN q = 1..Len(q) /\ DOMAIN LPush(q, e) = 1..(Len(q) + 1)
        /\ LPush(q, e)[1] = e
        /\ \A i \in 1..Len(q) : LPush(q, e)[i + 1] = q[i]
    BY DEF Queue, LPush
  <2>2. ASSUME NEW x \in ToSet(q) \union {e}
        PROVE  x \in ToSet(LPush(q, e))
    <3>1. CASE x = e
      BY <2>1, <3>1 DEF ToSet
    <3>2. CASE x \in ToSet(q)
      <4>1. PICK i \in 1..Len(q) : q[i] = x
        BY <2>1, <3>2 DEF ToSet
      <4>2. i + 1 \in DOMAIN LPush(q, e) /\ LPush(q, e)[i + 1] = x
        BY <2>1, <4>1
      <4> QED  BY <4>2 DEF ToSet
    <3> QED  BY <2>2, <3>1, <3>2
  <2>3. ASSUME NEW x \in ToSet(LPush(q, e))
        PROVE  x \in ToSet(q) \union {e}
    BY LPushToSet
  <2> QED  BY <2>2, <2>3
<1>3. ASSUME q # <<>>
      PROVE  /\ Last(q) \in QueuePayload /\ Last(q) \in ToSet(q) /\ Front(q) \in Queue
             /\ ToSet(q) = ToSet(Front(q)) \union {Last(q)}
  <2>1. /\ Len(q) \in Nat \ {0} /\ DOMAIN q = 1..Len(q)
        /\ DOMAIN Front(q) = 1..(Len(q) - 1)
        /\ \A i \in 1..(Len(q) - 1) : Front(q)[i] = q[i]
        /\ Last(q) = q[Len(q)]
    BY <1>3 DEF Queue, Front, Last
  <2>2. Last(q) \in QueuePayload /\ Front(q) \in Queue
    BY <1>3, LastFrontType DEF Queue
  <2>3. Last(q) \in ToSet(q)
    BY <2>1 DEF ToSet
  <2>4. \A x \in ToSet(q) : x \in ToSet(Front(q)) \union {Last(q)}
    <3> SUFFICES ASSUME NEW i \in DOMAIN q
                 PROVE  q[i] \in ToSet(Front(q)) \union {Last(q)}
      BY DEF ToSet
    <3>1. i = Len(q) \/ i \in DOMAIN Front(q)
      BY <2>1
    <3> QED  BY <2>1, <3>1 DEF ToSet
  <2>5. \A x \in ToSet(Front(q)) : x \in ToSet(q)
    <3> SUFFICES ASSUME NEW i \in DOMAIN Front(q)  PROVE Front(q)[i] \in ToSet(q)
      BY DEF ToSet
    <3>1. i \in DOMAIN q /\ Front(q)[i] = q[i]
      BY <2>1
    <3> QED  BY <3>1 DEF ToSet
  <2> QED  BY <2>2, <2>3, <2>4, <2>5
<1> QED  BY <1>1, <1>2, <1>3

(***************************************************************************)
(* The shape of the queues while only processes and sandboxes fail: a      *)
(* worker's list holds the entry it works on and no other, and what a      *)
(* monitor works on is what the list of its target holds.                  *)
(***************************************************************************)
OnlyProcessesFail ==
  Disruptions \subseteq {"worker_crash", "sigterm", "gateway_crash", "monitor_crash", "spawn_error"}

EmptyHanded == {"off", "pop", "stopped", "publish", "dlq_persist", "dlq_push", "dlq_publish"}
FullHanded  == {"claim", "check", "give_back", "discard", "acknowledge", "requeue", "push_retry",
                "remove_old"} \union Sandboxed

Single(q) == q = <<>> \/ \E e \in QueuePayload : q = <<e>>

HandsOf(w) ==
  /\ Single(processing[w])
  /\ workerAt[w] \in EmptyHanded => processing[w] = <<>>
  /\ workerAt[w] \in FullHanded => processing[w] = <<current[w]>>
  /\ workerAt[w] \in Requeuing => "spawn_error" \in Disruptions

CopyOf(m) == monitorAt[m] \in NeedsOrphan => orphans[m] = processing[target[m]]

Shape == (\A w \in Workers : HandsOf(w)) /\ (\A m \in Monitors : CopyOf(m))

LEMMA HandPoints ==
  /\ EmptyHanded \intersect FullHanded = {} /\ FullHanded \subseteq Busy
  /\ Busy \subseteq EmptyHanded \union FullHanded
  /\ {"pop", "stopped", "off", "publish", "dlq_persist", "dlq_push", "dlq_publish"} \subseteq EmptyHanded
  /\ {"claim", "check", "give_back", "discard", "acknowledge", "requeue", "push_retry",
      "remove_old", "remove_stale", "start_container", "running", "persist"} \subseteq FullHanded
  /\ Requeuing = {"requeue", "push_retry", "remove_old", "dlq_persist", "dlq_push", "dlq_publish"}
  /\ "crashed" \notin EmptyHanded \union FullHanded \union Requeuing
BY DEF EmptyHanded, FullHanded, Busy, Sandboxed, Requeuing

LEMMA SingleIsQueue ==
  ASSUME NEW q, Single(q)
  PROVE  q \in Queue /\ (q # <<>> => q = <<Head(q)>> /\ Head(q) \in QueuePayload /\ Tail(q) = <<>>)
<1>1. <<>> \in Queue
  BY EmptySeq DEF Queue
<1> QED  BY <1>1, Singletons DEF Single

\* A worker moves on with its entry, or drops it at the end of an iteration.
LEMMA ProceedHands ==
  ASSUME WorkerTypeOK, StoreTypeOK, NEW w \in Workers, HandsOf(w), NEW point,
         Proceed(w, point),
         point \in FullHanded => workerAt[w] \in FullHanded /\ UNCHANGED processing,
         point \in EmptyHanded => processing'[w] = <<>>,
         Single(processing'[w]),
         point \in Requeuing => "spawn_error" \in Disruptions
  PROVE  HandsOf(w)'
<1>1. workerAt'[w] = point /\ current'[w] = current[w]
  BY DEF Proceed, Goto, WorkerTypeOK
<1> QED  BY <1>1 DEF HandsOf

LEMMA DropHands ==
  ASSUME WorkerTypeOK, NEW w \in Workers, NextIteration(w), processing'[w] = <<>>
  PROVE  HandsOf(w)'
<1>1. workerAt'[w] \in {"pop", "stopped"}
  BY DEF NextIteration, Goto, WorkerTypeOK
<1>2. workerAt'[w] \notin FullHanded /\ workerAt'[w] \notin Requeuing
  BY <1>1, HandPoints
<1> QED  BY <1>2 DEF HandsOf, Single

\* LREM by a worker of the entry it works on leaves its list empty.
LEMMA RemoveRawEmpties ==
  ASSUME WorkerTypeOK, StoreTypeOK, NEW w \in Workers, HandsOf(w), workerAt[w] \in FullHanded,
         RemoveRaw(w)
  PROVE  processing'[w] = <<>> /\ Single(processing'[w])
<1>1. processing[w] = <<current[w]>> /\ current[w] \in QueuePayload
  BY HandPoints, BusyHolds DEF HandsOf
<1>2. LRem(processing[w], current[w]) = <<>>
  BY <1>1, Singletons
<1> QED  BY <1>2 DEF RemoveRaw, StoreTypeOK, Queues, Single

LEMMA TakeHands ==
  ASSUME OnlyProcessesFail, StoreTypeOK, WorkerTypeOK, NEW w \in Workers, HandsOf(w), Take(w)
  PROVE  HandsOf(w)'
<1> USE DEF Call, Disrupted, OnlyProcessesFail
<1>1. CASE Pop(w)
  <2> DEFINE e == Last(pending)
  <2>1. e \in QueuePayload
    BY <1>1, PushAndPop DEF Pop, StoreTypeOK
  <2>2. processing[w] = <<>>
    BY <1>1, HandPoints DEF Pop, HandsOf
  <2>3. processing'[w] = <<e>>
    BY <1>1, <2>1, <2>2, Singletons DEF Pop, MoveOldest, StoreTypeOK, Queues
  <2>4. workerAt'[w] = "claim" /\ current'[w] = e
    BY <1>1 DEF Pop, Goto, WorkerTypeOK
  <2> HIDE DEF e
  <2> QED  BY <2>1, <2>3, <2>4, HandPoints DEF HandsOf, Single
<1>2. CASE PopTimesOut(w)
  <2>1. processing'[w] = <<>>
    BY <1>2, HandPoints DEF PopTimesOut, HandsOf, KeepsQueues, queueVars
  <2> QED  BY <1>2, <2>1, DropHands DEF PopTimesOut
<1>3. CASE Claim(w) \/ Check(w) \/ GiveBack(w)
  <2>1. workerAt[w] \in FullHanded /\ UNCHANGED processing
    BY <1>3, HandPoints
       DEF Claim, Check, GiveBack, DbOnly, RedisOnly, redisVars, queueVars
  <2>2. \E p \in {"remove_stale", "check", "discard", "give_back"} : Proceed(w, p)
    BY <1>3 DEF Claim, Check, GiveBack
  <2>3. Single(processing'[w])
    BY <2>1 DEF HandsOf
  <2> QED  BY <2>1, <2>2, <2>3, HandPoints, ProceedHands
<1>4. CASE Discard(w)
  <2>1. workerAt[w] \in FullHanded /\ RemoveRaw(w) /\ NextIteration(w)
    BY <1>4, HandPoints DEF Discard
  <2> QED  BY <2>1, RemoveRawEmpties, DropHands
<1> QED  BY <1>1, <1>2, <1>3, <1>4 DEF Take

LEMMA RunHands ==
  ASSUME OnlyProcessesFail, StoreTypeOK, WorkerTypeOK, NEW w \in Workers, HandsOf(w),
         RunJob(w) \/ Conclude(w)
  PROVE  HandsOf(w)'
<1> USE DEF Call, Disrupted, OnlyProcessesFail
<1>1. CASE RunJob(w) \/ Persist(w)
  <2>1. workerAt[w] \in FullHanded /\ UNCHANGED <<processing, current>>
    BY <1>1, HandPoints
       DEF RunJob, RemoveStaleContainer, StartContainer, ContainerExits, Persist, Proceed,
           SandboxOnly, DbOnly, redisVars, queueVars
  <2>2. \/ workerAt'[w] \in {"start_container", "running", "persist", "acknowledge"}
        \/ workerAt'[w] = "requeue" /\ "spawn_error" \in Disruptions
    BY <1>1 DEF RunJob, RemoveStaleContainer, StartContainer, ContainerExits, Persist, Proceed, Goto,
                WorkerTypeOK
  <2> QED  BY <2>1, <2>2, HandPoints DEF HandsOf
<1>2. CASE Acknowledge(w)
  <2>1. workerAt[w] \in FullHanded /\ RemoveRaw(w) /\ Proceed(w, "publish")
    BY <1>2, HandPoints DEF Acknowledge
  <2>2. "publish" \notin FullHanded /\ "publish" \notin Requeuing
    BY HandPoints
  <2> QED  BY <2>1, <2>2, RemoveRawEmpties, ProceedHands
<1>3. CASE PublishCompletion(w)
  <2>1. NextIteration(w) /\ workerAt[w] \in EmptyHanded /\ UNCHANGED processing
    BY <1>3, HandPoints DEF PublishCompletion, PublishOnly, KeepsQueues, queueVars
  <2> QED  BY <2>1, DropHands DEF HandsOf
<1> QED  BY <1>1, <1>2, <1>3 DEF Conclude

LEMMA BackHands ==
  ASSUME OnlyProcessesFail, StoreTypeOK, WorkerTypeOK, NEW w \in Workers, HandsOf(w),
         PutBack(w) \/ GiveUp(w)
  PROVE  HandsOf(w)'
<1> USE DEF Call, Disrupted, OnlyProcessesFail
<1>0. "spawn_error" \in Disruptions
  BY HandPoints
     DEF PutBack, Requeue, PushRetry, RemoveOld, GiveUp, RemoveExhausted, DlqPersist, DlqPush,
         DlqPublish, HandsOf
<1>1. CASE Requeue(w) \/ PushRetry(w)
  <2>1. workerAt[w] \in FullHanded /\ UNCHANGED processing
    BY <1>1, HandPoints DEF Requeue, PushRetry, DbOnly, redisVars, queueVars
  <2>2. \E p \in {"push_retry", "remove_old"} : Proceed(w, p)
    BY <1>1 DEF Requeue, PushRetry
  <2>3. Single(processing'[w])
    BY <2>1 DEF HandsOf
  <2> QED  BY <1>0, <2>1, <2>2, <2>3, HandPoints, ProceedHands
<1>2. CASE RemoveOld(w) \/ RemoveExhausted(w)
  <2>1. workerAt[w] \in FullHanded /\ RemoveRaw(w)
    BY <1>2, HandPoints DEF RemoveOld, RemoveExhausted
  <2>2. NextIteration(w) \/ Proceed(w, "dlq_persist")
    BY <1>2 DEF RemoveOld, RemoveExhausted
  <2>3. "dlq_persist" \notin FullHanded
    BY HandPoints
  <2> QED  BY <1>0, <2>1, <2>2, <2>3, RemoveRawEmpties, ProceedHands, DropHands
<1>3. CASE DlqPersist(w) \/ DlqPush(w) \/ DlqPublish(w)
  <2>1. workerAt[w] \in EmptyHanded /\ UNCHANGED processing
    BY <1>3, HandPoints
       DEF DlqPersist, DlqPush, DlqPublish, DbOnly, PublishOnly, KeepsQueues, redisVars, queueVars
  <2>2. NextIteration(w) \/ \E p \in {"dlq_push", "dlq_publish"} : Proceed(w, p)
    BY <1>3 DEF DlqPersist, DlqPush, DlqPublish
  <2>3. processing'[w] = <<>> /\ Single(processing'[w])
    BY <2>1 DEF HandsOf
  <2>4. "dlq_push" \notin FullHanded /\ "dlq_publish" \notin FullHanded
    BY HandPoints
  <2> QED  BY <1>0, <2>1, <2>2, <2>3, <2>4, ProceedHands, DropHands
<1> QED  BY <1>1, <1>2, <1>3 DEF PutBack, GiveUp

LEMMA LiveHands ==
  ASSUME StoreTypeOK, WorkerTypeOK, NEW w \in Workers, HandsOf(w), StartWorker(w) \/ Live(w)
  PROVE  HandsOf(w)' /\ UNCHANGED processing
<1>1. UNCHANGED processing
  BY DEF StartWorker, Live, SendHeartbeat, HeartbeatExpires, Sigterm, WorkerCrash, KeepsQueues,
         redisVars, queueVars
<1>2. CASE StartWorker(w)
  <2>1. workerAt'[w] = "pop" /\ processing[w] = <<>>
    BY <1>2, HandPoints DEF StartWorker, Proceed, Goto, WorkerTypeOK, HandsOf
  <2> QED  BY <1>1, <2>1, HandPoints DEF HandsOf
<1>3. CASE WorkerCrash(w)
  <2>1. workerAt'[w] = "crashed"
    BY <1>3 DEF WorkerCrash, Goto, WorkerTypeOK
  <2> QED  BY <1>1, <2>1, HandPoints DEF HandsOf
<1>4. CASE SendHeartbeat(w) \/ HeartbeatExpires(w) \/ Sigterm(w)
  <2>1. UNCHANGED <<workerAt, current>>
    BY <1>4 DEF SendHeartbeat, HeartbeatExpires, Sigterm, workerVars
  <2> QED  BY <1>1, <2>1 DEF HandsOf
<1> QED  BY <1>1, <1>2, <1>3, <1>4 DEF Live

\* A worker changes no list but its own, and no monitor works on that one.
LEMMA WorkerKeepsShape ==
  ASSUME OnlyProcessesFail, TypeOK, SuspectsGone, Shape, WorkerNext, UNCHANGED monitorVars
  PROVE  Shape'
<1>1. ASSUME NEW w \in Workers, StartWorker(w) \/ Live(w) \/ Loop(w)
      PROVE  Shape'
  <2>1. HandsOf(w)'
    BY <1>1, TakeHands, RunHands, BackHands, LiveHands DEF Loop, Shape, TypeOK
  <2>2. \A v \in Workers : v # w => /\ processing'[v] = processing[v]
                                    /\ workerAt'[v] = workerAt[v] /\ current'[v] = current[v]
    BY <1>1, LoopLives, LiveHands, OneWorkerMoves DEF TypeOK, Shape
  <2>3. ASSUME NEW v \in Workers
        PROVE  HandsOf(v)'
    BY <2>1, <2>2 DEF Shape, HandsOf
  <2>4. ASSUME NEW m \in Monitors
        PROVE  CopyOf(m)'
    <3>1. UNCHANGED <<monitorAt, orphans, target>>
      BY DEF monitorVars, scanVars
    <3>2. ASSUME monitorAt[m] \in NeedsOrphan
          PROVE  processing'[target[m]] = processing[target[m]]
      <4>1. target[m] \in Workers /\ Gone(target[m])
        BY <3>2, MonitorPoints, MonitorTypeAt DEF TypeOK, SuspectsGone, Recovering
      <4>2. CASE Loop(w)
        BY <2>2, <4>1, <4>2, LoopLives DEF TypeOK, Gone, Alive, Inert
      <4>3. CASE StartWorker(w) \/ Live(w)
        BY <4>3, LiveHands DEF TypeOK, Shape
      <4> QED  BY <1>1, <4>2, <4>3
    <3> QED  BY <3>1, <3>2 DEF CopyOf, Shape
  <2> QED  BY <2>3, <2>4 DEF Shape
<1>2. ASSUME NEW j \in Jobs, OrphanExits(j)
      PROVE  Shape'
  BY <1>2 DEF OrphanExits, SandboxOnly, Shape, HandsOf, CopyOf, monitorVars, scanVars, redisVars,
              queueVars
<1> QED  BY <1>1, <1>2 DEF WorkerNext

\* A list of one entry has been handled when its first entry has.
LEMMA NextIsDelete ==
  ASSUME TypeOK, Shape, NEW m \in Monitors, monitorAt[m] \in NeedsOrphan, NextOrphan(m)
  PROVE  monitorAt'[m] = "delete_queue" /\ orphans'[m] = <<>> /\ target'[m] = target[m]
<1>1. target[m] \in Workers
  BY MonitorPoints, MonitorTypeAt DEF TypeOK
<1>2. Single(orphans[m]) /\ orphans[m] # <<>>
  BY <1>1, MonitorTypeAt DEF TypeOK, Shape, HandsOf, CopyOf
<1>3. Tail(orphans[m]) = <<>>
  BY <1>2, SingleIsQueue
<1> QED  BY <1>3, MonitorTypeAt DEF TypeOK, NextOrphan, MonitorGoto

LEMMA ScanCopies ==
  ASSUME TypeOK, NEW m \in Monitors, Startup(m) \/ Scan(m) \/ MonitorCrash(m)
  PROVE  CopyOf(m)' /\ UNCHANGED processing
<1> USE DEF Call, MonitorProceeds, MonitorGoto, Exits, ScanFails, redisVars, queueVars
<1>0. /\ monitorAt \in [Monitors -> MonitorSteps]
      /\ orphans \in [Monitors -> Seq(QueuePayload)]
      /\ target \in [Monitors -> Workers \union {Nobody}]
  BY MonitorTypeAt DEF TypeOK
<1>1. UNCHANGED processing
  BY DEF Startup, StartMonitor, ResetRunning, MonitorReadDepth, SelectPending, Hydrate, Scan,
         AcquireLock, ScanQueues, ScanHeartbeats, PickWorker, ReleaseLock, MonitorCrash
<1>2. CASE PickWorker(m)
  <2>1. ASSUME NEW w \in suspects[m], target' = [target EXCEPT ![m] = w],
               orphans' = [orphans EXCEPT ![m] = processing[w]]
        PROVE  CopyOf(m)'
    BY <1>0, <1>1, <2>1 DEF CopyOf
  <2>2. CASE ScanFails(m)
    <3>1. monitorAt'[m] = "release"
      BY <1>0, <2>2
    <3>2. monitorAt'[m] \notin NeedsOrphan
      BY <3>1, MonitorPoints
    <3> QED  BY <1>1, <3>2 DEF CopyOf
  <2> QED  BY <1>2, <2>1, <2>2 DEF PickWorker
<1>3. CASE Startup(m) \/ AcquireLock(m) \/ ScanQueues(m) \/ ScanHeartbeats(m) \/ ReleaseLock(m)
             \/ MonitorCrash(m)
  <2>1. monitorAt'[m] \in {"down", "asleep", "scan_queues", "scan_heartbeats", "pick_worker",
                           "release"} \union StartupSteps
    BY <1>0, <1>3
       DEF Startup, StartMonitor, ResetRunning, MonitorReadDepth, SelectPending, Hydrate,
           AcquireLock, ScanQueues, ScanHeartbeats, ReleaseLock, MonitorCrash, StartupSteps
  <2>2. monitorAt'[m] \notin NeedsOrphan
    BY <2>1, MonitorPoints
  <2> QED  BY <1>1, <2>2 DEF CopyOf
<1> QED  BY <1>1, <1>2, <1>3 DEF Scan

LEMMA RecoverCopies ==
  ASSUME OnlyProcessesFail, TypeOK, Shape, NEW m \in Monitors, Recover(m)
  PROVE  /\ CopyOf(m)'
         /\ \A w \in Workers : \/ processing'[w] = processing[w]
                               \/ w = target[m] /\ processing'[w] = <<>>
<1> USE DEF Call, Disrupted, OnlyProcessesFail, redisVars, queueVars
<1>0. /\ monitorAt \in [Monitors -> MonitorSteps] /\ processing \in [Workers -> Queue]
      /\ target \in [Monitors -> Workers \union {Nobody}]
  BY MonitorTypeAt DEF TypeOK, StoreTypeOK, Queues
<1>1. CASE DeleteQueue(m)
  <2>1. monitorAt'[m] \in {"release", "pick_worker"}
    BY <1>0, <1>1 DEF DeleteQueue, MonitorProceeds, MonitorGoto
  <2>2. monitorAt'[m] \notin NeedsOrphan
    BY <2>1, MonitorPoints
  <2>3. processing' = [processing EXCEPT ![target[m]] = <<>>]
    BY <1>1 DEF DeleteQueue
  <2>4. target[m] \in Workers
    BY <1>0, <1>1, MonitorPoints, MonitorTypeAt DEF DeleteQueue, TypeOK
  <2>5. \A w \in Workers : \/ processing'[w] = processing[w]
                           \/ w = target[m] /\ processing'[w] = <<>>
    BY <1>0, <2>3, <2>4
  <2> QED  BY <2>2, <2>5 DEF CopyOf
<1>2. CASE ReadStatus(m) \/ MarkPending(m) \/ PushRecovered(m) \/ MonitorDlqPersist(m)
             \/ MonitorDlqPush(m)
  <2>1. UNCHANGED processing /\ monitorAt[m] \in NeedsOrphan
    BY <1>2, MonitorPoints DEF ReadStatus, MarkPending, PushRecovered, MonitorDlqPersist, MonitorDlqPush
  <2>2. NextOrphan(m) \/ UNCHANGED <<orphans, target>>
    BY <1>2 DEF ReadStatus, MarkPending, PushRecovered, MonitorDlqPersist, MonitorDlqPush,
                MonitorProceeds, scanVars
  <2>3. CASE NextOrphan(m)
    <3>1. monitorAt'[m] \notin NeedsOrphan
      BY <2>1, <2>3, NextIsDelete, MonitorPoints
    <3> QED  BY <2>1, <3>1 DEF CopyOf
  <2>4. CASE UNCHANGED <<orphans, target>>
    <3>1. orphans[m] = processing[target[m]]
      BY <2>1 DEF CopyOf, Shape
    <3>2. orphans'[m] = processing'[target'[m]]
      BY <2>1, <2>4, <3>1
    <3> QED  BY <2>1, <3>2 DEF CopyOf
  <2> QED  BY <2>2, <2>3, <2>4
<1> QED  BY <1>1, <1>2 DEF Recover

\* The only list a monitor changes is that of its target, which is gone, and
\* no other monitor is reading one.
LEMMA MonitorKeepsShape ==
  ASSUME OnlyProcessesFail, TypeOK, LockHeld, SuspectsGone, Shape, MonitorNext, UNCHANGED workerVars
  PROVE  Shape'
<1>1. ASSUME NEW m \in Monitors, Startup(m) \/ Scan(m) \/ Recover(m) \/ MonitorCrash(m)
      PROVE  Shape'
  <2>1. \A w \in Workers : \/ processing'[w] = processing[w]
                           \/ Recover(m) /\ w = target[m] /\ processing'[w] = <<>>
    BY <1>1, ScanCopies, RecoverCopies
  <2>2. Recover(m) => Scanning(m) /\ Recovering(m)
    BY DEF Recover, ReadStatus, MarkPending, PushRecovered, MonitorDlqPersist, MonitorDlqPush,
           DeleteQueue, Scanning, ScanSteps, Recovering, RecoverSteps
  <2>3. ASSUME NEW w \in Workers
        PROVE  HandsOf(w)'
    <3>1. workerAt'[w] = workerAt[w] /\ current'[w] = current[w] /\ HandsOf(w)
      BY DEF workerVars, Shape
    <3>2. CASE processing'[w] = processing[w]
      BY <3>1, <3>2 DEF HandsOf
    <3>3. CASE Recover(m) /\ w = target[m] /\ processing'[w] = <<>>
      <4>1. workerAt[w] \in {"stopped", "crashed"}
        BY <2>2, <3>3 DEF SuspectsGone, Gone
      <4>2. workerAt[w] \notin FullHanded
        BY <4>1, HandPoints
      <4> QED  BY <3>1, <3>3, <4>2 DEF HandsOf, Single
    <3> QED  BY <2>1, <3>2, <3>3
  <2>4. ASSUME NEW n \in Monitors, n # m
        PROVE  CopyOf(n)'
    <3>1. /\ monitorAt'[n] = monitorAt[n] /\ orphans'[n] = orphans[n] /\ target'[n] = target[n]
      BY <1>1, <2>4, OneMonitorHolds DEF TypeOK
    <3>2. monitorAt[n] \in NeedsOrphan => ~Recover(m)
      BY <2>2, <2>4, MonitorPoints DEF LockHeld, Scanning, ScanSteps
    <3>3. monitorAt[n] \in NeedsOrphan => target[n] \in Workers
      BY MonitorPoints, MonitorTypeAt DEF TypeOK
    <3> QED  BY <2>1, <3>1, <3>2, <3>3 DEF CopyOf, Shape
  <2>5. CopyOf(m)'
    BY <1>1, ScanCopies, RecoverCopies
  <2> QED  BY <2>3, <2>4, <2>5 DEF Shape
<1>2. CASE LockExpires
  BY <1>2 DEF LockExpires, Shape, HandsOf, CopyOf, monitorVars, scanVars, workerVars, queueVars
<1> QED  BY <1>1, <1>2 DEF MonitorNext

\* The queues have their shape in every state.
LEMMA ShapeHolds ==
  ASSUME OnlyProcessesFail
  PROVE  Spec => [](LockHeld /\ SuspectsGone /\ Shape)
<1> DEFINE Base == LockHeld /\ SuspectsGone
<1>1. Spec => []Base
  <2>1. /\ "lock_expiry" \notin Disruptions /\ "heartbeat_lapse" \notin Disruptions
        /\ "redis_error" \notin Disruptions
    BY DEF OnlyProcessesFail
  <2> QED  BY <2>1, LockIsHeld, SignsHold, PTL
<1>2. Init => Shape
  <2>1. Init => /\ \A w \in Workers : workerAt[w] = "off" /\ processing[w] = <<>>
                /\ \A m \in Monitors : monitorAt[m] = "asleep"
    BY DEF Init, WorkerInit, StoreInit, MonitorInit
  <2>2. "off" \notin FullHanded /\ "off" \notin Requeuing /\ "asleep" \notin NeedsOrphan
    BY HandPoints, MonitorPoints
  <2> QED  BY <2>1, <2>2 DEF Shape, HandsOf, CopyOf, Single
<1>3. TypeOK /\ Base /\ Shape /\ [Next]_vars => Shape'
  <2> SUFFICES ASSUME TypeOK, Base, Shape, [Next]_vars PROVE Shape'
    OBVIOUS
  <2>1. ASSUME UNCHANGED <<workerAt, current, processing, monitorVars>>
        PROVE  Shape'
    BY <2>1 DEF Shape, HandsOf, CopyOf, monitorVars, scanVars
  <2>2. CASE GatewayNext /\ UNCHANGED <<workerVars, monitorVars>>
    <3>1. UNCHANGED processing
      BY <2>2 DEF GatewayNext, Request, GatewayCrash, Submit, Enqueue, ReadDepth, MarkFailed,
                  RecordFailure, redisVars, queueVars
    <3> QED  BY <2>1, <2>2, <3>1 DEF workerVars
  <2>3. CASE UNCHANGED vars
    BY <2>1, <2>3 DEF vars, storeVars, workerVars, redisVars, queueVars
  <2> QED  BY <2>2, <2>3, WorkerKeepsShape, MonitorKeepsShape DEF Next
<1> HIDE DEF Base
<1>4. Spec => [](Base /\ Shape)
  BY <1>1, <1>2, <1>3, TypeCorrect, PTL DEF Spec
<1> QED  BY <1>4, PTL DEF Base

(***************************************************************************)
(* Where a job is kept. An entry is spent once its job is decided or a     *)
(* copy of it is pushed: what a worker is about to remove, and what is     *)
(* left in a list that a monitor is about to delete.                       *)
(***************************************************************************)
RetriesOrCrashes == "worker_crash" \notin Disruptions \/ "spawn_error" \notin Disruptions

DeletedNext(w) == \E m \in Monitors : monitorAt[m] = "delete_queue" /\ target[m] = w
Spent(w)       == workerAt[w] \in {"acknowledge", "discard", "remove_old"} \/ DeletedNext(w)

Holds(w, j)   == processing[w] # <<>> /\ Head(processing[w]).job = j /\ ~Spent(w)
Carries(w, j) == workerAt[w] \in {"push_retry", "dlq_persist"} /\ CurrentJob(w) = j
HeldBy(w, j)  == Holds(w, j) \/ Carries(w, j)
Saves(m, j)   == monitorAt[m] \in {"push_recovered", "dlq_persist"} /\ Orphan(m).job = j

Kept(j) ==
  \/ Decided(j) \/ Waits(j)
  \/ \E w \in Workers : HeldBy(w, j)
  \/ \E m \in Monitors : Saves(m, j)

\* What a step of worker w makes of a job it has, of one that waits, and of
\* one that is decided.
HandsOn(w, j) ==
  /\ HeldBy(w, j) => HeldBy(w, j)' \/ Waits(j)' \/ Decided(j)'
  /\ Waits(j) => Waits(j)' \/ HeldBy(w, j)'
  /\ Decided(j) => Decided(j)' \/ HeldBy(w, j)'

LEMMA AliveIsNoTarget ==
  ASSUME MonitorTypeOK, SuspectsGone, NEW w \in Workers, ~Gone(w)
  PROVE  ~DeletedNext(w)
BY MonitorPoints DEF DeletedNext, SuspectsGone, Recovering

LEMMA PushedWaits ==
  ASSUME StoreTypeOK, NEW e \in QueuePayload, EnqueuePending(e)
  PROVE  /\ \A j \in Jobs : Waits(j) => Waits(j)'
         /\ \A j \in Jobs : e.job = j => Waits(j)'
<1>1. ToSet(pending') = ToSet(pending) \union {e}
  BY PushAndPop DEF EnqueuePending, StoreTypeOK
<1> QED  BY <1>1 DEF Waits

LEMMA HoldsCurrent ==
  ASSUME WorkerTypeOK, NEW w \in Workers, HandsOf(w), workerAt[w] \in FullHanded, NEW j
  PROVE  /\ processing[w] # <<>>
         /\ Head(processing[w]).job = j <=> CurrentJob(w) = j
<1>1. current[w] \in QueuePayload /\ processing[w] = <<current[w]>>
  BY HandPoints, BusyHolds DEF HandsOf
<1> QED  BY <1>1, Singletons DEF CurrentJob

\* A step that leaves lists and rows alone, between points where the entry is
\* not spent.
LEMMA QuietHandsOn ==
  ASSUME WorkerTypeOK, NEW w \in Workers, NEW j \in Jobs, ~DeletedNext(w), HandsOf(w),
         UNCHANGED <<pending, processing, monitorVars>>,
         workerAt'[w] \notin {"acknowledge", "discard", "remove_old"},
         ~Carries(w, j), Decided(j) => Decided(j)'
  PROVE  HandsOn(w, j)
<1>1. ~Spent(w)'
  BY DEF Spent, DeletedNext, monitorVars, scanVars
<1>2. Holds(w, j) => Holds(w, j)'
  BY <1>1 DEF Holds
<1> QED  BY <1>2 DEF HandsOn, HeldBy, Waits

LEMMA TakeHandsOn ==
  ASSUME OnlyProcessesFail, StoreTypeOK, WorkerTypeOK, MonitorTypeOK, SuspectsGone,
         NEW w \in Workers, HandsOf(w), Take(w), UNCHANGED monitorVars, NEW j \in Jobs
  PROVE  HandsOn(w, j)
<1> USE DEF Call, Disrupted, OnlyProcessesFail, dbVars, rowVars, redisVars, queueVars
<1> USE DEF DbOnly, RedisOnly, KeepsQueues
<1>0. workerAt \in [Workers -> {"pop"} \union Busy \union Inert]
  BY DEF WorkerTypeOK
<1>1. ~DeletedNext(w) /\ ~DeletedNext(w)'
  <2>1. ~Gone(w)
    BY DEF Take, Pop, PopTimesOut, Claim, Check, GiveBack, Discard, Gone
  <2>2. ~DeletedNext(w)
    BY <2>1, AliveIsNoTarget
  <2> QED  BY <2>2 DEF DeletedNext, monitorVars, scanVars
<1>2. ~Carries(w, j)
  BY DEF Take, Pop, PopTimesOut, Claim, Check, GiveBack, Discard, Carries
<1>3. CASE Pop(w)
  <2> DEFINE e == Last(pending)
  <2>1. e \in QueuePayload /\ ToSet(pending) = ToSet(Front(pending)) \union {e}
    BY <1>3, PushAndPop DEF Pop, StoreTypeOK
  <2>2. processing[w] = <<>>
    BY <1>3, HandPoints DEF Pop, HandsOf
  <2>3. processing'[w] = <<e>> /\ workerAt'[w] = "claim"
    BY <1>0, <1>3, <2>1, <2>2, Singletons DEF Pop, MoveOldest, Goto, StoreTypeOK, Queues
  <2>4. pending' = Front(pending) /\ UNCHANGED status
    BY <1>3 DEF Pop, MoveOldest
  <2> HIDE DEF e
  <2>5. ~Spent(w)'
    BY <1>1, <2>3 DEF Spent
  <2>6. e.job = j => Holds(w, j)'
    BY <2>1, <2>3, <2>5, Singletons DEF Holds
  <2>7. Waits(j) => e.job = j \/ Waits(j)'
    BY <2>1, <2>4 DEF Waits
  <2> QED  BY <1>2, <2>2, <2>4, <2>6, <2>7 DEF HandsOn, HeldBy, Holds, Decided
<1>4. CASE PopTimesOut(w)
  <2>1. workerAt'[w] \in {"pop", "stopped"} /\ UNCHANGED <<pending, processing, status>>
    BY <1>0, <1>4 DEF PopTimesOut, NextIteration, Goto
  <2> QED  BY <1>1, <1>2, <2>1, QuietHandsOn DEF Decided
<1>5. CASE Claim(w)
  <2>1. workerAt'[w] \in {"remove_stale", "check"} /\ UNCHANGED <<pending, processing>>
    BY <1>0, <1>5 DEF Claim, Proceed, Goto
  <2>2. Decided(j) => Decided(j)'
    BY <1>5 DEF Claim, Decided, IsTerminalStatus, TerminalStatuses, StoreTypeOK, StatusTable
  <2> QED  BY <1>1, <1>2, <2>1, <2>2, QuietHandsOn
<1>6. CASE Check(w)
  <2>1. UNCHANGED <<pending, processing, status>>
    BY <1>6 DEF Check
  <2>2. CASE workerAt'[w] = "discard" /\ Decided(CurrentJob(w))
    <3>1. Holds(w, j) => Decided(j)
      BY <1>6, <2>2, HandPoints, HoldsCurrent DEF Check, Holds
    <3> QED  BY <1>2, <2>1, <3>1 DEF HandsOn, HeldBy, Waits, Decided
  <2>3. CASE workerAt'[w] = "give_back"
    BY <1>1, <1>2, <2>1, <2>3, QuietHandsOn DEF Decided
  <2> QED  BY <1>0, <1>6, <2>2, <2>3 DEF Check, Proceed, Goto, Decided
<1>7. CASE GiveBack(w)
  <2>1. /\ workerAt[w] \in FullHanded /\ current[w] \in QueuePayload
        /\ EnqueuePending(current[w]) /\ UNCHANGED <<processing, status>>
    BY <1>7, HandPoints, BusyHolds DEF GiveBack
  <2>2. Waits(j) \/ Holds(w, j) => Waits(j)'
    BY <2>1, PushedWaits, HoldsCurrent DEF Holds, CurrentJob
  <2> QED  BY <1>2, <2>1, <2>2 DEF HandsOn, HeldBy, Decided
<1>8. CASE Discard(w)
  <2>1. ~Holds(w, j) /\ UNCHANGED <<pending, status>>
    BY <1>8 DEF Discard, Holds, Spent
  <2> QED  BY <1>2, <2>1 DEF HandsOn, HeldBy, Waits, Decided
<1> QED  BY <1>3, <1>4, <1>5, <1>6, <1>7, <1>8 DEF Take

\* A worker that has nothing, or whose entry is spent, loses nothing.
LEMMA SpentHandsOn ==
  ASSUME NEW w \in Workers, NEW j \in Jobs, ~HeldBy(w, j), UNCHANGED <<pending, status>>
  PROVE  HandsOn(w, j)
BY DEF HandsOn, Waits, Decided

LEMMA FinalIsTerminal == \A v \in Verdicts : IsTerminalStatus(FinalStatus(v))
BY DEF Verdicts, FinalStatus, IsTerminalStatus, TerminalStatuses

LEMMA RunHandsOn ==
  ASSUME OnlyProcessesFail, StoreTypeOK, WorkerTypeOK, MonitorTypeOK, SuspectsGone,
         NEW w \in Workers, HandsOf(w), RunJob(w) \/ Conclude(w), UNCHANGED monitorVars,
         NEW j \in Jobs
  PROVE  HandsOn(w, j)
<1> USE DEF Call, Disrupted, OnlyProcessesFail, dbVars, rowVars, redisVars, queueVars
<1> USE DEF DbOnly, RedisOnly, SandboxOnly, PublishOnly, KeepsQueues
<1>0. workerAt \in [Workers -> {"pop"} \union Busy \union Inert]
  BY DEF WorkerTypeOK
<1>1. ~Carries(w, j) /\ ~Gone(w)
  BY DEF RunJob, RemoveStaleContainer, StartContainer, ContainerExits, Conclude, Persist,
         Acknowledge, PublishCompletion, Carries, Gone
<1>2. CASE RunJob(w)
  <2>1. /\ workerAt'[w] \in {"start_container", "running", "persist", "requeue"}
        /\ UNCHANGED <<pending, processing, status>>
    BY <1>0, <1>2 DEF RunJob, RemoveStaleContainer, StartContainer, ContainerExits, Proceed, Goto
  <2> QED  BY <1>1, <2>1, AliveIsNoTarget, QuietHandsOn DEF Decided
<1>3. CASE Persist(w)
  <2>1. /\ UNCHANGED <<pending, processing>> /\ verdict[w] \in Verdicts
        /\ status' = [status EXCEPT ![CurrentJob(w)] = FinalStatus(verdict[w])]
        /\ workerAt[w] \in FullHanded
    BY <1>3, HandPoints DEF Persist, WorkerTypeOK, SetStatus
  <2>2. IsTerminalStatus(FinalStatus(verdict[w]))
    BY <2>1, FinalIsTerminal
  <2>3. Decided(j) \/ CurrentJob(w) = j => Decided(j)'
    BY <2>1, <2>2 DEF Decided, StoreTypeOK, StatusTable
  <2>4. Holds(w, j) => CurrentJob(w) = j
    BY <2>1, HoldsCurrent DEF Holds
  <2> QED  BY <1>1, <2>1, <2>3, <2>4 DEF HandsOn, HeldBy, Waits
<1>4. CASE Acknowledge(w)
  <2>1. ~Holds(w, j) /\ UNCHANGED <<pending, status>>
    BY <1>4 DEF Acknowledge, Holds, Spent
  <2> QED  BY <1>1, <2>1, SpentHandsOn DEF HeldBy
<1>5. CASE PublishCompletion(w)
  <2>1. processing[w] = <<>> /\ UNCHANGED <<pending, status>>
    BY <1>5, HandPoints DEF PublishCompletion, HandsOf
  <2> QED  BY <1>1, <2>1, SpentHandsOn DEF HeldBy, Holds
<1> QED  BY <1>2, <1>3, <1>4, <1>5 DEF Conclude

\* A retry is pushed before the old entry goes; a dead letter is written after
\* it, out of the worker's memory.
LEMMA BackHandsOn ==
  ASSUME OnlyProcessesFail, StoreTypeOK, WorkerTypeOK, NEW w \in Workers, HandsOf(w),
         PutBack(w) \/ GiveUp(w), UNCHANGED monitorVars, NEW j \in Jobs
  PROVE  HandsOn(w, j)
<1> USE DEF Call, Disrupted, OnlyProcessesFail, dbVars, rowVars, redisVars, queueVars
<1> USE DEF DbOnly, RedisOnly, PublishOnly, KeepsQueues
<1>0. /\ workerAt \in [Workers -> {"pop"} \union Busy \union Inert]
      /\ status \in [Jobs -> RowStates]
  BY DEF WorkerTypeOK, StoreTypeOK, StatusTable
<1>1. workerAt[w] \in Busy /\ current[w] \in QueuePayload /\ CurrentJob(w) \in Jobs
  <2>1. workerAt[w] \in Requeuing
    BY HandPoints
       DEF PutBack, Requeue, PushRetry, RemoveOld, GiveUp, RemoveExhausted, DlqPersist, DlqPush,
           DlqPublish
  <2> QED  BY <2>1, BusyHolds DEF Busy
<1>2. Holds(w, j) => CurrentJob(w) = j
  <2>1. CASE workerAt[w] \in FullHanded
    BY <2>1, HoldsCurrent DEF Holds
  <2>2. CASE workerAt[w] \in EmptyHanded
    BY <2>2 DEF HandsOf, Holds
  <2> QED  BY <1>1, <2>1, <2>2, HandPoints
<1>3. HeldBy(w, j) => CurrentJob(w) = j
  BY <1>2 DEF HeldBy, Carries
<1>4. CASE Requeue(w) \/ RemoveExhausted(w)
  <2>1. workerAt'[w] \in {"push_retry", "dlq_persist"} /\ UNCHANGED <<pending, current>>
    BY <1>0, <1>4 DEF Requeue, RemoveExhausted, Proceed, Goto
  <2>2. CurrentJob(w) = j => Carries(w, j)'
    BY <2>1 DEF Carries, CurrentJob
  <2>3. CurrentJob(w) # j => status'[j] = status[j]
    BY <1>0, <1>1, <1>4 DEF Requeue, RemoveExhausted, MarkForRetry, SetStatus
  <2> QED  BY <1>3, <2>1, <2>2, <2>3 DEF HandsOn, HeldBy, Waits, Decided
<1>5. CASE PushRetry(w)
  <2> DEFINE e == Entry(CurrentJob(w), current[w].retry + 1)
  <2>1. ~Exhausted(current[w])
    BY <1>5 DEF PushRetry, WorkerTypeOK
  <2>2. e \in QueuePayload /\ e.job = CurrentJob(w)
    BY <1>1, <2>1, RetryStaysPayload DEF CurrentJob, Entry
  <2>3. EnqueuePending(e) /\ UNCHANGED status
    BY <1>5 DEF PushRetry
  <2> HIDE DEF e
  <2>4. (Waits(j) => Waits(j)') /\ (CurrentJob(w) = j => Waits(j)')
    BY <2>2, <2>3, PushedWaits
  <2> QED  BY <1>3, <2>3, <2>4 DEF HandsOn, Decided
<1>6. CASE RemoveOld(w)
  <2>1. ~HeldBy(w, j) /\ UNCHANGED <<pending, status>>
    BY <1>6 DEF RemoveOld, HeldBy, Holds, Carries, Spent
  <2> QED  BY <2>1, SpentHandsOn
<1>7. CASE DlqPersist(w)
  <2>1. UNCHANGED pending /\ status' = [status EXCEPT ![CurrentJob(w)] = "FAILED"]
    BY <1>7 DEF DlqPersist, DeadLetterInDb, SetStatus
  <2>2. Decided(j) \/ CurrentJob(w) = j => Decided(j)'
    BY <1>0, <2>1 DEF Decided, IsTerminalStatus, TerminalStatuses
  <2> QED  BY <1>3, <2>1, <2>2 DEF HandsOn, Waits
<1>8. CASE DlqPush(w) \/ DlqPublish(w)
  <2>1. workerAt[w] \in EmptyHanded /\ UNCHANGED <<pending, status>>
    BY <1>8, HandPoints DEF DlqPush, DlqPublish
  <2>2. ~Holds(w, j)
    BY <2>1 DEF HandsOf, Holds
  <2>3. ~Carries(w, j)
    BY <1>8 DEF DlqPush, DlqPublish, Carries
  <2> QED  BY <2>1, <2>2, <2>3, SpentHandsOn DEF HeldBy
<1> QED  BY <1>4, <1>5, <1>6, <1>7, <1>8 DEF PutBack, GiveUp

\* A worker that dies leaves its entry in its list, unless it was putting a job
\* back, which RetriesOrCrashes rules out.
LEMMA LiveHandsOn ==
  ASSUME RetriesOrCrashes, StoreTypeOK, WorkerTypeOK, NEW w \in Workers, HandsOf(w),
         StartWorker(w) \/ Live(w), UNCHANGED monitorVars, NEW j \in Jobs
  PROVE  HandsOn(w, j)
<1>0. workerAt \in [Workers -> {"pop"} \union Busy \union Inert]
  BY DEF WorkerTypeOK
<1>1. UNCHANGED <<pending, processing, status, monitorAt, target>>
  BY DEF StartWorker, Live, SendHeartbeat, HeartbeatExpires, Sigterm, WorkerCrash, KeepsQueues,
         redisVars, queueVars, dbVars, rowVars, monitorVars, scanVars
<1>2. CASE SendHeartbeat(w) \/ HeartbeatExpires(w) \/ Sigterm(w)
  <2>1. UNCHANGED <<workerAt, current>>
    BY <1>2 DEF SendHeartbeat, HeartbeatExpires, Sigterm, workerVars
  <2> QED  BY <1>1, <2>1 DEF HandsOn, HeldBy, Holds, Carries, Spent, DeletedNext, Waits, Decided,
                             CurrentJob
<1>3. CASE StartWorker(w) \/ WorkerCrash(w)
  <2>1. workerAt'[w] \in {"pop", "crashed"}
    BY <1>0, <1>3 DEF StartWorker, WorkerCrash, Proceed, Goto
  <2>2. ~Carries(w, j)
    <3>1. CASE StartWorker(w)
      BY <3>1 DEF StartWorker, Carries
    <3>2. CASE WorkerCrash(w)
      <4>1. "worker_crash" \in Disruptions
        BY <3>2 DEF WorkerCrash, Disrupted
      <4>2. workerAt[w] \notin Requeuing
        BY <4>1 DEF RetriesOrCrashes, HandsOf
      <4> QED  BY <4>2, HandPoints DEF Carries
    <3> QED  BY <1>3, <3>1, <3>2
  <2>3. Holds(w, j) => Holds(w, j)'
    BY <1>1, <2>1 DEF Holds, Spent, DeletedNext
  <2> QED  BY <1>1, <2>2, <2>3 DEF HandsOn, HeldBy, Waits, Decided
<1> QED  BY <1>2, <1>3 DEF Live

LEMMA WorkerKeepsJob ==
  ASSUME OnlyProcessesFail, RetriesOrCrashes, TypeOK, SuspectsGone, Shape,
         WorkerNext, UNCHANGED monitorVars, NEW j \in Jobs, Kept(j)
  PROVE  Kept(j)'
<1>1. UNCHANGED <<monitorAt, target, orphans>>
  BY DEF monitorVars, scanVars
<1>2. \A m \in Monitors : Saves(m, j) => Saves(m, j)'
  BY <1>1 DEF Saves, Orphan
<1>3. ASSUME NEW w \in Workers, StartWorker(w) \/ Live(w) \/ Loop(w)
      PROVE  Kept(j)'
  <2>1. HandsOn(w, j)
    <3>1. HandsOf(w)
      BY DEF Shape
    <3> QED  BY <1>3, <3>1, TakeHandsOn, RunHandsOn, BackHandsOn, LiveHandsOn DEF Loop, TypeOK
  <2>2. ASSUME NEW v \in Workers, v # w, HeldBy(v, j)
        PROVE  HeldBy(v, j)'
    <3>1. /\ processing'[v] = processing[v]
          /\ workerAt'[v] = workerAt[v] /\ current'[v] = current[v]
      BY <1>3, <2>2, LoopLives, LiveHands, OneWorkerMoves DEF TypeOK, Shape
    <3> QED  BY <1>1, <2>2, <3>1 DEF HeldBy, Holds, Carries, Spent, DeletedNext, CurrentJob
  <2> QED  BY <1>2, <2>1, <2>2 DEF Kept, HandsOn
<1>4. ASSUME NEW k \in Jobs, OrphanExits(k)
      PROVE  Kept(j)'
  <2>1. UNCHANGED <<pending, processing, status, workerAt, current>>
    BY <1>4 DEF OrphanExits, SandboxOnly, dbVars, rowVars, redisVars, queueVars
  <2> QED  BY <1>1, <2>1 DEF Kept, HeldBy, Holds, Carries, Spent, DeletedNext, CurrentJob, Saves,
                             Orphan, Waits, Decided
<1> QED  BY <1>3, <1>4 DEF WorkerNext

(***************************************************************************)
(* What a step leaves alone. A worker touches the rows of the job it works *)
(* on and no others, a monitor those of the orphan it recovers.            *)
(***************************************************************************)
SameRows(k) == /\ status'[k] = status[k] /\ retryCount'[k] = retryCount[k]
               /\ results'[k] = results[k]

LEMMA WorkerTouches ==
  ASSUME StoreTypeOK, WorkerTypeOK, NEW w \in Workers, Loop(w),
         NEW k \in Jobs, k # CurrentJob(w)
  PROVE  SameRows(k)
<1> USE DEF Call, Disrupted, dbVars, rowVars, redisVars, queueVars
<1> USE DEF DbOnly, RedisOnly, SandboxOnly, PublishOnly, KeepsQueues
<1>0. /\ status \in [Jobs -> RowStates] /\ retryCount \in [Jobs -> 0..MaxRetry]
      /\ results \in [Jobs -> ResultRow \union {NoResult}]
  BY DEF StoreTypeOK, StatusTable, RetryTable, ResultTable
<1>1. CASE Take(w) \/ RunJob(w)
  BY <1>0, <1>1 DEF SameRows, Take, Pop, PopTimesOut, Claim, Check, GiveBack, Discard, RunJob,
                    RemoveStaleContainer, StartContainer, ContainerExits
<1>2. CASE Conclude(w)
  BY <1>0, <1>2 DEF SameRows, Conclude, Persist, Acknowledge, PublishCompletion, UpsertResult, SetStatus
<1>3. CASE PutBack(w)
  BY <1>0, <1>3 DEF SameRows, PutBack, Requeue, PushRetry, RemoveOld, MarkForRetry, SetStatus
<1>4. CASE GiveUp(w)
  BY <1>0, <1>4 DEF SameRows, GiveUp, RemoveExhausted, DlqPersist, DlqPush, DlqPublish,
                    DeadLetterInDb, UpsertResult, SetStatus
<1> QED  BY <1>1, <1>2, <1>3, <1>4 DEF Loop

LEMMA LiveTouchesNothing ==
  ASSUME NEW w \in Workers, StartWorker(w) \/ Live(w)
  PROVE  UNCHANGED <<dbVars, queueVars, completion, container>>
BY DEF StartWorker, Live, SendHeartbeat, HeartbeatExpires, Sigterm, WorkerCrash, KeepsQueues,
       KeepsWorld, redisVars, workerVars

LEMMA MonitorTouches ==
  ASSUME StoreTypeOK, NEW m \in Monitors, Recover(m),
         NEW k \in Jobs, monitorAt[m] \in NeedsOrphan => k # Orphan(m).job
  PROVE  SameRows(k)
<1> USE DEF Call, Disrupted, dbVars, rowVars, redisVars, queueVars
<1>0. /\ status \in [Jobs -> RowStates] /\ retryCount \in [Jobs -> 0..MaxRetry]
      /\ results \in [Jobs -> ResultRow \union {NoResult}]
  BY DEF StoreTypeOK, StatusTable, RetryTable, ResultTable
<1>1. CASE ReadStatus(m) \/ PushRecovered(m) \/ MonitorDlqPush(m) \/ DeleteQueue(m)
  BY <1>1 DEF SameRows, ReadStatus, PushRecovered, MonitorDlqPush, DeleteQueue
<1>2. CASE MarkPending(m) \/ MonitorDlqPersist(m)
  <2>1. monitorAt[m] \in NeedsOrphan
    BY <1>2, MonitorPoints DEF MarkPending, MonitorDlqPersist
  <2> QED  BY <1>0, <1>2, <2>1 DEF SameRows, MarkPending, MonitorDlqPersist, MarkForRetry,
                                   DeadLetterInDb, UpsertResult, SetStatus
<1> QED  BY <1>1, <1>2 DEF Recover

LEMMA ScanTouchesNothing ==
  ASSUME NEW m \in Monitors, Scan(m) \/ MonitorCrash(m)
  PROVE  UNCHANGED <<dbVars, queueVars, completion>>
BY DEF Scan, AcquireLock, ScanQueues, ScanHeartbeats, PickWorker, ReleaseLock, MonitorCrash,
       Call, redisVars

(***************************************************************************)
(* Every row and every entry, wherever it is kept or copied, names a job   *)
(* that was submitted.                                                     *)
(***************************************************************************)
Submitted(j) == ~At(j, "none")
AllSubmitted(S) == \A e \in S : Submitted(e.job)

Issued ==
  /\ \A j \in Jobs : status[j] # "ABSENT" => Submitted(j)
  /\ AllSubmitted(ToSet(pending))
  /\ \A w \in Workers : AllSubmitted(ToSet(processing[w]))
  /\ \A w \in Workers : workerAt[w] \in Busy => Submitted(CurrentJob(w))
  /\ \A m \in Monitors : AllSubmitted(ToSet(orphans[m])) /\ AllSubmitted(rows[m])

LEMMA LRemKeepsSet ==
  ASSUME NEW q \in Queue, NEW e
  PROVE  ToSet(LRem(q, e)) \subseteq ToSet(q)
<1>1. CASE LRem(q, e) = q
  BY <1>1
<1>2. ASSUME NEW k \in 1..Len(q), LRem(q, e) = RemoveAt(q, k)
      PROVE  ToSet(LRem(q, e)) \subseteq ToSet(q)
  <2> DEFINE a == SubSeq(q, 1, k - 1)
             b == SubSeq(q, k + 1, Len(q))
  <2>1. /\ q \in Seq(QueuePayload) /\ Len(q) \in Nat /\ DOMAIN q = 1..Len(q)
        /\ k - 1 \in 0..Len(q) /\ k + 1 \in 1..(Len(q) + 1)
    BY DEF Queue
  <2>2. /\ a \in Seq(QueuePayload) /\ b \in Seq(QueuePayload)
        /\ \A i \in 1..Len(a) : \E l \in DOMAIN q : a[i] = q[l]
        /\ \A i \in 1..Len(b) : \E l \in DOMAIN q : b[i] = q[l]
    BY <2>1
  <2>3. \A i \in DOMAIN (a \o b) : \E l \in DOMAIN q : (a \o b)[i] = q[l]
    <3> HIDE DEF a, b
    <3>1. ASSUME NEW i \in DOMAIN (a \o b)
          PROVE  \E l \in DOMAIN q : (a \o b)[i] = q[l]
      <4>1. i \in 1..(Len(a) + Len(b)) /\ Len(a) \in Nat /\ Len(b) \in Nat
        BY <2>2
      <4>2. CASE i <= Len(a)
        <5>1. i \in 1..Len(a) /\ (a \o b)[i] = a[i]
          BY <2>2, <4>1, <4>2
        <5> QED  BY <2>2, <5>1
      <4>3. CASE ~(i <= Len(a))
        <5>1. i - Len(a) \in 1..Len(b) /\ (a \o b)[i] = b[i - Len(a)]
          BY <2>2, <4>1, <4>3
        <5> QED  BY <2>2, <5>1
      <4> QED  BY <4>2, <4>3
    <3> QED  BY <3>1
  <2>4. RemoveAt(q, k) = a \o b
    BY DEF RemoveAt
  <2> HIDE DEF a, b
  <2> QED  BY <1>2, <2>3, <2>4 DEF ToSet
<1>3. q \in Seq(QueuePayload)
  BY DEF Queue
<1> QED  BY <1>1, <1>2, <1>3, LRemRemovesOne

\* Where the entries that a worker has after a step come from.
LEMMA WorkerEntries ==
  ASSUME StoreTypeOK, WorkerTypeOK, NEW w \in Workers, Loop(w)
  PROVE  /\ \A e \in ToSet(pending') :
              e \in ToSet(pending) \/ (workerAt[w] \in Busy /\ e.job = CurrentJob(w))
         /\ \A e \in ToSet(processing'[w]) : e \in ToSet(processing[w]) \union ToSet(pending)
         /\ workerAt'[w] \in Busy =>
              \/ workerAt[w] \in Busy /\ current'[w] = current[w]
              \/ current'[w] \in ToSet(pending)
<1> USE DEF Call, Disrupted, redisVars, queueVars
<1> USE DEF DbOnly, RedisOnly, SandboxOnly, PublishOnly, KeepsQueues
<1>0. /\ workerAt \in [Workers -> {"pop"} \union Busy \union Inert]
      /\ current \in [Workers -> QueuePayload \union {NoJob}]
      /\ processing \in [Workers -> Queue] /\ processing[w] \in Queue /\ pending \in Queue
  BY DEF WorkerTypeOK, StoreTypeOK, Queues
<1>1. CASE Pop(w)
  <2>1. Last(pending) \in QueuePayload /\ Last(pending) \in ToSet(pending)
        /\ ToSet(Front(pending)) \subseteq ToSet(pending)
    BY <1>0, <1>1, PushAndPop DEF Pop
  <2>2. pending' = Front(pending) /\ processing'[w] = LPush(processing[w], Last(pending))
    BY <1>0, <1>1 DEF Pop, MoveOldest
  <2>3. ToSet(processing'[w]) = ToSet(processing[w]) \union {Last(pending)}
    BY <1>0, <2>1, <2>2, PushAndPop
  <2>4. workerAt'[w] \in Busy => current'[w] = Last(pending)
    BY <1>0, <1>1, BusyPoints DEF Pop, Goto, NextIteration, Inert
  <2> QED  BY <2>1, <2>2, <2>3, <2>4
<1>2. CASE ~Pop(w)
  <2>1. CASE workerAt[w] \in Busy
    <3>1. workerAt'[w] \in Busy => current'[w] = current[w]
      BY <1>0, <1>2, BusyPoints
         DEF Loop, Take, PopTimesOut, Claim, Check, GiveBack, Discard, RunJob, RemoveStaleContainer,
             StartContainer, ContainerExits, Conclude, Persist, Acknowledge, PublishCompletion,
             PutBack, Requeue, PushRetry, RemoveOld, GiveUp, RemoveExhausted, DlqPersist, DlqPush,
             DlqPublish, Proceed, Goto, NextIteration, Inert
    <3>2. UNCHANGED processing \/ RemoveRaw(w)
      BY <1>2
         DEF Loop, Take, PopTimesOut, Claim, Check, GiveBack, Discard, RunJob, RemoveStaleContainer,
             StartContainer, ContainerExits, Conclude, Persist, Acknowledge, PublishCompletion,
             PutBack, Requeue, PushRetry, RemoveOld, GiveUp, RemoveExhausted, DlqPersist, DlqPush,
             DlqPublish
    <3>3. \A e \in ToSet(processing'[w]) : e \in ToSet(processing[w])
      BY <1>0, <3>2, LRemKeepsSet DEF RemoveRaw
    <3>4. current[w] \in QueuePayload /\ CurrentJob(w) = current[w].job
      BY <2>1, BusyHolds DEF CurrentJob
    <3>5. ASSUME UNCHANGED pending \/ EnqueuePending(current[w])
                 \/ (~Exhausted(current[w])
                      /\ EnqueuePending(Entry(CurrentJob(w), current[w].retry + 1)))
          PROVE  \A e \in ToSet(pending') : e \in ToSet(pending) \/ e.job = CurrentJob(w)
      <4>1. ~Exhausted(current[w]) =>
              /\ Entry(CurrentJob(w), current[w].retry + 1) \in QueuePayload
              /\ Entry(CurrentJob(w), current[w].retry + 1).job = CurrentJob(w)
        BY <3>4, RetryStaysPayload DEF Entry
      <4>2. ASSUME NEW x \in QueuePayload, x.job = CurrentJob(w), EnqueuePending(x)
            PROVE  \A e \in ToSet(pending') : e \in ToSet(pending) \/ e.job = CurrentJob(w)
        <5>1. ToSet(pending') = ToSet(pending) \union {x}
          BY <1>0, PushAndPop, <4>2 DEF EnqueuePending
        <5> QED  BY <4>2, <5>1
      <4>3. CASE UNCHANGED pending
        BY <4>3
      <4> QED  BY <3>4, <3>5, <4>1, <4>2, <4>3
    <3>6. workerAt[w] = "push_retry" => ~Exhausted(current[w])
      BY DEF WorkerTypeOK
    <3>7. UNCHANGED pending \/ EnqueuePending(current[w])
          \/ (~Exhausted(current[w])
               /\ EnqueuePending(Entry(CurrentJob(w), current[w].retry + 1)))
      BY <1>2, <3>6
         DEF Loop, Take, PopTimesOut, Claim, Check, GiveBack, Discard, RunJob, RemoveStaleContainer,
             StartContainer, ContainerExits, Conclude, Persist, Acknowledge, PublishCompletion,
             PutBack, Requeue, PushRetry, RemoveOld, GiveUp, RemoveExhausted, DlqPersist, DlqPush,
             DlqPublish
    <3> QED  BY <2>1, <3>1, <3>3, <3>5, <3>7
  <2>2. CASE workerAt[w] \notin Busy
    <3>1. PopTimesOut(w)
      BY <1>2, <2>2, BusyPoints
         DEF Loop, Take, PopTimesOut, Claim, Check, GiveBack, Discard, RunJob, RemoveStaleContainer,
             StartContainer, ContainerExits, Conclude, Persist, Acknowledge, PublishCompletion,
             PutBack, Requeue, PushRetry, RemoveOld, GiveUp, RemoveExhausted, DlqPersist, DlqPush,
             DlqPublish
    <3> QED  BY <1>0, <3>1, BusyPoints DEF PopTimesOut, NextIteration, Goto, Inert
  <2> QED  BY <2>1, <2>2
<1> QED  BY <1>1, <1>2

LEMMA HeadTailSet ==
  ASSUME NEW q \in Queue, q # <<>>
  PROVE  Head(q) \in ToSet(q) /\ ToSet(Tail(q)) \subseteq ToSet(q)
<1>1. /\ q \in Seq(QueuePayload) /\ Len(q) \in Nat \ {0} /\ DOMAIN q = 1..Len(q)
      /\ Head(q) = q[1] /\ DOMAIN Tail(q) = 1..(Len(q) - 1)
      /\ \A i \in 1..(Len(q) - 1) : Tail(q)[i] = q[i + 1]
  BY DEF Queue
<1>2. 1 \in DOMAIN q /\ \A i \in DOMAIN Tail(q) : i + 1 \in DOMAIN q /\ Tail(q)[i] = q[i + 1]
  BY <1>1
<1> QED  BY <1>1, <1>2 DEF ToSet

LEMMA WorkerIssues ==
  ASSUME TypeOK, Issued, WorkerNext, UNCHANGED <<post, monitorVars>>
  PROVE  Issued'
<1> USE DEF Submitted, AllSubmitted, At
<1>0. UNCHANGED <<orphans, rows>>
  BY DEF monitorVars, scanVars
<1>1. ASSUME NEW w \in Workers, Loop(w)
      PROVE  Issued'
  <2>1. ASSUME NEW j \in Jobs, status'[j] # "ABSENT"
        PROVE  Submitted(j)
    <3>1. CASE j = CurrentJob(w)
      <4>1. workerAt[w] \in Busy
        BY <3>1, StoreAssumption DEF TypeOK, WorkerTypeOK, CurrentJob, NoJob
      <4> QED  BY <3>1, <4>1 DEF Issued
    <3>2. CASE j # CurrentJob(w)
      BY <1>1, <2>1, <3>2, WorkerTouches DEF TypeOK, SameRows, Issued
    <3> QED  BY <3>1, <3>2
  <2>2. AllSubmitted(ToSet(pending))'
    BY <1>1, WorkerEntries DEF TypeOK, Issued
  <2>3. \A v \in Workers : v # w => /\ processing'[v] = processing[v]
                                    /\ workerAt'[v] = workerAt[v] /\ current'[v] = current[v]
    BY <1>1, LoopLives, OneWorkerMoves DEF TypeOK
  <2>4. AllSubmitted(ToSet(processing[w]))'
    BY <1>1, WorkerEntries DEF TypeOK, Issued
  <2>5. workerAt'[w] \in Busy => Submitted(CurrentJob(w))'
    BY <1>1, WorkerEntries DEF TypeOK, Issued, CurrentJob
  <2> QED  BY <1>0, <2>1, <2>2, <2>3, <2>4, <2>5 DEF Issued, CurrentJob
<1>2. ASSUME NEW w \in Workers, StartWorker(w) \/ Live(w)
      PROVE  Issued'
  <2>1. UNCHANGED <<status, pending, processing>>
    BY <1>2, LiveTouchesNothing DEF dbVars, rowVars, queueVars
  <2>2. \A v \in Workers : workerAt'[v] \in Busy => workerAt[v] \in Busy /\ current'[v] = current[v]
    BY <1>2, BusyPoints
       DEF TypeOK, WorkerTypeOK, StartWorker, Live, SendHeartbeat, HeartbeatExpires, Sigterm,
           WorkerCrash, Proceed, Goto, workerVars, Inert
  <2> QED  BY <1>0, <2>1, <2>2 DEF Issued, CurrentJob
<1>3. ASSUME NEW k \in Jobs, OrphanExits(k)
      PROVE  Issued'
  <2>1. UNCHANGED <<pending, processing, status, workerAt, current>>
    BY <1>3 DEF OrphanExits, SandboxOnly, dbVars, rowVars, redisVars, queueVars
  <2> QED  BY <1>0, <2>1 DEF Issued, CurrentJob
<1> QED  BY <1>1, <1>2, <1>3 DEF WorkerNext

LEMMA GatewayIssues ==
  ASSUME TypeOK, Issued, GatewayNext, UNCHANGED <<workerVars, monitorVars>>
  PROVE  Issued'
<1> USE DEF Submitted, AllSubmitted, At
<1>0. /\ UNCHANGED <<orphans, rows, workerAt, current, processing>>
      /\ post \in [Jobs -> PostStates] /\ status \in [Jobs -> RowStates]
  BY DEF monitorVars, scanVars, workerVars, TypeOK, GatewayTypeOK, StoreTypeOK, StatusTable,
         GatewayNext, Request, GatewayCrash, Submit, Enqueue, ReadDepth, MarkFailed, RecordFailure,
         redisVars, queueVars
<1>1. \A j \in Jobs : Submitted(j) => Submitted(j)'
  BY <1>0 DEF GatewayNext, Request, GatewayCrash, Submit, Enqueue, ReadDepth, MarkFailed,
              RecordFailure, Call, Advance
<1>2. /\ ToSet(pending) \subseteq QueuePayload
      /\ \A w \in Workers : ToSet(processing[w]) \subseteq QueuePayload
      /\ \A w \in Workers : workerAt[w] \in Busy => CurrentJob(w) \in Jobs
      /\ \A m \in Monitors : ToSet(orphans[m]) \subseteq QueuePayload /\ rows[m] \subseteq QueuePayload
  BY PushAndPop, BusyHolds DEF TypeOK, StoreTypeOK, Queues, MonitorTypeOK, Queue
<1>3. \A j \in Jobs : status'[j] # "ABSENT" => Submitted(j)'
  <2> SUFFICES ASSUME NEW j \in Jobs, status'[j] # "ABSENT", ~Submitted(j)'  PROVE FALSE
    OBVIOUS
  <2>1. status[j] = "ABSENT" /\ post[j] = "none" /\ post'[j] = "none"
    BY <1>1 DEF Issued
  <2>2. UNCHANGED status \/ \E k \in Jobs, s \in RowStates :
                                /\ status' = [status EXCEPT ![k] = s]
                                /\ post' = [post EXCEPT ![k] = "enqueue"] \/ post[k] # "none"
                                   \/ post' = [post EXCEPT ![k] = "aborted"]
    BY StatusFacts
       DEF GatewayNext, Request, GatewayCrash, Submit, Enqueue, ReadDepth, MarkFailed, RecordFailure,
           Call, Advance, InsertRow, SetStatus, dbVars, rowVars
  <2> QED  BY <1>0, <2>1, <2>2
<1>4. AllSubmitted(ToSet(pending))'
  <2>1. UNCHANGED pending \/ \E j \in Jobs : post[j] = "enqueue" /\ EnqueuePending(Entry(j, 0))
    BY DEF GatewayNext, Request, GatewayCrash, Submit, Enqueue, ReadDepth, MarkFailed, RecordFailure,
           Call, redisVars, queueVars
  <2>2. \A e \in ToSet(pending') : e.job \in Jobs /\ Submitted(e.job)
    <3>1. CASE UNCHANGED pending
      BY <1>2, <3>1 DEF Issued, QueuePayload
    <3>2. ASSUME NEW j \in Jobs, post[j] = "enqueue", EnqueuePending(Entry(j, 0))
          PROVE  \A e \in ToSet(pending') : e.job \in Jobs /\ Submitted(e.job)
      <4>1. Entry(j, 0) \in QueuePayload /\ Entry(j, 0).job = j
        BY MaxRetryAssumption DEF Entry, QueuePayload
      <4>2. ToSet(pending') = ToSet(pending) \union {Entry(j, 0)}
        BY <3>2, <4>1, PushAndPop DEF EnqueuePending, TypeOK, StoreTypeOK
      <4> QED  BY <1>2, <3>2, <4>1, <4>2 DEF Issued, QueuePayload
    <3> QED  BY <2>1, <3>1, <3>2
  <2> QED  BY <1>1, <2>2
<1>5. \A w \in Workers : AllSubmitted(ToSet(processing[w]))'
  BY <1>0, <1>1, <1>2 DEF Issued, QueuePayload
<1>6. \A w \in Workers : workerAt'[w] \in Busy => Submitted(CurrentJob(w))'
  BY <1>0, <1>1, <1>2 DEF Issued, CurrentJob
<1>7. \A m \in Monitors : AllSubmitted(ToSet(orphans[m]))' /\ AllSubmitted(rows[m])'
  BY <1>0, <1>1, <1>2 DEF Issued, QueuePayload
<1> QED  BY <1>3, <1>4, <1>5, <1>6, <1>7 DEF Issued

\* What a monitor pushes, copies or selects names a job that is named already.
LEMMA MonitorIssues ==
  ASSUME TypeOK, Issued, MonitorNext, UNCHANGED <<post, workerVars>>
  PROVE  Issued'
<1> USE DEF Submitted, AllSubmitted, At, Call, MonitorProceeds, MonitorGoto, ScanFails, scanVars
<1>0. /\ UNCHANGED <<workerAt, current>>
      /\ monitorAt \in [Monitors -> MonitorSteps] /\ rows \in [Monitors -> SUBSET QueuePayload]
      /\ orphans \in [Monitors -> Seq(QueuePayload)]
      /\ processing \in [Workers -> Queue] /\ status \in [Jobs -> RowStates] /\ pending \in Queue
      /\ ToSet(<<>>) = {}
  BY MonitorTypeAt DEF workerVars, TypeOK, StoreTypeOK, Queues, StatusTable, ToSet
<1>1. ASSUME NEW m \in Monitors, Startup(m) \/ Scan(m) \/ Recover(m) \/ MonitorCrash(m)
      PROVE  Issued'
  <2> DEFINE Own == AllSubmitted(ToSet(orphans'[m])) /\ AllSubmitted(rows'[m])
  <2>1. \A n \in Monitors : n # m => orphans'[n] = orphans[n] /\ rows'[n] = rows[n]
    <3>1. \A n \in Monitors : n # m => orphans'[n] = orphans[n]
      BY <1>1, OneMonitorHolds DEF TypeOK
    <3>2. UNCHANGED rows \/ \E S : rows' = [rows EXCEPT ![m] = S]
      BY <1>1
         DEF Startup, StartMonitor, ResetRunning, MonitorReadDepth, SelectPending, Hydrate, Scan,
             AcquireLock, ScanQueues, ScanHeartbeats, PickWorker, ReleaseLock, Recover, ReadStatus,
             MarkPending, PushRecovered, MonitorDlqPersist, MonitorDlqPush, DeleteQueue,
             NextOrphan, MonitorCrash, Exits
    <3> QED  BY <1>0, <3>1, <3>2
  <2>2. ASSUME \A j \in Jobs : status'[j] # "ABSENT" => Submitted(j),
               AllSubmitted(ToSet(pending')),
               \A w \in Workers : AllSubmitted(ToSet(processing'[w])),
               Own
        PROVE  Issued'
    BY <1>0, <2>1, <2>2 DEF Issued, CurrentJob
  <2>3. AllSubmitted(ToSet(orphans[m])) /\ AllSubmitted(rows[m])
    BY DEF Issued
  <2>4. CASE Exits(m) /\ UNCHANGED <<pending, processing>>
             /\ (UNCHANGED status
                  \/ status' = [j \in Jobs |-> IF status[j] = "RUNNING" THEN "PENDING" ELSE status[j]])
    <3>1. Own
      BY <1>0, <2>4 DEF Exits
    <3> QED  BY <1>0, <2>2, <2>4, <3>1 DEF Issued
  <2>5. CASE UNCHANGED <<pending, processing, orphans, rows>>
             /\ (UNCHANGED status
                  \/ status' = [j \in Jobs |-> IF status[j] = "RUNNING" THEN "PENDING" ELSE status[j]])
    <3>1. Own
      BY <2>3, <2>5
    <3> QED  BY <1>0, <2>2, <2>5, <3>1 DEF Issued
  <2>6. CASE SelectPending(m)
    <3>1. Exits(m) \/ (UNCHANGED orphans
                        /\ rows'[m] = {Entry(j, retryCount[j]) : j \in Rows("PENDING")})
      BY <1>0, <2>6 DEF SelectPending
    <3>2. UNCHANGED <<status, pending, processing>>
      BY <2>6 DEF SelectPending, dbVars, rowVars, redisVars, queueVars
    <3>3. CASE rows'[m] = {Entry(j, retryCount[j]) : j \in Rows("PENDING")} /\ UNCHANGED orphans
      <4>1. AllSubmitted(rows'[m])
        BY <3>3 DEF Issued, Rows, Entry
      <4> QED  BY <2>2, <2>3, <3>2, <3>3, <4>1 DEF Issued
    <3> QED  BY <2>4, <3>1, <3>2, <3>3
  <2>7. CASE Hydrate(m)
    <3>1. PICK row \in rows[m] : /\ EnqueuePending(row) \/ UNCHANGED pending
                                 /\ Exits(m) \/ (UNCHANGED orphans /\ rows'[m] = rows[m] \ {row})
      BY <1>0, <2>7 DEF Hydrate
    <3>2. UNCHANGED <<status, processing>> /\ row \in QueuePayload
      BY <1>0, <2>7 DEF Hydrate, dbVars, rowVars
    <3>3. AllSubmitted(ToSet(pending'))
      <4>1. ToSet(pending') \subseteq ToSet(pending) \union {row}
        <5>1. EnqueuePending(row) => ToSet(pending') = ToSet(pending) \union {row}
          BY <1>0, <3>2, PushAndPop DEF EnqueuePending
        <5>2. UNCHANGED pending => ToSet(pending') = ToSet(pending)
          OBVIOUS
        <5> QED  BY <3>1, <5>1, <5>2
      <4> QED  BY <2>3, <4>1 DEF Issued
    <3>4. Own
      BY <1>0, <2>3, <3>1 DEF Exits
    <3> QED  BY <2>2, <3>2, <3>3, <3>4 DEF Issued
  <2>8. CASE Startup(m) \/ MonitorCrash(m)
    <3>1. CASE MonitorCrash(m)
      BY <2>4, <3>1 DEF MonitorCrash, dbVars, rowVars, redisVars, queueVars
    <3>2. CASE StartMonitor(m) \/ ResetRunning(m) \/ MonitorReadDepth(m)
      BY <2>4, <2>5, <3>2 DEF StartMonitor, ResetRunning, MonitorReadDepth, dbVars, rowVars,
                              redisVars, queueVars
    <3> QED  BY <2>6, <2>7, <2>8, <3>1, <3>2 DEF Startup
  <2>9. CASE Scan(m)
    <3>1. UNCHANGED <<status, pending, processing>>
      BY <2>9, ScanTouchesNothing DEF dbVars, rowVars, queueVars
    <3>2. CASE Exits(m) \/ UNCHANGED <<orphans, rows>>
      BY <2>4, <2>5, <3>1, <3>2
    <3>3. CASE PickWorker(m)
      <4>1. \/ UNCHANGED <<orphans, rows>>
            \/ /\ UNCHANGED rows
               /\ \E w \in suspects[m] : orphans' = [orphans EXCEPT ![m] = processing[w]]
        BY <3>3 DEF PickWorker
      <4>2. suspects[m] \subseteq Workers
        BY MonitorTypeAt DEF TypeOK
      <4>3. Own
        BY <1>0, <2>3, <4>1, <4>2 DEF Issued
      <4> QED  BY <2>2, <3>1, <4>3 DEF Issued
    <3>4. CASE ReleaseLock(m)
      <4>1. Exits(m) \/ (UNCHANGED rows /\ orphans'[m] = <<>>)
        BY <1>0, <3>4 DEF ReleaseLock
      <4>2. Own
        BY <1>0, <2>3, <4>1 DEF Exits
      <4> QED  BY <2>2, <3>1, <4>2 DEF Issued
    <3> QED  BY <2>9, <3>2, <3>3, <3>4 DEF Scan, AcquireLock, ScanQueues, ScanHeartbeats
  <2>10. CASE Recover(m)
    <3>1. /\ \/ UNCHANGED pending
             \/ /\ monitorAt[m] = "push_recovered"
                /\ EnqueuePending(Entry(Orphan(m).job, Orphan(m).retry + 1))
          /\ UNCHANGED processing \/ processing' = [processing EXCEPT ![target[m]] = <<>>]
          /\ UNCHANGED rows
          /\ UNCHANGED orphans \/ (NextOrphan(m) /\ monitorAt[m] \in NeedsOrphan)
      <4>1. CASE ReadStatus(m) \/ MarkPending(m) \/ MonitorDlqPersist(m)
        BY <4>1, MonitorPoints DEF ReadStatus, MarkPending, MonitorDlqPersist, redisVars, queueVars,
                                   NextOrphan
      <4>2. CASE PushRecovered(m) \/ MonitorDlqPush(m)
        BY <4>2, MonitorPoints DEF PushRecovered, MonitorDlqPush, NextOrphan
      <4>3. CASE DeleteQueue(m)
        BY <4>3 DEF DeleteQueue
      <4> QED  BY <2>10, <4>1, <4>2, <4>3 DEF Recover
    <3>2. monitorAt[m] \in NeedsOrphan =>
            /\ orphans[m] \in Queue /\ orphans[m] # <<>>
            /\ Orphan(m) \in QueuePayload /\ Orphan(m).job \in Jobs /\ Submitted(Orphan(m).job)
      BY <2>3, MonitorTypeAt, MonitorHolds, HeadTailSet DEF TypeOK, Queue, Orphan
    <3>3. \A j \in Jobs : status'[j] # "ABSENT" => Submitted(j)
      BY <2>10, <3>2, MonitorTouches DEF TypeOK, SameRows, Issued
    <3>4. AllSubmitted(ToSet(pending'))
      <4>1. CASE UNCHANGED pending
        BY <4>1 DEF Issued
      <4>2. CASE monitorAt[m] = "push_recovered"
                 /\ EnqueuePending(Entry(Orphan(m).job, Orphan(m).retry + 1))
        <5>1. Entry(Orphan(m).job, Orphan(m).retry + 1) \in QueuePayload
          BY <3>2, <4>2, RetryStaysPayload, MonitorTypeAt, MonitorPoints DEF TypeOK, RetryPoints, Orphan
        <5>2. ToSet(pending') = ToSet(pending) \union {Entry(Orphan(m).job, Orphan(m).retry + 1)}
          BY <1>0, <4>2, <5>1, PushAndPop DEF EnqueuePending
        <5> QED  BY <3>2, <4>2, <5>2, MonitorPoints DEF Issued, Entry
      <4> QED  BY <3>1, <4>1, <4>2
    <3>5. \A w \in Workers : AllSubmitted(ToSet(processing'[w]))
      BY <1>0, <3>1 DEF Issued
    <3>6. Own
      <4>1. CASE UNCHANGED orphans
        BY <2>3, <3>1, <4>1
      <4>2. CASE NextOrphan(m) /\ monitorAt[m] \in NeedsOrphan
        <5>1. orphans'[m] = Tail(orphans[m])
          BY <1>0, <4>2 DEF NextOrphan
        <5>2. ToSet(Tail(orphans[m])) \subseteq ToSet(orphans[m])
          BY <3>2, <4>2, HeadTailSet
        <5> QED  BY <2>3, <3>1, <5>1, <5>2
      <4> QED  BY <3>1, <4>1, <4>2
    <3> QED  BY <2>2, <3>3, <3>4, <3>5, <3>6
  <2> QED  BY <1>1, <2>8, <2>9, <2>10
<1>2. CASE LockExpires
  BY <1>2 DEF LockExpires, monitorVars, dbVars, rowVars, queueVars, Issued, CurrentJob, workerVars
<1> QED  BY <1>1, <1>2 DEF MonitorNext

\* No entry and no row names a job that was never submitted.
LEMMA IssuedHolds == Spec => []Issued
<1>1. Init => Issued
  <2>1. Init => /\ status = [j \in Jobs |-> "ABSENT"] /\ pending = <<>>
                /\ \A w \in Workers : processing[w] = <<>> /\ workerAt[w] = "off"
                /\ \A m \in Monitors : orphans[m] = <<>> /\ rows[m] = {}
    BY DEF Init, StoreInit, WorkerInit, MonitorInit
  <2>2. ToSet(<<>>) = {} /\ "off" \notin Busy
    BY BusyPoints DEF ToSet, Inert
  <2> QED  BY <2>1, <2>2 DEF Issued, AllSubmitted
<1>2. TypeOK /\ Issued /\ [Next]_vars => Issued'
  <2>1. TypeOK /\ Issued /\ UNCHANGED vars => Issued'
    BY DEF vars, storeVars, dbVars, rowVars, redisVars, queueVars, workerVars, monitorVars, scanVars,
           Issued, AllSubmitted, Submitted, At, CurrentJob
  <2> QED  BY <2>1, WorkerIssues, GatewayIssues, MonitorIssues DEF Next
<1> QED  BY <1>1, <1>2, TypeCorrect, PTL DEF Spec

(***************************************************************************)
(* Every submission that has passed its LPUSH is kept, with what a monitor *)
(* and a dead worker add to that.                                          *)
(***************************************************************************)
CrashIsCause == \A w \in Workers : workerAt[w] = "crashed" => "worker_crash" \in Disruptions

LettersDecided == \A m \in Monitors : monitorAt[m] = "dlq_push" => Decided(Orphan(m).job)

AllKept == \A j \in Jobs : post[j] \in {"read_depth", "accepted"} => Kept(j)

Safekept   == LockHeld /\ SuspectsGone /\ Shape /\ Issued
Accounted  == CrashIsCause /\ LettersDecided /\ AllKept

\* While a monitor handles an entry, no worker is putting a job back: the
\* entry is that of a worker that crashed, and then no sandbox fails to start.
LEMMA RecoveryExcludesRetry ==
  ASSUME RetriesOrCrashes, TypeOK, Safekept, CrashIsCause,
         NEW m \in Monitors, monitorAt[m] \in NeedsOrphan
  PROVE  /\ "worker_crash" \in Disruptions /\ target[m] \in Workers
         /\ workerAt[target[m]] = "crashed"
         /\ \A w \in Workers : workerAt[w] \notin Requeuing
<1>1. /\ orphans[m] = processing[target[m]] /\ orphans[m] # <<>>
      /\ target[m] \in Workers /\ Gone(target[m])
  BY MonitorPoints, MonitorTypeAt DEF TypeOK, Safekept, Shape, CopyOf, SuspectsGone, Recovering
<1>2. workerAt[target[m]] \notin EmptyHanded
  BY <1>1 DEF Safekept, Shape, HandsOf
<1>3. workerAt[target[m]] = "crashed"
  BY <1>1, <1>2, HandPoints DEF Gone
<1>4. "worker_crash" \in Disruptions /\ "spawn_error" \notin Disruptions
  BY <1>1, <1>3 DEF CrashIsCause, RetriesOrCrashes
<1> QED  BY <1>1, <1>3, <1>4 DEF Safekept, Shape, HandsOf

LEMMA WorkerKeepsDecided ==
  ASSUME OnlyProcessesFail, StoreTypeOK, WorkerTypeOK, NEW w \in Workers, Loop(w),
         workerAt[w] \notin Requeuing, NEW j \in Jobs, Decided(j)
  PROVE  Decided(j)'
<1> USE DEF Call, Disrupted, OnlyProcessesFail, dbVars, rowVars
<1> USE DEF DbOnly, RedisOnly, SandboxOnly, PublishOnly
<1>0. status \in [Jobs -> RowStates] /\ verdict[w] \in Verdicts
  BY DEF StoreTypeOK, StatusTable, WorkerTypeOK
<1>1. CASE Claim(w)
  BY <1>0, <1>1 DEF Claim, Decided, IsTerminalStatus, TerminalStatuses
<1>2. CASE Persist(w)
  <2>1. status' = [status EXCEPT ![CurrentJob(w)] = FinalStatus(verdict[w])]
    BY <1>2 DEF Persist, SetStatus
  <2> QED  BY <1>0, <2>1, FinalIsTerminal DEF Decided
<1>3. CASE ~Claim(w) /\ ~Persist(w)
  <2>1. UNCHANGED status
    BY <1>3, HandPoints
       DEF Loop, Take, Pop, PopTimesOut, Check, GiveBack, Discard, RunJob, RemoveStaleContainer,
           StartContainer, ContainerExits, Conclude, Acknowledge, PublishCompletion, PutBack,
           Requeue, PushRetry, RemoveOld, GiveUp, RemoveExhausted, DlqPersist, DlqPush, DlqPublish
  <2> QED  BY <2>1 DEF Decided
<1> QED  BY <1>1, <1>2, <1>3

LEMMA WorkerAccounts ==
  ASSUME OnlyProcessesFail, RetriesOrCrashes, TypeOK, Safekept, Accounted,
         WorkerNext, UNCHANGED <<post, monitorVars>>
  PROVE  Accounted'
<1>0. UNCHANGED <<monitorAt, target, orphans>> /\ WorkerTypeOK
  BY DEF monitorVars, scanVars, TypeOK
<1>1. AllKept'
  BY WorkerKeepsJob DEF Safekept, Accounted, AllKept
<1>2. ASSUME NEW v \in Workers, workerAt'[v] = "crashed"
      PROVE  "worker_crash" \in Disruptions
  <2>1. CASE workerAt[v] = "crashed"
    BY <2>1 DEF Accounted, CrashIsCause
  <2>2. CASE workerAt[v] # "crashed"
    <3>1. PICK w \in Workers : StartWorker(w) \/ Live(w) \/ Loop(w)
      BY <1>2, <2>2 DEF WorkerNext, OrphanExits
    <3>2. v = w
      BY <1>0, <1>2, <2>2, <3>1, OneWorkerMoves
    <3>3. ~Loop(w)
      <4>1. Loop(w) => workerAt'[w] # "crashed"
        BY <1>0
           DEF WorkerTypeOK, Loop, Take, Pop, PopTimesOut, Claim, Check, GiveBack, Discard, RunJob,
               RemoveStaleContainer, StartContainer, ContainerExits, Conclude, Persist, Acknowledge,
               PublishCompletion, PutBack, Requeue, PushRetry, RemoveOld, GiveUp, RemoveExhausted,
               DlqPersist, DlqPush, DlqPublish, Proceed, NextIteration, Goto, Call
      <4> QED  BY <1>2, <3>2, <4>1
    <3>4. WorkerCrash(w)
      BY <1>0, <1>2, <2>2, <3>1, <3>2, <3>3
         DEF WorkerTypeOK, StartWorker, Live, SendHeartbeat, HeartbeatExpires, Sigterm, Proceed, Goto,
             workerVars
    <3> QED  BY <3>4 DEF WorkerCrash, Disrupted
  <2> QED  BY <2>1, <2>2
<1>3. ASSUME NEW m \in Monitors, monitorAt'[m] = "dlq_push"
      PROVE  Decided(Orphan(m).job)'
  <2>1. monitorAt[m] \in NeedsOrphan /\ Orphan(m).job \in Jobs /\ Decided(Orphan(m).job)
    BY <1>0, <1>3, MonitorPoints, MonitorHolds DEF TypeOK, Accounted, LettersDecided
  <2>2. \A w \in Workers : workerAt[w] \notin Requeuing
    BY <2>1, RecoveryExcludesRetry DEF Accounted
  <2>3. PICK j \in Jobs : j = Orphan(m).job /\ j = Orphan(m)'.job
    BY <1>0, <2>1 DEF Orphan
  <2>4. ASSUME NEW w \in Workers, Loop(w)  PROVE Decided(j)'
    BY <2>1, <2>2, <2>3, <2>4, WorkerKeepsDecided DEF TypeOK
  <2>5. ASSUME NEW w \in Workers, StartWorker(w) \/ Live(w)  PROVE Decided(j)'
    BY <2>1, <2>3, <2>5, LiveTouchesNothing DEF Decided, dbVars, rowVars
  <2>6. ASSUME NEW k \in Jobs, OrphanExits(k)  PROVE Decided(j)'
    BY <2>1, <2>3, <2>6 DEF OrphanExits, SandboxOnly, Decided, dbVars, rowVars
  <2>7. Decided(j)'
    BY <2>4, <2>5, <2>6 DEF WorkerNext
  <2> QED  BY <2>3, <2>7 DEF Decided
<1> QED  BY <1>1, <1>2, <1>3 DEF Accounted, CrashIsCause, LettersDecided

\* What a step of a monitor makes of a job.
Passes(m, k) ==
  /\ Decided(k) => Decided(k)' \/ Saves(m, k)'
  /\ Waits(k) => Waits(k)'
  /\ \A w \in Workers : Holds(w, k) => Holds(w, k)' \/ Decided(k)' \/ Waits(k)'
  /\ Saves(m, k) => \/ Saves(m, k)' \/ Waits(k)' \/ Decided(k)'
                    \/ \E w \in Workers : Holds(w, k)'

\* A monitor that is not about to delete spends no entry.
LEMMA StillHolds ==
  ASSUME TypeOK, NEW m \in Monitors, UNCHANGED <<workerVars, processing>>,
         \A n \in Monitors : n # m => monitorAt'[n] = monitorAt[n] /\ target'[n] = target[n],
         NEW w \in Workers, NEW k,
         monitorAt'[m] = "delete_queue" => target'[m] # w
  PROVE  Holds(w, k) => Holds(w, k)'
<1>1. UNCHANGED <<workerAt, processing>>
  BY DEF workerVars
<1> QED  BY <1>1 DEF Holds, Spent, DeletedNext

LEMMA StartupPasses ==
  ASSUME OnlyProcessesFail, TypeOK, NEW m \in Monitors, Startup(m), UNCHANGED workerVars,
         NEW k \in Jobs
  PROVE  Passes(m, k)
<1> USE DEF Call, Disrupted, OnlyProcessesFail, MonitorProceeds, MonitorGoto
<1>0. /\ monitorAt \in [Monitors -> MonitorSteps] /\ rows \in [Monitors -> SUBSET QueuePayload]
      /\ status \in [Jobs -> RowStates] /\ StoreTypeOK
  BY MonitorTypeAt DEF TypeOK, StoreTypeOK, StatusTable
<1>1. Decided(k) => Decided(k)'
  BY <1>0 DEF Startup, StartMonitor, ResetRunning, MonitorReadDepth, SelectPending, Hydrate, Decided,
              IsTerminalStatus, TerminalStatuses, dbVars, rowVars
<1>2. Waits(k) => Waits(k)'
  <2>1. UNCHANGED pending \/ \E row \in rows[m] : EnqueuePending(row)
    BY DEF Startup, StartMonitor, ResetRunning, MonitorReadDepth, SelectPending, Hydrate, redisVars,
           queueVars
  <2> QED  BY <1>0, <2>1, PushedWaits DEF Waits
<1>3. UNCHANGED processing
  BY DEF Startup, StartMonitor, ResetRunning, MonitorReadDepth, SelectPending, Hydrate, redisVars,
         queueVars
<1>4. ~Saves(m, k)
  BY DEF Startup, StartMonitor, ResetRunning, MonitorReadDepth, SelectPending, Hydrate, Saves
<1>5. monitorAt'[m] # "delete_queue"
  BY <1>0 DEF Startup, StartMonitor, ResetRunning, MonitorReadDepth, SelectPending, Hydrate
<1>6. \A n \in Monitors : n # m => monitorAt'[n] = monitorAt[n] /\ target'[n] = target[n]
  BY OneMonitorHolds DEF TypeOK
<1> QED  BY <1>1, <1>2, <1>3, <1>4, <1>5, <1>6, StillHolds DEF Passes

LEMMA ScanPasses ==
  ASSUME OnlyProcessesFail, TypeOK, Safekept, NEW m \in Monitors, Scan(m) \/ MonitorCrash(m),
         UNCHANGED workerVars, NEW k \in Jobs
  PROVE  Passes(m, k)
<1> USE DEF Call, Disrupted, OnlyProcessesFail, MonitorProceeds, MonitorGoto
<1>0. /\ monitorAt \in [Monitors -> MonitorSteps]
      /\ target \in [Monitors -> Workers \union {Nobody}]
  BY MonitorTypeAt DEF TypeOK
<1>1. UNCHANGED <<status, pending, processing, workerAt>>
  BY ScanTouchesNothing DEF dbVars, rowVars, queueVars, workerVars
<1>2. \A n \in Monitors : n # m => monitorAt'[n] = monitorAt[n] /\ target'[n] = target[n]
  BY OneMonitorHolds DEF TypeOK
<1>3. (Decided(k) => Decided(k)') /\ (Waits(k) => Waits(k)')
  BY <1>1 DEF Decided, Waits
<1>4. ASSUME NEW w \in Workers, Holds(w, k)
      PROVE  Holds(w, k)'
  <2>1. monitorAt'[m] = "delete_queue" => target'[m] # w
    BY <1>0, <1>4 DEF Scan, AcquireLock, ScanQueues, ScanHeartbeats, PickWorker, ReleaseLock,
                      MonitorCrash, Exits, ScanFails, Holds
  <2> QED  BY <1>1, <1>2, <1>4, <2>1, StillHolds
<1>5. ASSUME Saves(m, k)
      PROVE  \E w \in Workers : Holds(w, k)'
  <2>1. MonitorCrash(m) /\ monitorAt[m] \in NeedsOrphan
    BY <1>5, MonitorPoints DEF Scan, AcquireLock, ScanQueues, ScanHeartbeats, PickWorker, ReleaseLock,
                              Saves
  <2>2. monitorAt'[m] = "down"
    BY <1>0, <2>1 DEF MonitorCrash, Exits
  <2>3. /\ orphans[m] = processing[target[m]] /\ orphans[m] # <<>>
        /\ target[m] \in Workers /\ Gone(target[m]) /\ Scanning(m)
    BY <2>1, MonitorPoints, MonitorTypeAt
       DEF TypeOK, Safekept, Shape, CopyOf, SuspectsGone, Recovering, Scanning, ScanSteps
  <2>4. processing'[target[m]] # <<>> /\ Head(processing'[target[m]]).job = k
    BY <1>1, <1>5, <2>3 DEF Saves, Orphan
  <2>5. PICK t \in Workers : t = target[m]
    BY <2>3
  <2>6. ~Spent(t)' /\ processing'[t] # <<>> /\ Head(processing'[t]).job = k
    <3>1. ~DeletedNext(t)'
      BY <1>2, <2>2, <2>3, MonitorPoints DEF DeletedNext, Safekept, LockHeld, Scanning, ScanSteps
    <3> QED  BY <1>1, <2>3, <2>4, <2>5, <3>1 DEF Spent, Gone
  <2> QED  BY <2>6 DEF Holds
<1> QED  BY <1>3, <1>4, <1>5 DEF Passes

LEMMA RecoverPasses ==
  ASSUME OnlyProcessesFail, TypeOK, Safekept, LettersDecided, NEW m \in Monitors, Recover(m),
         UNCHANGED workerVars, NEW k \in Jobs
  PROVE  Passes(m, k)
<1> USE DEF Call, Disrupted, OnlyProcessesFail, MonitorProceeds, MonitorGoto
<1>0. /\ monitorAt \in [Monitors -> MonitorSteps]
      /\ target \in [Monitors -> Workers \union {Nobody}]
      /\ status \in [Jobs -> RowStates] /\ processing \in [Workers -> Queue] /\ StoreTypeOK
      /\ UNCHANGED workerAt
  BY MonitorTypeAt DEF TypeOK, StoreTypeOK, StatusTable, Queues, workerVars
<1>1. \A n \in Monitors : n # m => monitorAt'[n] = monitorAt[n] /\ target'[n] = target[n]
  BY OneMonitorHolds DEF TypeOK
<1>2. monitorAt[m] \in NeedsOrphan =>
        /\ Orphan(m) \in QueuePayload /\ Orphan(m).job \in Jobs
        /\ orphans[m] = processing[target[m]]
  BY MonitorHolds DEF TypeOK, Safekept, Shape, CopyOf
<1>3. ASSUME monitorAt[m] \in NeedsOrphan, NEW w \in Workers, Holds(w, k), w = target[m]
      PROVE  Orphan(m).job = k
  BY <1>2, <1>3 DEF Holds, Orphan
<1>4. ASSUME monitorAt[m] \in NeedsOrphan, UNCHANGED processing,
             monitorAt'[m] = "delete_queue" =>
               target'[m] = target[m] /\ (Orphan(m).job = k => Decided(k)' \/ Waits(k)')
      PROVE  \A w \in Workers : Holds(w, k) => Holds(w, k)' \/ Decided(k)' \/ Waits(k)'
  BY <1>1, <1>3, <1>4, StillHolds
<1>5. CASE ReadStatus(m)
  <2>1. /\ monitorAt[m] \in NeedsOrphan /\ UNCHANGED <<status, pending, processing>>
    BY <1>5, MonitorPoints DEF ReadStatus, dbVars, rowVars, redisVars, queueVars
  <2>2. CASE Settled(m)
    <3>1. monitorAt'[m] = "delete_queue" /\ target'[m] = target[m]
      BY <1>5, <2>1, <2>2, NextIsDelete DEF ReadStatus, Safekept
    <3>2. Orphan(m).job = k => Decided(k)'
      BY <2>1, <2>2 DEF Settled, Decided
    <3>3. ~Saves(m, k)
      BY <1>5 DEF ReadStatus, Saves
    <3> QED  BY <1>4, <2>1, <3>1, <3>2, <3>3 DEF Passes, Decided, Waits
  <2>3. CASE ~Settled(m)
    <3>1. monitorAt'[m] # "delete_queue"
      BY <1>0, <1>5, <2>3 DEF ReadStatus
    <3>2. ~Saves(m, k)
      BY <1>5 DEF ReadStatus, Saves
    <3> QED  BY <1>4, <2>1, <3>1, <3>2 DEF Passes, Decided, Waits
  <2> QED  BY <2>2, <2>3
<1>6. CASE MarkPending(m)
  <2>1. /\ monitorAt[m] \in NeedsOrphan /\ UNCHANGED <<pending, processing>>
        /\ monitorAt'[m] = "push_recovered" /\ UNCHANGED orphans
    BY <1>0, <1>6, MonitorPoints DEF MarkPending, redisVars, queueVars, scanVars
  <2>2. Orphan(m).job = k => Saves(m, k)'
    BY <2>1 DEF Saves, Orphan
  <2>3. Orphan(m).job # k => SameRows(k)
    BY <1>6, MonitorTouches DEF TypeOK, Recover
  <2>4. ~Saves(m, k)
    BY <1>6 DEF MarkPending, Saves
  <2> QED  BY <1>4, <2>1, <2>2, <2>3, <2>4 DEF Passes, Decided, Waits, SameRows
<1>7. CASE PushRecovered(m)
  <2> DEFINE e == Entry(Orphan(m).job, Orphan(m).retry + 1)
  <2>1. /\ monitorAt[m] \in NeedsOrphan /\ UNCHANGED <<status, processing>>
        /\ monitorAt'[m] = "delete_queue" /\ target'[m] = target[m]
    <3>1. monitorAt[m] \in NeedsOrphan /\ NextOrphan(m) /\ UNCHANGED <<status, processing>>
      BY <1>7, MonitorPoints DEF PushRecovered, dbVars, rowVars
    <3> QED  BY <3>1, NextIsDelete DEF Safekept
  <2>2. e \in QueuePayload /\ e.job = Orphan(m).job
    <3>1. ~Exhausted(Orphan(m))
      BY <1>7, MonitorTypeAt DEF PushRecovered, TypeOK, RetryPoints, Orphan
    <3> QED  BY <1>2, <2>1, <3>1, RetryStaysPayload DEF Entry
  <2>3. EnqueuePending(e)
    BY <1>7 DEF PushRecovered
  <2> HIDE DEF e
  <2>4. (Waits(k) => Waits(k)') /\ (Orphan(m).job = k => Waits(k)')
    BY <1>0, <2>2, <2>3, PushedWaits
  <2>5. Saves(m, k) => Waits(k)'
    BY <2>4 DEF Saves
  <2> QED  BY <1>4, <2>1, <2>4, <2>5 DEF Passes, Decided
<1>8. CASE MonitorDlqPersist(m)
  <2>1. /\ monitorAt[m] \in NeedsOrphan /\ UNCHANGED <<pending, processing>>
        /\ monitorAt'[m] = "dlq_push"
        /\ status' = [status EXCEPT ![Orphan(m).job] = "FAILED"]
    BY <1>0, <1>8, MonitorPoints DEF MonitorDlqPersist, redisVars, queueVars, DeadLetterInDb, SetStatus
  <2>2. Decided(k) \/ Orphan(m).job = k => Decided(k)'
    BY <1>0, <2>1 DEF Decided, IsTerminalStatus, TerminalStatuses
  <2> QED  BY <1>4, <2>1, <2>2 DEF Passes, Waits, Saves
<1>9. CASE MonitorDlqPush(m)
  <2>1. /\ monitorAt[m] \in NeedsOrphan /\ UNCHANGED <<pending, processing, status>>
        /\ monitorAt'[m] = "delete_queue" /\ target'[m] = target[m]
    <3>1. /\ monitorAt[m] \in NeedsOrphan /\ NextOrphan(m)
          /\ UNCHANGED <<pending, processing, status>>
      BY <1>9, MonitorPoints DEF MonitorDlqPush, dbVars, rowVars
    <3> QED  BY <3>1, NextIsDelete DEF Safekept
  <2>2. Orphan(m).job = k => Decided(k)'
    BY <1>9, <2>1 DEF MonitorDlqPush, LettersDecided, Decided
  <2>3. ~Saves(m, k)
    BY <1>9 DEF MonitorDlqPush, Saves
  <2> QED  BY <1>4, <2>1, <2>2, <2>3 DEF Passes, Decided, Waits
<1>10. CASE DeleteQueue(m)
  <2>1. /\ UNCHANGED <<pending, status, target>> /\ monitorAt'[m] # "delete_queue"
        /\ \A w \in Workers : w # target[m] => processing'[w] = processing[w]
    BY <1>0, <1>10 DEF DeleteQueue, dbVars, rowVars, scanVars
  <2>2. ASSUME NEW w \in Workers, Holds(w, k)
        PROVE  Holds(w, k)'
    <3>1. w # target[m]
      BY <1>10, <2>2 DEF DeleteQueue, Holds, Spent, DeletedNext
    <3> QED  BY <1>0, <1>1, <2>1, <2>2, <3>1 DEF Holds, Spent, DeletedNext
  <2>3. ~Saves(m, k)
    BY <1>10 DEF DeleteQueue, Saves
  <2> QED  BY <2>1, <2>2, <2>3 DEF Passes, Decided, Waits
<1> QED  BY <1>5, <1>6, <1>7, <1>8, <1>9, <1>10 DEF Recover

LEMMA MonitorAccounts ==
  ASSUME OnlyProcessesFail, RetriesOrCrashes, TypeOK, Safekept, Accounted,
         MonitorNext, UNCHANGED <<post, workerVars>>
  PROVE  Accounted'
<1>0. UNCHANGED <<workerAt, current>>
  BY DEF workerVars
<1>1. CrashIsCause'
  BY <1>0 DEF Accounted, CrashIsCause
<1>2. ASSUME NEW m \in Monitors, Startup(m) \/ Scan(m) \/ Recover(m) \/ MonitorCrash(m)
      PROVE  LettersDecided' /\ AllKept'
  <2>1. ASSUME NEW k \in Jobs  PROVE Passes(m, k)
    BY <1>2, StartupPasses, ScanPasses, RecoverPasses DEF Accounted
  <2>2. \A n \in Monitors : n # m => /\ monitorAt'[n] = monitorAt[n] /\ orphans'[n] = orphans[n]
                                     /\ target'[n] = target[n]
    BY <1>2, OneMonitorHolds DEF TypeOK
  <2>3. ASSUME NEW k \in Jobs, Kept(k)  PROVE Kept(k)'
    <3>1. \A w \in Workers : Carries(w, k) => Carries(w, k)'
      BY <1>0 DEF Carries, CurrentJob
    <3>2. \A n \in Monitors : n # m /\ Saves(n, k) => Saves(n, k)'
      BY <2>2 DEF Saves, Orphan
    <3> QED  BY <2>1, <2>3, <3>1, <3>2 DEF Kept, HeldBy, Passes
  <2>4. ASSUME NEW n \in Monitors, monitorAt'[n] = "dlq_push"
        PROVE  Decided(Orphan(n).job)'
    <3>1. CASE n = m
      <4>1. MonitorDlqPersist(m)
        BY <1>2, <2>4, <3>1, MonitorTypeAt
           DEF TypeOK, Startup, StartMonitor, ResetRunning, MonitorReadDepth, SelectPending, Hydrate,
               Scan, AcquireLock, ScanQueues, ScanHeartbeats, PickWorker, ReleaseLock, Recover,
               ReadStatus, MarkPending, PushRecovered, MonitorDlqPush, DeleteQueue, NextOrphan,
               MonitorCrash, Exits, ScanFails, MonitorProceeds, MonitorGoto, Call
      <4>2. /\ monitorAt[m] \in NeedsOrphan /\ UNCHANGED orphans
            /\ status' = [status EXCEPT ![Orphan(m).job] = "FAILED"]
        BY <4>1, MonitorPoints
           DEF MonitorDlqPersist, DeadLetterInDb, SetStatus, MonitorProceeds, ScanFails, scanVars,
               Call, Disrupted, OnlyProcessesFail
      <4>3. Orphan(m).job \in Jobs /\ status \in [Jobs -> RowStates]
        BY <4>2, MonitorHolds DEF TypeOK, StoreTypeOK, StatusTable
      <4> QED  BY <3>1, <4>2, <4>3 DEF Decided, Orphan, IsTerminalStatus, TerminalStatuses
    <3>2. CASE n # m
      <4>1. monitorAt[n] = "dlq_push" /\ orphans'[n] = orphans[n]
        BY <2>2, <2>4, <3>2
      <4>2. Orphan(n).job \in Jobs /\ Decided(Orphan(n).job) /\ Scanning(n)
        BY <4>1, MonitorHolds, MonitorPoints
           DEF TypeOK, Accounted, LettersDecided, Scanning, ScanSteps
      <4>3. PICK j \in Jobs : j = Orphan(n).job /\ j = Orphan(n)'.job
        BY <4>1, <4>2 DEF Orphan
      <4>4. ~Saves(m, j)'
        <5>1. ~Scanning(m)
          BY <3>2, <4>2 DEF Safekept, LockHeld
        <5>2. ~Recover(m)
          BY <5>1, MonitorPoints
             DEF Recover, ReadStatus, MarkPending, PushRecovered, MonitorDlqPersist, MonitorDlqPush,
                 DeleteQueue, Scanning, ScanSteps
        <5>3. monitorAt'[m] \notin {"push_recovered", "dlq_persist"}
          BY <1>2, <5>2, MonitorTypeAt
             DEF TypeOK, Startup, StartMonitor, ResetRunning, MonitorReadDepth, SelectPending,
                 Hydrate, Scan, AcquireLock, ScanQueues, ScanHeartbeats, PickWorker, ReleaseLock,
                 MonitorCrash, Exits, ScanFails, MonitorProceeds, MonitorGoto, Call
        <5> QED  BY <5>3 DEF Saves
      <4>5. Decided(j)'
        BY <2>1, <4>2, <4>3, <4>4 DEF Passes
      <4> QED  BY <4>3, <4>5 DEF Decided
    <3> QED  BY <3>1, <3>2
  <2> QED  BY <2>3, <2>4 DEF Accounted, AllKept, LettersDecided
<1>3. CASE LockExpires
  <2>1. UNCHANGED <<status, pending, processing, monitorAt, target, orphans, post>>
    BY <1>3 DEF LockExpires, monitorVars, scanVars, dbVars, rowVars, queueVars
  <2>2. LettersDecided'
    BY <2>1 DEF Accounted, LettersDecided, Decided, Orphan
  <2>3. \A k \in Jobs : Kept(k) => Kept(k)'
    BY <1>0, <2>1 DEF Kept, HeldBy, Holds, Carries, Spent, DeletedNext, CurrentJob, Saves, Orphan,
                      Waits, Decided
  <2> QED  BY <1>1, <2>1, <2>2, <2>3 DEF Accounted, AllKept
<1> QED  BY <1>1, <1>2, <1>3 DEF MonitorNext, Accounted

LEMMA GatewayAccounts ==
  ASSUME OnlyProcessesFail, TypeOK, Safekept, Accounted,
         GatewayNext, UNCHANGED <<workerVars, monitorVars>>
  PROVE  Accounted'
<1> USE DEF Call, Disrupted, OnlyProcessesFail
<1>0. /\ UNCHANGED <<workerAt, current, processing, monitorAt, target, orphans>>
      /\ post \in [Jobs -> PostStates] /\ status \in [Jobs -> RowStates] /\ StoreTypeOK
  BY DEF monitorVars, scanVars, workerVars, TypeOK, GatewayTypeOK, StoreTypeOK, StatusTable,
         GatewayNext, Request, GatewayCrash, Submit, Enqueue, ReadDepth, MarkFailed, RecordFailure,
         redisVars, queueVars
<1>1. \A k \in Jobs : Decided(k) => Decided(k)'
  <2>1. \A k \in Jobs : Decided(k) => post[k] # "none"
    BY DEF Decided, IsTerminalStatus, TerminalStatuses, Safekept, Issued, Submitted, At
  <2>2. \/ UNCHANGED status
        \/ \E j \in Jobs : status' = [status EXCEPT ![j] = "FAILED"]
        \/ \E j \in Jobs : post[j] = "none" /\ status' = [status EXCEPT ![j] = "PENDING"]
    BY DEF GatewayNext, Request, GatewayCrash, Submit, Enqueue, ReadDepth, MarkFailed, RecordFailure,
           InsertRow, SetStatus, At, dbVars, rowVars
  <2> QED  BY <1>0, <2>1, <2>2 DEF Decided, IsTerminalStatus, TerminalStatuses
<1>2. ASSUME NEW j \in Jobs, Enqueue(j)
      PROVE  Waits(j)' /\ \A k \in Jobs : Waits(k) => Waits(k)'
  <2>1. Entry(j, 0) \in QueuePayload /\ Entry(j, 0).job = j /\ EnqueuePending(Entry(j, 0))
    BY <1>2, MaxRetryAssumption DEF Entry, QueuePayload, Enqueue
  <2> QED  BY <1>0, <2>1, PushedWaits
<1>3. ASSUME NEW k \in Jobs, Waits(k)  PROVE Waits(k)'
  <2>1. UNCHANGED pending \/ \E j \in Jobs : Enqueue(j)
    BY DEF GatewayNext, Request, GatewayCrash, Submit, ReadDepth, MarkFailed, RecordFailure,
           redisVars, queueVars
  <2> QED  BY <1>2, <1>3, <2>1 DEF Waits
<1>4. ASSUME NEW k \in Jobs, Kept(k)  PROVE Kept(k)'
  BY <1>0, <1>1, <1>3, <1>4 DEF Kept, HeldBy, Holds, Carries, Spent, DeletedNext, CurrentJob, Saves,
                                Orphan
<1>5. ASSUME NEW k \in Jobs, post'[k] \in {"read_depth", "accepted"}
      PROVE  post[k] \in {"read_depth", "accepted"} \/ Enqueue(k)
  BY <1>0, <1>5 DEF GatewayNext, Request, GatewayCrash, Submit, Enqueue, ReadDepth, MarkFailed,
                    RecordFailure, Advance, At
<1>6. AllKept'
  BY <1>2, <1>4, <1>5 DEF Accounted, AllKept, Kept
<1>7. LettersDecided'
  <2> SUFFICES ASSUME NEW m \in Monitors, monitorAt'[m] = "dlq_push"
               PROVE  Decided(Orphan(m).job)'
    BY DEF LettersDecided
  <2>1. Orphan(m).job \in Jobs /\ Decided(Orphan(m).job)
    BY <1>0, MonitorHolds, MonitorPoints DEF TypeOK, Accounted, LettersDecided
  <2> QED  BY <1>0, <1>1, <2>1 DEF Decided, Orphan
<1>8. CrashIsCause'
  BY <1>0 DEF Accounted, CrashIsCause
<1> QED  BY <1>6, <1>7, <1>8 DEF Accounted

LEMMA AllAccounted ==
  ASSUME OnlyProcessesFail, RetriesOrCrashes
  PROVE  Spec => [](Safekept /\ Accounted)
<1>1. Spec => []Safekept
  BY ShapeHolds, IssuedHolds, PTL DEF Safekept
<1>2. Init => Accounted
  <2>1. Init => /\ \A w \in Workers : workerAt[w] = "off"
                /\ \A m \in Monitors : monitorAt[m] = "asleep"
                /\ \A j \in Jobs : post[j] = "none"
    BY DEF Init, WorkerInit, MonitorInit, GatewayInit
  <2> QED  BY <2>1 DEF Accounted, CrashIsCause, LettersDecided, AllKept
<1>3. TypeOK /\ Safekept /\ Accounted /\ [Next]_vars => Accounted'
  <2>1. Accounted /\ UNCHANGED vars => Accounted'
    BY DEF vars, storeVars, dbVars, rowVars, redisVars, queueVars, workerVars, monitorVars, scanVars,
           Accounted, CrashIsCause, LettersDecided, AllKept, Kept, HeldBy, Holds, Carries, Spent,
           DeletedNext, CurrentJob, Saves, Orphan, Waits, Decided
  <2> QED  BY <2>1, WorkerAccounts, GatewayAccounts, MonitorAccounts DEF Next
<1> QED  BY <1>1, <1>2, <1>3, TypeCorrect, PTL DEF Spec

\* AcceptedJobHeld: a submission answered with 201 and not yet decided is in a
\* queue or in the hands of a live process, whatever workers, monitors and
\* gateways die, and wherever. BRPOPLPUSH moves an entry in one step, the retry
\* is pushed (LPUSH) before the old entry goes (LREM), and the reaper's
\* recoverJobsFromDeadWorker deletes a list (DEL) only behind its pushes and its
\* dead letters. With both failing docker runs and worker crashes it would be
\* false: sendToDLQ holds a job in memory between the LREM and the transaction.
THEOREM AcceptedJobHeldSafe ==
  ASSUME OnlyProcessesFail, RetriesOrCrashes
  PROVE  Spec => []AcceptedJobHeld
<1>1. TypeOK /\ Safekept /\ Accounted => AcceptedJobHeld
  <2> SUFFICES ASSUME TypeOK, Safekept, Accounted, NEW j \in Jobs, At(j, "accepted"), ~Decided(j)
               PROVE  Waits(j) \/ Taken(j) \/ Carried(j)
    BY DEF AcceptedJobHeld
  <2>1. Kept(j)
    BY DEF Accounted, AllKept, At
  <2>2. ASSUME NEW w \in Workers, Holds(w, j)  PROVE Taken(j)
    <3>1. processing[w] \in Queue /\ processing[w] # <<>>
      BY <2>2 DEF Holds, TypeOK, StoreTypeOK, Queues
    <3>2. Head(processing[w]) \in ToSet(processing[w])
      BY <3>1, HeadTailSet
    <3> QED  BY <2>2, <3>2 DEF Holds, Taken
  <2>3. ASSUME NEW w \in Workers, Carries(w, j)  PROVE Carried(j)
    BY <2>3 DEF Carries, Carried
  <2>4. ASSUME NEW m \in Monitors, Saves(m, j)  PROVE Carried(j)
    BY <2>4 DEF Saves, Carried
  <2> QED  BY <2>1, <2>2, <2>3, <2>4 DEF Kept, HeldBy
<1> QED  BY <1>1, TypeCorrect, AllAccounted, PTL

(***************************************************************************)
(* Status and result are written together, except by the gateway, and the  *)
(* gateway decides a job only after an error of Redis.                     *)
(***************************************************************************)
Agrees(j) ==
  Decided(j) => /\ results[j] # NoResult
                /\ status[j] = FinalStatus(results[j].category)
                /\ results[j].output = "sandbox" <=> results[j].category \in Verdicts

NoCompensation == \A j \in Jobs : post[j] \notin {"mark_failed", "record_failure"}

TablesAgree == NoCompensation /\ \A j \in Jobs : Agrees(j)

LEMMA SameRowsAgree ==
  ASSUME NEW j, Agrees(j), SameRows(j)
  PROVE  Agrees(j)'
BY DEF Agrees, SameRows, Decided

LEMMA NotDecidedAgrees ==
  ASSUME NEW j, status'[j] \in {"PENDING", "RUNNING", "ABSENT"}
  PROVE  Agrees(j)'
BY DEF Agrees, Decided, IsTerminalStatus, TerminalStatuses

LEMMA WrittenTogether ==
  ASSUME StoreTypeOK, NEW j \in Jobs,
         \/ /\ SetStatus(j, "FAILED") /\ UpsertResult(j, "empty", "WORKER_CRASH")
         \/ \E v \in Verdicts : SetStatus(j, FinalStatus(v)) /\ UpsertResult(j, "sandbox", v)
  PROVE  Agrees(j)'
<1>1. status \in [Jobs -> RowStates] /\ results \in [Jobs -> ResultRow \union {NoResult}]
  BY DEF StoreTypeOK, StatusTable, ResultTable
<1>2. CASE SetStatus(j, "FAILED") /\ UpsertResult(j, "empty", "WORKER_CRASH")
  <2>1. status'[j] = "FAILED" /\ results'[j] = [output |-> "empty", category |-> "WORKER_CRASH"]
    BY <1>1, <1>2 DEF SetStatus, UpsertResult
  <2>2. FinalStatus("WORKER_CRASH") = "FAILED" /\ "WORKER_CRASH" \notin Verdicts
    BY DEF FinalStatus, Verdicts
  <2> QED  BY <2>1, <2>2 DEF Agrees, NoResult
<1>3. ASSUME NEW v \in Verdicts, SetStatus(j, FinalStatus(v)), UpsertResult(j, "sandbox", v)
      PROVE  Agrees(j)'
  <2>1. status'[j] = FinalStatus(v) /\ results'[j] = [output |-> "sandbox", category |-> v]
    BY <1>1, <1>3 DEF SetStatus, UpsertResult
  <2> QED  BY <2>1 DEF Agrees, NoResult
<1> QED  BY <1>2, <1>3

LEMMA WorkerAgrees ==
  ASSUME StoreTypeOK, WorkerTypeOK, NEW w \in Workers, Loop(w), NEW j \in Jobs, Agrees(j)
  PROVE  Agrees(j)'
<1> USE DEF Call, Disrupted, dbVars, rowVars
<1> USE DEF DbOnly, RedisOnly, SandboxOnly, PublishOnly
<1>0. status \in [Jobs -> RowStates] /\ verdict[w] \in Verdicts
  BY DEF StoreTypeOK, StatusTable, WorkerTypeOK
<1>1. CASE j # CurrentJob(w)
  BY <1>1, WorkerTouches, SameRowsAgree
<1>2. CASE UNCHANGED <<status, retryCount, results>>
  BY <1>2, SameRowsAgree DEF SameRows
<1>3. CASE j = CurrentJob(w) /\ Claim(w)
  <2>1. UNCHANGED <<status, retryCount, results>> \/ status'[j] = "RUNNING"
    BY <1>0, <1>3 DEF Claim
  <2> QED  BY <1>2, <2>1, NotDecidedAgrees
<1>4. CASE j = CurrentJob(w) /\ Persist(w)
  <2>1. \/ UNCHANGED <<status, retryCount, results>>
        \/ SetStatus(j, FinalStatus(verdict[w])) /\ UpsertResult(j, "sandbox", verdict[w])
    BY <1>4 DEF Persist
  <2> QED  BY <1>0, <1>2, <2>1, WrittenTogether
<1>5. CASE j = CurrentJob(w) /\ Requeue(w)
  <2>1. UNCHANGED <<status, retryCount, results>> \/ status'[j] = "PENDING"
    BY <1>0, <1>5 DEF Requeue, MarkForRetry, SetStatus
  <2> QED  BY <1>2, <2>1, NotDecidedAgrees
<1>6. CASE j = CurrentJob(w) /\ DlqPersist(w)
  <2>1. \/ UNCHANGED <<status, retryCount, results>>
        \/ SetStatus(j, "FAILED") /\ UpsertResult(j, "empty", "WORKER_CRASH")
    BY <1>6 DEF DlqPersist, DeadLetterInDb
  <2> QED  BY <1>2, <2>1, WrittenTogether
<1>7. CASE ~ (Claim(w) \/ Persist(w) \/ Requeue(w) \/ DlqPersist(w))
  BY <1>2, <1>7
     DEF Loop, Take, Pop, PopTimesOut, Check, GiveBack, Discard, RunJob, RemoveStaleContainer,
         StartContainer, ContainerExits, Conclude, Acknowledge, PublishCompletion, PutBack,
         PushRetry, RemoveOld, GiveUp, RemoveExhausted, DlqPush, DlqPublish
<1> QED  BY <1>1, <1>3, <1>4, <1>5, <1>6, <1>7

LEMMA MonitorAgrees ==
  ASSUME TypeOK, NEW m \in Monitors, Startup(m) \/ Scan(m) \/ Recover(m) \/ MonitorCrash(m),
         NEW j \in Jobs, Agrees(j)
  PROVE  Agrees(j)'
<1> USE DEF Call, Disrupted, dbVars, rowVars
<1>0. status \in [Jobs -> RowStates] /\ StoreTypeOK
  BY DEF TypeOK, StoreTypeOK, StatusTable
<1>1. CASE UNCHANGED <<status, retryCount, results>>
  BY <1>1, SameRowsAgree DEF SameRows
<1>2. CASE Scan(m) \/ MonitorCrash(m)
  BY <1>1, <1>2, ScanTouchesNothing
<1>3. CASE Startup(m)
  <2>1. \/ UNCHANGED <<status, retryCount, results>>
        \/ /\ status' = [k \in Jobs |-> IF status[k] = "RUNNING" THEN "PENDING" ELSE status[k]]
           /\ UNCHANGED <<retryCount, results>>
    BY <1>3 DEF Startup, StartMonitor, ResetRunning, MonitorReadDepth, SelectPending, Hydrate
  <2>2. \/ SameRows(j) \/ status'[j] = "PENDING"
    BY <1>0, <2>1 DEF SameRows
  <2> QED  BY <2>2, SameRowsAgree, NotDecidedAgrees
<1>4. CASE Recover(m)
  <2>1. CASE monitorAt[m] \in NeedsOrphan => j # Orphan(m).job
    BY <1>0, <1>4, <2>1, MonitorTouches, SameRowsAgree
  <2>2. CASE monitorAt[m] \in NeedsOrphan /\ j = Orphan(m).job
    <3>1. \/ UNCHANGED <<status, retryCount, results>>
          \/ SetStatus(j, "PENDING")
          \/ SetStatus(j, "FAILED") /\ UpsertResult(j, "empty", "WORKER_CRASH")
      BY <1>4, <2>2 DEF Recover, ReadStatus, MarkPending, PushRecovered, MonitorDlqPersist,
                        MonitorDlqPush, DeleteQueue, MarkForRetry, DeadLetterInDb
    <3>2. SetStatus(j, "PENDING") => status'[j] = "PENDING"
      BY <1>0 DEF SetStatus
    <3> QED  BY <1>0, <1>1, <3>1, <3>2, WrittenTogether, NotDecidedAgrees
  <2> QED  BY <2>1, <2>2
<1> QED  BY <1>2, <1>3, <1>4

\* The gateway starts no compensation, and every other decision is one
\* transaction that writes both tables.
LEMMA TablesHold ==
  ASSUME "redis_error" \notin Disruptions
  PROVE  Spec => []TablesAgree
<1>1. Init => TablesAgree
  BY DEF Init, StoreInit, GatewayInit, TablesAgree, NoCompensation, Agrees, Decided, IsTerminalStatus,
         TerminalStatuses
<1>2. TypeOK /\ TablesAgree /\ [Next]_vars => TablesAgree'
  <2> SUFFICES ASSUME TypeOK, TablesAgree, [Next]_vars  PROVE TablesAgree'
    OBVIOUS
  <2>0. StoreTypeOK /\ WorkerTypeOK /\ status \in [Jobs -> RowStates] /\ post \in [Jobs -> PostStates]
    BY DEF TypeOK, StoreTypeOK, StatusTable, GatewayTypeOK
  <2>1. ASSUME UNCHANGED <<post, status, retryCount, results>>
        PROVE  TablesAgree'
    BY <2>1 DEF TablesAgree, NoCompensation, Agrees, Decided
  <2>2. CASE GatewayNext
    <3>1. NoCompensation'
      BY <2>0, <2>2 DEF TablesAgree, NoCompensation, GatewayNext, Request, GatewayCrash, Submit,
                        Enqueue, ReadDepth, MarkFailed, RecordFailure, Advance, At, Call, Disrupted,
                        InFlight
    <3>2. ASSUME NEW j \in Jobs  PROVE Agrees(j)'
      <4>1. UNCHANGED <<retryCount, results>>
            /\ (UNCHANGED status \/ \E k \in Jobs : status' = [status EXCEPT ![k] = "PENDING"])
        BY <2>2 DEF TablesAgree, NoCompensation, GatewayNext, Request, GatewayCrash, Submit, Enqueue,
                    ReadDepth, MarkFailed, RecordFailure, At, Call, InsertRow, SetStatus, dbVars,
                    rowVars
      <4>2. SameRows(j) \/ status'[j] = "PENDING"
        BY <2>0, <4>1 DEF SameRows
      <4> QED  BY <4>2, SameRowsAgree, NotDecidedAgrees DEF TablesAgree
    <3> QED  BY <3>1, <3>2 DEF TablesAgree
  <2>3. CASE WorkerNext /\ UNCHANGED post
    <3>1. ASSUME NEW w \in Workers, Loop(w)  PROVE TablesAgree'
      BY <2>0, <2>3, <3>1, WorkerAgrees DEF TablesAgree, NoCompensation
    <3>2. ASSUME NEW w \in Workers, StartWorker(w) \/ Live(w)  PROVE TablesAgree'
      BY <2>1, <2>3, <3>2, LiveTouchesNothing DEF dbVars, rowVars
    <3>3. ASSUME NEW k \in Jobs, OrphanExits(k)  PROVE TablesAgree'
      BY <2>1, <2>3, <3>3 DEF OrphanExits, SandboxOnly, dbVars, rowVars
    <3> QED  BY <2>3, <3>1, <3>2, <3>3 DEF WorkerNext
  <2>4. CASE MonitorNext /\ UNCHANGED post
    <3>1. ASSUME NEW m \in Monitors, Startup(m) \/ Scan(m) \/ Recover(m) \/ MonitorCrash(m)
          PROVE  TablesAgree'
      BY <2>4, <3>1, MonitorAgrees DEF TablesAgree, NoCompensation
    <3>2. CASE LockExpires
      BY <2>1, <2>4, <3>2 DEF LockExpires, dbVars, rowVars
    <3> QED  BY <2>4, <3>1, <3>2 DEF MonitorNext
  <2>5. CASE UNCHANGED vars
    BY <2>1, <2>5 DEF vars, storeVars, dbVars, rowVars
  <2> QED  BY <2>2, <2>3, <2>4, <2>5 DEF Next
<1> QED  BY <1>1, <1>2, TypeCorrect, PTL DEF Spec

\* ResultAgreesWithStatus: as long as Redis answers, and whatever else fails or
\* dies, a decided job has a result that says the same as its status. Every
\* decision is one transaction (the worker's, sendToDLQ of worker and reaper);
\* the compensation of POST /submissions, two statements with no transaction
\* around them, starts only from an error of Redis.
THEOREM ResultAgreesWithStatusSafe ==
  ASSUME "redis_error" \notin Disruptions
  PROVE  Spec => []ResultAgreesWithStatus
<1>1. TablesAgree => ResultAgreesWithStatus
  BY DEF TablesAgree, Agrees, ResultAgreesWithStatus
<1> QED  BY <1>1, TablesHold, PTL

(***************************************************************************)
(* Why a claim is rejected. A row that says RUNNING has a worker behind    *)
(* it: one that executes the job, or one that is gone and has left its     *)
(* entry to a reaper that has not written the row yet.                     *)
(***************************************************************************)
RowWritten == {"push_recovered", "dlq_push", "delete_queue"}

RunsIt(v, j) == Executing(v) /\ CurrentJob(v) = j
LeftIt(v, j) ==
  /\ ~Alive(v) /\ processing[v] # <<>> /\ Head(processing[v]).job = j
  /\ \A m \in Monitors : target[m] = v => monitorAt[m] \notin RowWritten
HasIt(v, j)  == RunsIt(v, j) \/ LeftIt(v, j)

RunningHeld == \A j \in Jobs : status[j] = "RUNNING" => \E v \in Workers : HasIt(v, j)
RowsThere   == \A j \in Jobs : Submitted(j) => status[j] # "ABSENT"

\* A worker that moves takes nothing from the others.
LEMMA OthersHold ==
  ASSUME StoreTypeOK, WorkerTypeOK, NEW w \in Workers, StartWorker(w) \/ Live(w) \/ Loop(w),
         UNCHANGED monitorVars, NEW v \in Workers, v # w, NEW j, HasIt(v, j)
  PROVE  HasIt(v, j)'
<1>1. workerAt'[v] = workerAt[v] /\ current'[v] = current[v]
  BY OneWorkerMoves
<1>2. processing'[v] = processing[v]
  BY LoopLives, LiveTouchesNothing DEF queueVars
<1> QED  BY <1>1, <1>2 DEF HasIt, RunsIt, LeftIt, Executing, Alive, CurrentJob, monitorVars, scanVars

LEMMA LiveWorkerKeeps ==
  ASSUME TypeOK, Safekept, NEW w \in Workers, StartWorker(w) \/ Live(w), UNCHANGED monitorVars,
         NEW j \in Jobs, HasIt(w, j)
  PROVE  HasIt(w, j)'
<1>0. WorkerTypeOK /\ HandsOf(w) /\ UNCHANGED processing /\ Sandboxed \subseteq FullHanded
  BY LiveTouchesNothing DEF TypeOK, Safekept, Shape, queueVars, FullHanded
<1>1. CASE StartWorker(w)
  <2>1. processing[w] = <<>> /\ workerAt[w] = "off" /\ "off" \notin Sandboxed
    BY <1>0, <1>1, HandPoints DEF StartWorker, HandsOf, Sandboxed
  <2> QED  BY <2>1 DEF HasIt, RunsIt, LeftIt, Executing
<1>2. CASE WorkerCrash(w)
  <2>1. workerAt'[w] = "crashed" /\ ~Alive(w)' /\ Alive(w)
    BY <1>0, <1>2 DEF WorkerCrash, Goto, Alive, Inert, WorkerTypeOK
  <2>2. RunsIt(w, j)
    BY <2>1 DEF HasIt, LeftIt
  <2>3. processing[w] # <<>> /\ Head(processing[w]).job = j
    BY <1>0, <2>2, HoldsCurrent DEF RunsIt, Executing
  <2>4. ASSUME NEW m \in Monitors, target[m] = w  PROVE monitorAt[m] \notin RowWritten
    <3>1. ~Recovering(m)
      BY <2>1, <2>4 DEF Safekept, SuspectsGone, Gone, Alive, Inert
    <3> QED  BY <3>1 DEF Recovering, RecoverSteps, RowWritten
  <2> QED  BY <1>0, <2>1, <2>3, <2>4 DEF HasIt, LeftIt, monitorVars, scanVars
<1>3. CASE SendHeartbeat(w) \/ HeartbeatExpires(w) \/ Sigterm(w)
  <2>1. UNCHANGED <<workerAt, current>>
    BY <1>3 DEF SendHeartbeat, HeartbeatExpires, Sigterm, workerVars
  <2> QED  BY <1>0, <2>1 DEF HasIt, RunsIt, LeftIt, Executing, Alive, CurrentJob, monitorVars, scanVars
<1> QED  BY <1>1, <1>2, <1>3 DEF Live

\* A worker that executes a job goes on, or decides it; one that claims a job,
\* and thereby alone sets a row to RUNNING, executes it.
LEMMA LoopKeepsRunning ==
  ASSUME OnlyProcessesFail, "spawn_error" \notin Disruptions, TypeOK, Safekept,
         NEW w \in Workers, Loop(w), NEW j \in Jobs, status'[j] = "RUNNING"
  PROVE  /\ status[j] # "RUNNING" => HasIt(w, j)'
         /\ HasIt(w, j) => HasIt(w, j)'
<1> USE DEF Call, Disrupted, OnlyProcessesFail, dbVars, rowVars, DbOnly, RedisOnly, SandboxOnly,
            PublishOnly, Executing, CurrentJob, RunsIt, HasIt
<1>0. /\ WorkerTypeOK /\ StoreTypeOK /\ status \in [Jobs -> RowStates] /\ verdict[w] \in Verdicts
      /\ workerAt \in [Workers -> {"pop"} \union Busy \union Inert]
      /\ current \in [Workers -> QueuePayload \union {NoJob}]
      /\ workerAt[w] \notin Requeuing
  BY DEF TypeOK, StoreTypeOK, StatusTable, WorkerTypeOK, Safekept, Shape, HandsOf
<1>1. ~LeftIt(w, j)
  BY <1>0, LoopLives DEF LeftIt
<1>2. CASE Claim(w)
  <2>1. ~Executing(w)
    BY <1>2 DEF Claim, Sandboxed
  <2>2. status[j] # "RUNNING" => j = current[w].job /\ status[j] = "PENDING"
    BY <1>0, <1>2 DEF Claim
  <2>3. status[current[w].job] = "PENDING" => workerAt'[w] = "remove_stale" /\ current' = current
    BY <1>0, <1>2 DEF Claim, Proceed, Goto
  <2> QED  BY <1>1, <2>1, <2>2, <2>3 DEF Sandboxed
<1>3. CASE RunJob(w)
  <2>1. UNCHANGED <<status, current>> /\ workerAt'[w] \in Sandboxed
    BY <1>0, <1>3 DEF RunJob, RemoveStaleContainer, StartContainer, ContainerExits, Proceed, Goto,
                      Sandboxed
  <2> QED  BY <1>1, <2>1
<1>4. CASE Persist(w)
  <2>1. status' = [status EXCEPT ![current[w].job] = FinalStatus(verdict[w])]
    BY <1>4 DEF Persist, SetStatus
  <2>2. current[w].job # j /\ status[j] = "RUNNING"
    BY <1>0, <2>1, FinalIsTerminal DEF IsTerminalStatus, TerminalStatuses
  <2> QED  BY <1>1, <2>2
<1>5. CASE ~Claim(w) /\ ~RunJob(w) /\ ~Persist(w)
  <2>1. UNCHANGED status /\ ~Executing(w)
    BY <1>0, <1>5, HandPoints
       DEF Loop, Take, Pop, PopTimesOut, Check, GiveBack, Discard, Conclude, Acknowledge,
           PublishCompletion, PutBack, Requeue, PushRetry, RemoveOld, GiveUp, RemoveExhausted,
           DlqPersist, DlqPush, DlqPublish, Sandboxed
  <2> QED  BY <1>1, <2>1
<1> QED  BY <1>2, <1>3, <1>4, <1>5

\* A monitor outside of a recovery has written no row it has still to push.
LEMMA OutsideKeeps ==
  ASSUME OnlyProcessesFail, TypeOK, NEW m \in Monitors, Startup(m) \/ Scan(m) \/ MonitorCrash(m),
         UNCHANGED workerVars, NEW j \in Jobs, status'[j] = "RUNNING"
  PROVE  status[j] = "RUNNING" /\ \A v \in Workers : HasIt(v, j) => HasIt(v, j)'
<1> USE DEF Call, Disrupted, OnlyProcessesFail, MonitorProceeds, MonitorGoto
<1>0. /\ monitorAt \in [Monitors -> MonitorSteps] /\ status \in [Jobs -> RowStates]
      /\ target \in [Monitors -> Workers \union {Nobody}]
  BY MonitorTypeAt DEF TypeOK, StoreTypeOK, StatusTable
<1>1. status[j] = "RUNNING" /\ UNCHANGED processing
  BY <1>0, ScanTouchesNothing
     DEF Startup, StartMonitor, ResetRunning, MonitorReadDepth, SelectPending, Hydrate, dbVars,
         rowVars, redisVars, queueVars
<1>2. \A n \in Monitors : n # m => monitorAt'[n] = monitorAt[n] /\ target'[n] = target[n]
  BY OneMonitorHolds DEF TypeOK
<1>3. monitorAt'[m] \in RowWritten => /\ monitorAt'[m] = "delete_queue"
                                      /\ processing[target'[m]] = <<>>
  <2>1. CASE PickWorker(m)
    <3>1. PICK w \in suspects[m] :
            monitorAt'[m] \in RowWritten =>
              /\ target' = [target EXCEPT ![m] = w]
              /\ monitorAt'[m] = IF processing[w] = <<>> THEN "delete_queue" ELSE "read_status"
      BY <1>0, <2>1 DEF PickWorker
    <3> QED  BY <1>0, <3>1 DEF RowWritten
  <2>2. CASE ~PickWorker(m)
    BY <1>0, <2>2 DEF Startup, StartMonitor, ResetRunning, MonitorReadDepth, SelectPending, Hydrate,
                      Scan, AcquireLock, ScanQueues, ScanHeartbeats, ReleaseLock, MonitorCrash,
                      Exits, ScanFails, RowWritten
  <2> QED  BY <2>1, <2>2
<1> QED  BY <1>1, <1>2, <1>3 DEF HasIt, RunsIt, LeftIt, Executing, Alive, CurrentJob, workerVars

\* A monitor in a recovery writes the row before it counts as written.
LEMMA RecoverKeeps ==
  ASSUME OnlyProcessesFail, TypeOK, Safekept, NEW m \in Monitors, Recover(m), UNCHANGED workerVars,
         NEW j \in Jobs, status'[j] = "RUNNING"
  PROVE  status[j] = "RUNNING" /\ \A v \in Workers : HasIt(v, j) => HasIt(v, j)'
<1> USE DEF Call, Disrupted, OnlyProcessesFail, MonitorProceeds, MonitorGoto
<1>0. /\ monitorAt \in [Monitors -> MonitorSteps] /\ status \in [Jobs -> RowStates]
      /\ target \in [Monitors -> Workers \union {Nobody}] /\ processing \in [Workers -> Queue]
      /\ UNCHANGED <<workerAt, current>>
  BY MonitorTypeAt DEF TypeOK, StoreTypeOK, StatusTable, Queues, workerVars
<1>1. \/ UNCHANGED status
      \/ MarkPending(m) /\ status' = [status EXCEPT ![Orphan(m).job] = "PENDING"]
      \/ MonitorDlqPersist(m) /\ status' = [status EXCEPT ![Orphan(m).job] = "FAILED"]
  BY DEF Recover, ReadStatus, MarkPending, PushRecovered, MonitorDlqPersist, MonitorDlqPush,
         DeleteQueue, MarkForRetry, DeadLetterInDb, SetStatus, dbVars, rowVars
<1>2. status[j] = "RUNNING" /\ (MarkPending(m) \/ MonitorDlqPersist(m) => Orphan(m).job # j)
  BY <1>0, <1>1 DEF MarkPending, MonitorDlqPersist, MarkForRetry, DeadLetterInDb, SetStatus
<1>3. \A v \in Workers : RunsIt(v, j) => RunsIt(v, j)'
  BY <1>0 DEF RunsIt, Executing, CurrentJob
<1>4. \A n \in Monitors : n # m => monitorAt'[n] = monitorAt[n] /\ target'[n] = target[n]
  BY OneMonitorHolds DEF TypeOK
<1>5. ASSUME NEW v \in Workers, LeftIt(v, j)
      PROVE  LeftIt(v, j)'
  <2>1. CASE target[m] # v
    <3>1. processing'[v] = processing[v] /\ target'[m] = target[m]
      BY <1>0, <2>1 DEF Recover, ReadStatus, MarkPending, PushRecovered, MonitorDlqPersist,
                        MonitorDlqPush, DeleteQueue, NextOrphan, ScanFails, redisVars, queueVars,
                        scanVars
    <3> QED  BY <1>0, <1>4, <1>5, <2>1, <3>1 DEF LeftIt, Alive
  <2>2. CASE target[m] = v
    <3>1. monitorAt[m] \notin RowWritten
      BY <1>5, <2>2 DEF LeftIt
    <3>2. ReadStatus(m) \/ MarkPending(m) \/ MonitorDlqPersist(m)
      BY <3>1 DEF Recover, PushRecovered, MonitorDlqPush, DeleteQueue, RowWritten
    <3>3. Orphan(m).job = j
      BY <1>5, <2>2, <3>2, MonitorPoints
         DEF LeftIt, Orphan, Safekept, Shape, CopyOf, ReadStatus, MarkPending, MonitorDlqPersist
    <3>4. ReadStatus(m) /\ ~Settled(m)
      BY <1>2, <3>2, <3>3 DEF ReadStatus, Settled, IsTerminalStatus, TerminalStatuses
    <3>5. UNCHANGED processing /\ monitorAt'[m] \notin RowWritten
      BY <1>0, <3>4 DEF ReadStatus, ScanFails, RowWritten, redisVars, queueVars
    <3> QED  BY <1>0, <1>4, <1>5, <3>5 DEF LeftIt, Alive
  <2> QED  BY <2>1, <2>2
<1> QED  BY <1>2, <1>3, <1>5 DEF HasIt

\* Every step keeps a worker behind each row that says RUNNING.
LEMMA RunningStaysHeld ==
  ASSUME OnlyProcessesFail, "spawn_error" \notin Disruptions, TypeOK, Safekept, RunningHeld,
         [Next]_vars
  PROVE  RunningHeld'
<1> SUFFICES ASSUME NEW j \in Jobs, status'[j] = "RUNNING"
             PROVE  \E v \in Workers : HasIt(v, j)'
  BY DEF RunningHeld
<1>0. StoreTypeOK /\ WorkerTypeOK /\ status \in [Jobs -> RowStates]
  BY DEF TypeOK, StoreTypeOK, StatusTable
<1>1. ASSUME status[j] = "RUNNING", UNCHANGED <<workerAt, current, processing, monitorVars>>
      PROVE  \E v \in Workers : HasIt(v, j)'
  BY <1>1 DEF RunningHeld, HasIt, RunsIt, LeftIt, Executing, Alive, CurrentJob, monitorVars, scanVars
<1>2. CASE GatewayNext /\ UNCHANGED <<workerVars, monitorVars>>
  <2>1. UNCHANGED processing
    BY <1>2 DEF GatewayNext, Request, GatewayCrash, Submit, Enqueue, ReadDepth, MarkFailed,
                RecordFailure, redisVars, queueVars
  <2>2. \/ UNCHANGED status
        \/ \E k \in Jobs, s \in {"PENDING", "FAILED"} : status' = [status EXCEPT ![k] = s]
    BY <1>2 DEF GatewayNext, Request, GatewayCrash, Submit, Enqueue, ReadDepth, MarkFailed,
                RecordFailure, InsertRow, SetStatus, Call, dbVars, rowVars
  <2>3. status[j] = "RUNNING"
    BY <1>0, <2>2
  <2> QED  BY <1>1, <1>2, <2>1, <2>3 DEF workerVars
<1>3. CASE WorkerNext /\ UNCHANGED <<post, monitorVars>>
  <2>1. ASSUME NEW w \in Workers, StartWorker(w) \/ Live(w) \/ Loop(w)
        PROVE  \E v \in Workers : HasIt(v, j)'
    <3>1. \/ HasIt(w, j)'
          \/ status[j] = "RUNNING" /\ (HasIt(w, j) => HasIt(w, j)')
      <4>1. CASE Loop(w)
        BY <1>0, <2>1, <4>1, LoopKeepsRunning
      <4>2. CASE StartWorker(w) \/ Live(w)
        <5>1. status[j] = "RUNNING"
          BY <4>2, LiveTouchesNothing DEF dbVars, rowVars
        <5>2. HasIt(w, j) => HasIt(w, j)'
          BY <1>3, <4>2, LiveWorkerKeeps
        <5> QED  BY <5>1, <5>2
      <4> QED  BY <2>1, <4>1, <4>2
    <3>2. \A v \in Workers \ {w} : HasIt(v, j) => HasIt(v, j)'
      BY <1>0, <1>3, <2>1, OthersHold
    <3> QED  BY <3>1, <3>2 DEF RunningHeld
  <2>2. ASSUME NEW k \in Jobs, OrphanExits(k)
        PROVE  \E v \in Workers : HasIt(v, j)'
    BY <1>1, <1>3, <2>2 DEF OrphanExits, SandboxOnly, dbVars, rowVars, redisVars, queueVars
  <2> QED  BY <1>3, <2>1, <2>2 DEF WorkerNext
<1>4. CASE MonitorNext /\ UNCHANGED <<post, workerVars>>
  <2>1. ASSUME NEW m \in Monitors, Startup(m) \/ Scan(m) \/ Recover(m) \/ MonitorCrash(m)
        PROVE  \E v \in Workers : HasIt(v, j)'
    <3>1. status[j] = "RUNNING" /\ \A v \in Workers : HasIt(v, j) => HasIt(v, j)'
      BY <1>4, <2>1, OutsideKeeps, RecoverKeeps
    <3> QED  BY <3>1 DEF RunningHeld
  <2>2. CASE LockExpires
    BY <1>1, <1>4, <2>2 DEF LockExpires, dbVars, rowVars, queueVars, workerVars
  <2> QED  BY <1>4, <2>1, <2>2 DEF MonitorNext
<1>5. CASE UNCHANGED vars
  BY <1>1, <1>5 DEF vars, storeVars, dbVars, rowVars, redisVars, queueVars, workerVars
<1> QED  BY <1>2, <1>3, <1>4, <1>5 DEF Next

\* A job that was submitted has a row, and keeps it.
LEMMA RowsStay ==
  ASSUME "db_error" \notin Disruptions, TypeOK, RowsThere, [Next]_vars
  PROVE  RowsThere'
<1> SUFFICES ASSUME NEW j \in Jobs, Submitted(j)'
             PROVE  status'[j] # "ABSENT"
  BY DEF RowsThere
<1>0. /\ StoreTypeOK /\ WorkerTypeOK /\ status \in [Jobs -> RowStates]
      /\ post \in [Jobs -> PostStates] /\ (status[j] # "ABSENT" \/ ~Submitted(j))
  BY DEF TypeOK, StoreTypeOK, StatusTable, GatewayTypeOK, RowsThere
<1>1. CASE UNCHANGED <<post, status>>
  BY <1>0, <1>1 DEF Submitted, At
<1>2. CASE GatewayNext
  <2>1. ASSUME NEW k \in Jobs, Submit(k)
        PROVE  status'[j] # "ABSENT"
    <3>1. status' = [status EXCEPT ![k] = "PENDING"]
      BY <2>1 DEF Submit, InsertRow, SetStatus, Call, Disrupted
    <3>2. \E point : post' = [post EXCEPT ![k] = point]
      BY <2>1 DEF Submit, Call, Advance
    <3>3. Submitted(j) \/ j = k
      BY <1>0, <3>2 DEF Submitted, At
    <3> QED  BY <1>0, <3>1, <3>3
  <2>2. ASSUME NEW k \in Jobs, Enqueue(k) \/ ReadDepth(k) \/ MarkFailed(k) \/ RecordFailure(k)
        PROVE  status'[j] # "ABSENT"
    <3>1. \E point : post[k] # "none" /\ post' = [post EXCEPT ![k] = point]
      BY <2>2 DEF Enqueue, ReadDepth, MarkFailed, RecordFailure, Call, Advance, At
    <3>2. Submitted(j)
      BY <1>0, <3>1 DEF Submitted, At
    <3>3. UNCHANGED status \/ status' = [status EXCEPT ![k] = "FAILED"]
      BY <2>2 DEF Enqueue, ReadDepth, MarkFailed, RecordFailure, SetStatus, Call, dbVars, rowVars
    <3> QED  BY <1>0, <3>2, <3>3
  <2>3. CASE GatewayCrash
    <3>1. Submitted(j) /\ UNCHANGED status
      BY <1>0, <2>3 DEF GatewayCrash, Submitted, At, InFlight, dbVars, rowVars
    <3> QED  BY <1>0, <3>1
  <2> QED  BY <1>2, <2>1, <2>2, <2>3 DEF GatewayNext, Request
<1>3. CASE WorkerNext /\ UNCHANGED post
  <2>1. ASSUME NEW w \in Workers, Loop(w)  PROVE status'[j] # "ABSENT"
    <3>1. CASE j # CurrentJob(w)
      BY <1>0, <1>3, <2>1, <3>1, WorkerTouches DEF SameRows, Submitted, At
    <3>2. CASE j = CurrentJob(w)
      <4>1. UNCHANGED status \/ \E s \in {"PENDING", "RUNNING", "FAILED", FinalStatus(verdict[w])} :
                                   status' = [status EXCEPT ![j] = s]
        BY <2>1, <3>2
           DEF Loop, Take, Pop, PopTimesOut, Claim, Check, GiveBack, Discard, RunJob,
               RemoveStaleContainer, StartContainer, ContainerExits, Conclude, Persist, Acknowledge,
               PublishCompletion, PutBack, Requeue, PushRetry, RemoveOld, GiveUp, RemoveExhausted,
               DlqPersist, DlqPush, DlqPublish, MarkForRetry, DeadLetterInDb, SetStatus,
               Call, RedisOnly, SandboxOnly, PublishOnly, dbVars, rowVars
      <4>2. FinalStatus(verdict[w]) # "ABSENT"
        BY <1>0, FinalIsTerminal DEF WorkerTypeOK, IsTerminalStatus, TerminalStatuses
      <4> QED  BY <1>0, <1>3, <4>1, <4>2 DEF Submitted, At
    <3> QED  BY <3>1, <3>2
  <2>2. ASSUME NEW w \in Workers, StartWorker(w) \/ Live(w)  PROVE status'[j] # "ABSENT"
    BY <1>1, <1>3, <2>2, LiveTouchesNothing DEF dbVars, rowVars
  <2>3. ASSUME NEW k \in Jobs, OrphanExits(k)  PROVE status'[j] # "ABSENT"
    BY <1>1, <1>3, <2>3 DEF OrphanExits, SandboxOnly, dbVars, rowVars
  <2> QED  BY <1>3, <2>1, <2>2, <2>3 DEF WorkerNext
<1>4. CASE MonitorNext /\ UNCHANGED post
  <2>1. \/ UNCHANGED status
        \/ status' = [k \in Jobs |-> IF status[k] = "RUNNING" THEN "PENDING" ELSE status[k]]
        \/ \E k : \E s \in {"PENDING", "FAILED"} : status' = [status EXCEPT ![k] = s]
    <3>1. CASE LockExpires
      BY <3>1 DEF LockExpires, dbVars, rowVars
    <3>2. ASSUME NEW m \in Monitors, Scan(m) \/ MonitorCrash(m)  PROVE UNCHANGED status
      BY <3>2, ScanTouchesNothing DEF dbVars, rowVars
    <3>3. ASSUME NEW m \in Monitors, Startup(m)
          PROVE  \/ UNCHANGED status
                 \/ status' = [k \in Jobs |-> IF status[k] = "RUNNING" THEN "PENDING" ELSE status[k]]
      BY <3>3 DEF Startup, StartMonitor, ResetRunning, MonitorReadDepth, SelectPending, Hydrate, Call,
                  dbVars, rowVars
    <3>4. ASSUME NEW m \in Monitors, Recover(m)
          PROVE  \/ UNCHANGED status
                 \/ status' = [status EXCEPT ![Orphan(m).job] = "PENDING"]
                 \/ status' = [status EXCEPT ![Orphan(m).job] = "FAILED"]
      BY <3>4 DEF Recover, ReadStatus, MarkPending, PushRecovered, MonitorDlqPersist, MonitorDlqPush,
                  DeleteQueue, MarkForRetry, DeadLetterInDb, SetStatus, Call, dbVars, rowVars
    <3> QED  BY <1>4, <3>1, <3>2, <3>3, <3>4 DEF MonitorNext
  <2> QED  BY <1>0, <1>4, <2>1 DEF Submitted, At
<1>5. CASE UNCHANGED vars
  BY <1>1, <1>5 DEF vars, storeVars, dbVars, rowVars
<1> QED  BY <1>2, <1>3, <1>4, <1>5 DEF Next

\* The only way from the claim to the check is a claim whose UPDATE found no
\* row to set.
LEMMA RejectedIsNotPending ==
  ASSUME "db_error" \notin Disruptions, TypeOK, Next,
         NEW w \in Workers, workerAt[w] = "claim", workerAt'[w] = "check"
  PROVE  status[CurrentJob(w)] # "PENDING"
<1>0. WorkerTypeOK /\ workerAt \in [Workers -> {"pop"} \union Busy \union Inert]
  BY DEF TypeOK, WorkerTypeOK
<1>1. WorkerNext
  BY DEF Next, workerVars
<1>2. ~ \E k \in Jobs : OrphanExits(k)
  BY DEF OrphanExits
<1>3. StartWorker(w) \/ Live(w) \/ Loop(w)
  BY <1>0, <1>1, <1>2, OneWorkerMoves DEF WorkerNext
<1>4. ~StartWorker(w) /\ ~Live(w)
  BY <1>0 DEF StartWorker, Live, SendHeartbeat, HeartbeatExpires, Sigterm, WorkerCrash, workerVars,
              Goto
<1>5. Claim(w)
  BY <1>3, <1>4, BusyPoints
     DEF Loop, Take, Pop, PopTimesOut, Check, GiveBack, Discard, RunJob, RemoveStaleContainer,
         StartContainer, ContainerExits, Conclude, Persist, Acknowledge, PublishCompletion, PutBack,
         Requeue, PushRetry, RemoveOld, GiveUp, RemoveExhausted, DlqPersist, DlqPush, DlqPublish
<1> QED  BY <1>0, <1>5 DEF Claim, Call, Disrupted, Proceed, Goto

\* RejectedForAnother: whatever workers, monitors and gateways die, and
\* whatever second entries a monitor makes that comes up again (ResetRunning and
\* Hydrate of bootstrap), a worker is denied its claim only because the job is
\* decided or because another worker has it, never because the reaper pushed
\* the entry ahead of its UPDATE: recoverJobsFromDeadWorker awaits the one
\* before it makes the other. The comment on the rejected claim says otherwise.
THEOREM RejectedForAnotherSafe ==
  ASSUME OnlyProcessesFail, "spawn_error" \notin Disruptions
  PROVE  Spec => RejectedForAnother
<1> DEFINE Known == Safekept /\ RunningHeld /\ RowsThere
<1>0. "db_error" \notin Disruptions
  BY DEF OnlyProcessesFail
<1>1. Spec => []Safekept
  BY ShapeHolds, IssuedHolds, PTL DEF Safekept
<1>2. Init => RunningHeld /\ RowsThere
  <2>1. Init => \A j \in Jobs : status[j] = "ABSENT" /\ post[j] = "none"
    BY DEF Init, StoreInit, GatewayInit
  <2> QED  BY <2>1 DEF RunningHeld, RowsThere, Submitted, At
<1>3. TypeOK /\ Safekept /\ RunningHeld /\ RowsThere /\ [Next]_vars => (RunningHeld /\ RowsThere)'
  BY <1>0, RunningStaysHeld, RowsStay
<1>4. TypeOK /\ Known /\ Next =>
        \A w \in Workers :
          workerAt[w] = "claim" /\ workerAt'[w] = "check" =>
            \/ Decided(CurrentJob(w))
            \/ \E v \in Workers \ {w} :
                 /\ \E e \in ToSet(processing[v]) : e.job = CurrentJob(w)
                 /\ Alive(v) \/ ~PushedAgain(v, CurrentJob(w))
  <2> SUFFICES ASSUME TypeOK, Known, Next, NEW w \in Workers,
                      workerAt[w] = "claim", workerAt'[w] = "check", ~Decided(CurrentJob(w))
               PROVE  \E v \in Workers \ {w} :
                        /\ \E e \in ToSet(processing[v]) : e.job = CurrentJob(w)
                        /\ Alive(v) \/ ~PushedAgain(v, CurrentJob(w))
    OBVIOUS
  <2> DEFINE j == CurrentJob(w)
  <2>0. WorkerTypeOK /\ processing \in [Workers -> Queue] /\ status \in [Jobs -> RowStates]
    BY DEF TypeOK, StoreTypeOK, Queues, StatusTable
  <2>1. j \in Jobs /\ status[j] = "RUNNING"
    <3>1. "claim" \in Busy
      BY DEF Busy
    <3>2. j \in Jobs /\ Submitted(j)
      BY <2>0, <3>1, BusyHolds DEF Known, Safekept, Issued, CurrentJob
    <3>3. status[j] # "ABSENT" /\ status[j] # "PENDING"
      BY <1>0, <3>2, RejectedIsNotPending DEF Known, RowsThere
    <3>4. \A s \in RowStates : \/ s \in {"ABSENT", "PENDING", "RUNNING"}
                              \/ IsTerminalStatus(s)
      BY DEF RowStates, Statuses, IsTerminalStatus, TerminalStatuses
    <3> QED  BY <2>0, <3>2, <3>3, <3>4 DEF Decided
  <2>2. PICK v \in Workers : HasIt(v, j)
    BY <2>1 DEF Known, RunningHeld
  <2>3. processing[v] # <<>> /\ Head(processing[v]).job = j
    BY <2>0, <2>2, HoldsCurrent
       DEF HasIt, RunsIt, LeftIt, Executing, FullHanded, Known, Safekept, Shape
  <2>4. Head(processing[v]) \in ToSet(processing[v])
    BY <2>0, <2>3, HeadTailSet
  <2>5. v # w
    BY <2>2 DEF HasIt, RunsIt, LeftIt, Executing, Sandboxed, Alive, Inert
  <2>6. Alive(v) \/ ~PushedAgain(v, j)
    <3>1. CASE RunsIt(v, j)
      BY <3>1 DEF RunsIt, Executing, Sandboxed, Alive, Inert
    <3>2. CASE LeftIt(v, j)
      <4>1. ASSUME NEW m \in Monitors, Recovering(m), target[m] = v
            PROVE  orphans[m] = processing[v]
        BY <3>2, <4>1
           DEF LeftIt, Recovering, RowWritten, NeedsOrphan, Known, Safekept, Shape, CopyOf
      <4> QED  BY <2>3, <2>4, <4>1 DEF PushedAgain
    <3> QED  BY <2>2, <3>1, <3>2 DEF HasIt
  <2> QED  BY <2>3, <2>4, <2>5, <2>6
<1>5. Spec => []Known
  BY <1>1, <1>2, <1>3, TypeCorrect, PTL DEF Spec, Known
<1>6. TypeOK /\ Known /\ [Next]_vars =>
        [\A w \in Workers :
          workerAt[w] = "claim" /\ workerAt'[w] = "check" =>
            \/ Decided(CurrentJob(w))
            \/ \E v \in Workers \ {w} :
                 /\ \E e \in ToSet(processing[v]) : e.job = CurrentJob(w)
                 /\ Alive(v) \/ ~PushedAgain(v, CurrentJob(w))]_vars
  BY <1>4
<1> HIDE DEF Known
<1> QED  BY <1>5, <1>6, TypeCorrect, PTL DEF Spec, RejectedForAnother
=============================================================================
