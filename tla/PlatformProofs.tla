--------------------------- MODULE PlatformProofs ---------------------------
(***************************************************************************)
(* Theorems about the platform, for any jobs, workers, monitors, retry     *)
(* limit and disruptions.                                                  *)
(***************************************************************************)
EXTENDS Platform, SequenceTheorems, FiniteSetTheorems, WellFoundedInduction, TLAPS

(***************************************************************************)
(* What the list operations of the store return, for lists of any length.  *)
(***************************************************************************)
\* A non-empty set of naturals has a least element: LREM's first occurrence.
LEMMA LeastExists ==
  ASSUME NEW I, I \subseteq Nat, I # {}
  PROVE  \E i \in I : \A k \in I : i <= k
<1> DEFINE R == {p \in Nat \X Nat : p[1] < p[2]}
<1>1. IsWellFoundedOn(R, Nat)
  BY NatLessThanWellFounded, Zenon DEF OpToRel
<1>2. PICK x \in I : \A y \in I : ~ (<<y, x>> \in R)
  <2> HIDE DEF R
  <2> QED  BY <1>1, WFMin, Zenon
<1>3. ASSUME NEW y \in I  PROVE x <= y
  <2>1. ~ (<<y, x>> \in R)
    BY <1>2
  <2>2. <<y, x>> \in Nat \X Nat /\ <<y, x>>[1] = y /\ <<y, x>>[2] = x
    OBVIOUS
  <2>3. ~ (y < x)
    BY <2>1, <2>2, Zenon
  <2> QED  BY <2>3
<1> QED  BY <1>3

\* LREM removes one entry that equals its argument, or nothing.
LEMMA LRemRemovesOne ==
  ASSUME NEW S, NEW list \in Seq(S), NEW e
  PROVE  \/ /\ \A i \in 1..Len(list) : list[i] # e
            /\ LRem(list, e) = list
         \/ \E k \in 1..Len(list) : list[k] = e /\ LRem(list, e) = RemoveAt(list, k)
<1> DEFINE I == {i \in 1..Len(list) : list[i] = e}
           First(i) == list[i] = e /\ \A k \in 1..(i - 1) : list[k] # e
<1>1. CASE I = {}
  BY <1>1 DEF LRem
<1>2. CASE I # {}
  <2>1. I \subseteq Nat
    BY LenProperties
  <2>2. PICK k \in I : \A i \in I : k <= i
    <3> HIDE DEF I
    <3> QED  BY <1>2, <2>1, LeastExists, Zenon
  <2>3. \E i \in 1..Len(list) : First(i)
    BY <2>2, LenProperties
  <2>4. PICK f \in 1..Len(list) : f = CHOOSE i \in 1..Len(list) : First(i)
    BY <2>3
  <2>5. First(f)
    BY <2>3, <2>4
  <2>6. LRem(list, e) = RemoveAt(list, f)
    BY <1>2, <2>4 DEF LRem
  <2> QED  BY <2>5, <2>6
<1> QED  BY <1>1, <1>2

LEMMA RemoveAtType ==
  ASSUME NEW S, NEW list \in Seq(S), NEW k \in 1..Len(list)
  PROVE  RemoveAt(list, k) \in Seq(S)
<1>1. SubSeq(list, 1, k - 1) \in Seq(S) /\ SubSeq(list, k + 1, Len(list)) \in Seq(S)
  BY SubSeqProperties, ElementOfSeq, LenProperties
<1> QED  BY <1>1, ConcatProperties DEF RemoveAt

\* The list operations stay within the sequences over a set.
LEMMA LRemType ==
  ASSUME NEW S, NEW list \in Seq(S), NEW e
  PROVE  LRem(list, e) \in Seq(S)
BY LRemRemovesOne, RemoveAtType

LEMMA LPushType ==
  ASSUME NEW S, NEW list \in Seq(S), NEW e \in S
  PROVE  LPush(list, e) \in Seq(S)
BY ConcatProperties DEF LPush

LEMMA LastFrontType ==
  ASSUME NEW S, NEW list \in Seq(S), list # <<>>
  PROVE  /\ Last(list) \in S
         /\ Front(list) \in Seq(S)
<1>1. Len(list) \in 1..Len(list)
  BY EmptySeq, LenProperties
<1> QED  BY <1>1, SubSeqProperties, ElementOfSeq, LenProperties DEF Last, Front

LEMMA HeadTailType ==
  ASSUME NEW S, NEW list \in Seq(S), list # <<>>
  PROVE  /\ Head(list) \in S
         /\ Tail(list) \in Seq(S)
BY HeadTailProperties

(***************************************************************************)
(* What a step may make of a table or a queue is a table or a queue again. *)
(***************************************************************************)
LEMMA StatusTableUpdate ==
  ASSUME NEW f \in StatusTable, NEW j \in Jobs, NEW s \in RowStates
  PROVE  [f EXCEPT ![j] = s] \in StatusTable
BY DEF StatusTable

LEMMA RetryTableUpdate ==
  ASSUME NEW f \in RetryTable, NEW j \in Jobs, NEW n \in 0..MaxRetry
  PROVE  [f EXCEPT ![j] = n] \in RetryTable
BY DEF RetryTable

LEMMA ResultTableUpdate ==
  ASSUME NEW f \in ResultTable, NEW j \in Jobs,
         NEW output \in {"sandbox", "empty"}, NEW category \in Categories
  PROVE  [f EXCEPT ![j] = [output |-> output, category |-> category]] \in ResultTable
BY DEF ResultTable, ResultRow

LEMMA QueueUpdate ==
  ASSUME NEW q \in Queue, NEW e \in QueuePayload
  PROVE  LPush(q, e) \in Queue
BY LPushType DEF Queue

LEMMA QueuesUpdate ==
  ASSUME NEW f \in Queues, NEW w \in Workers, NEW e
  PROVE  /\ [f EXCEPT ![w] = LRem(f[w], e)] \in Queues
         /\ [f EXCEPT ![w] = <<>>] \in Queues
         /\ e \in QueuePayload => [f EXCEPT ![w] = LPush(f[w], e)] \in Queues
<1>1. f[w] \in Queue
  BY DEF Queues
<1>2. LRem(f[w], e) \in Queue /\ <<>> \in Queue
  BY <1>1, LRemType DEF Queue
<1>3. e \in QueuePayload => LPush(f[w], e) \in Queue
  BY <1>1, LPushType DEF Queue
<1> QED  BY <1>2, <1>3 DEF Queues

(***************************************************************************)
(* Facts about the vocabulary.                                             *)
(***************************************************************************)
LEMMA StatusFacts ==
  /\ "PENDING" \in RowStates /\ "RUNNING" \in RowStates /\ "FAILED" \in RowStates
  /\ \A v \in Verdicts : FinalStatus(v) \in RowStates /\ v \in Categories
  /\ "UNKNOWN" \in Categories /\ "WORKER_CRASH" \in Categories
BY DEF RowStates, Statuses, Categories, Verdicts, FinalStatus

\* No entry is NoJob: a payload names a job, NoJob does not.
LEMMA NoJobIsNoPayload == NoJob \notin QueuePayload
BY StoreAssumption DEF NoJob, QueuePayload

LEMMA RetryStaysPayload ==
  ASSUME NEW e \in QueuePayload, ~Exhausted(e)
  PROVE  /\ Entry(e.job, e.retry + 1) \in QueuePayload
         /\ e.retry + 1 \in 0..MaxRetry
BY MaxRetryAssumption DEF QueuePayload, Entry, Exhausted

(***************************************************************************)
(* Types are kept by each component. The gateway first.                    *)
(***************************************************************************)
\* A step spends a disruption or none.
LEMMA DisruptionsStayTyped ==
  ASSUME disruptionsLeft \in 0..MaxDisruptions,
         Undisturbed \/ \E kind \in DisruptionKinds : Disrupted(kind)
  PROVE  disruptionsLeft' \in 0..MaxDisruptions
BY StoreAssumption DEF Undisturbed, Disrupted

LEMMA GatewayKeepsTypes ==
  ASSUME StoreTypeOK, GatewayTypeOK, GatewayNext
  PROVE  StoreTypeOK' /\ GatewayTypeOK'
<1>0. disruptionsLeft' \in 0..MaxDisruptions
  <2>1. Undisturbed \/ \E kind \in DisruptionKinds : Disrupted(kind)
    BY DEF GatewayNext, Request, GatewayCrash, Submit, Enqueue, ReadDepth, MarkFailed,
           RecordFailure, Call, DisruptionKinds
  <2> QED  BY <2>1, DisruptionsStayTyped DEF StoreTypeOK
<1> USE DEF StoreTypeOK, Call, storeVars, dbVars, rowVars, redisVars, queueVars
<1>1. GatewayTypeOK'
  BY DEF GatewayTypeOK, GatewayNext, Request, GatewayCrash, Submit, Enqueue, ReadDepth,
         MarkFailed, RecordFailure, PostStates, InFlight, Advance
<1>2. CASE GatewayCrash
  BY <1>0, <1>1, <1>2 DEF GatewayCrash
<1>3. ASSUME NEW j \in Jobs, Submit(j)
      PROVE  StoreTypeOK'
  <2>1. 1 + Cardinality(Jobs \ Rows("ABSENT")) \in Nat
    <3>1. IsFiniteSet(Jobs)
      BY StoreAssumption
    <3>2. IsFiniteSet(Jobs \ Rows("ABSENT"))
      BY <3>1, FS_Difference
    <3> QED  BY <3>2, FS_CardinalityType
  <2> HIDE DEF Rows
  <2> DEFINE rank == 1 + Cardinality(Jobs \ Rows("ABSENT"))
  <2> HIDE DEF rank
  <2>2. rank \in Nat
    BY <2>1 DEF rank
  <2>3. [createdAt EXCEPT ![j] = rank] \in [Jobs -> Nat]
    BY <2>2
  <2> QED  BY <1>0, <1>3, <2>3, StatusTableUpdate, StatusFacts
           DEF Submit, InsertRow, SetStatus, rank
<1>4. ASSUME NEW j \in Jobs, Enqueue(j)
      PROVE  StoreTypeOK'
  <2>1. Entry(j, 0) \in QueuePayload
    BY MaxRetryAssumption DEF Entry, QueuePayload
  <2> QED  BY <1>0, <1>4, <2>1, QueueUpdate DEF Enqueue, EnqueuePending
<1>5. ASSUME NEW j \in Jobs, ReadDepth(j)
      PROVE  StoreTypeOK'
  BY <1>0, <1>5 DEF ReadDepth
<1>6. ASSUME NEW j \in Jobs, MarkFailed(j)
      PROVE  StoreTypeOK'
  BY <1>0, <1>6, StatusTableUpdate, StatusFacts DEF MarkFailed, SetStatus
<1>7. ASSUME NEW j \in Jobs, RecordFailure(j)
      PROVE  StoreTypeOK'
  <2> DEFINE output == IF results[j] = NoResult THEN "empty" ELSE results[j].output
  <2>1. output \in {"sandbox", "empty"}
    BY DEF ResultTable, ResultRow
  <2>2. results' = results \/ UpsertResult(j, output, "UNKNOWN")
    BY <1>7 DEF RecordFailure
  <2> HIDE DEF output
  <2>3. results' \in ResultTable
    BY <2>1, <2>2, ResultTableUpdate, StatusFacts DEF UpsertResult
  <2> QED  BY <1>0, <1>7, <2>3 DEF RecordFailure
<1> QED  BY <1>1, <1>2, <1>3, <1>4, <1>5, <1>6, <1>7 DEF GatewayNext, Request

(***************************************************************************)
(* The worker: how it moves on, then what each of its steps writes.        *)
(***************************************************************************)
ContainerType == [Jobs -> Workers \union {Nobody}]

LEMMA ProceedKeepsTypes ==
  ASSUME WorkerTypeOK, NEW w \in Workers, NEW point \in Busy,
         workerAt[w] \in Busy,
         point \in {"push_retry", "remove_old"} => ~Exhausted(current[w]),
         Proceed(w, point), UNCHANGED shouldRun, container' \in ContainerType
  PROVE  WorkerTypeOK'
<1>1. workerAt' \in [Workers -> {"pop"} \union Busy \union Inert]
  BY DEF WorkerTypeOK, Proceed, Goto
<1>2. \A v \in Workers : workerAt'[v] = IF v = w THEN point ELSE workerAt[v]
  BY DEF WorkerTypeOK, Proceed, Goto
<1>3. current' = current /\ verdict' = verdict
  BY DEF Proceed
<1>4. \A v \in Workers : workerAt'[v] \in Busy <=> current'[v] # NoJob
  BY <1>2, <1>3 DEF WorkerTypeOK
<1>5. \A v \in Workers : workerAt'[v] \in {"push_retry", "remove_old"} => ~Exhausted(current'[v])
  BY <1>2, <1>3 DEF WorkerTypeOK
<1> QED  BY <1>1, <1>3, <1>4, <1>5 DEF WorkerTypeOK, ContainerType, Exhausted

\* A worker that drops its entry: at the end of an iteration, or in a crash.
LEMMA DropKeepsTypes ==
  ASSUME WorkerTypeOK, NEW w \in Workers, NEW point \in {"pop"} \union Inert,
         Goto(w, point), current' = [current EXCEPT ![w] = NoJob],
         verdict' = [verdict EXCEPT ![w] = "NONE"],
         UNCHANGED shouldRun, container' \in ContainerType
  PROVE  WorkerTypeOK'
<1>1. point \notin Busy
  BY DEF Busy, Inert, Sandboxed, Requeuing
<1>2. \A v \in Workers : workerAt'[v] = IF v = w THEN point ELSE workerAt[v]
  BY DEF WorkerTypeOK, Goto
<1>3. \A v \in Workers : current'[v] = IF v = w THEN NoJob ELSE current[v]
  BY DEF WorkerTypeOK
<1>4. workerAt' \in [Workers -> {"pop"} \union Busy \union Inert]
  BY DEF WorkerTypeOK, Goto
<1>5. current' \in [Workers -> QueuePayload \union {NoJob}] /\ verdict' \in [Workers -> Verdicts]
  BY DEF WorkerTypeOK, Verdicts
<1>6. \A v \in Workers : workerAt'[v] \in Busy <=> current'[v] # NoJob
  BY <1>1, <1>2, <1>3 DEF WorkerTypeOK
<1>7. \A v \in Workers : workerAt'[v] \in {"push_retry", "remove_old"} => ~Exhausted(current'[v])
  <2>1. {"push_retry", "remove_old"} \subseteq Busy
    BY DEF Busy, Requeuing
  <2> QED  BY <1>1, <1>2, <1>3, <2>1 DEF WorkerTypeOK
<1> QED  BY <1>4, <1>5, <1>6, <1>7 DEF WorkerTypeOK, ContainerType, Exhausted

LEMMA NextIterationKeepsTypes ==
  ASSUME WorkerTypeOK, NEW w \in Workers, NextIteration(w),
         UNCHANGED shouldRun, container' \in ContainerType
  PROVE  WorkerTypeOK'
BY DropKeepsTypes DEF NextIteration, Inert

\* What a worker holds while it is busy is an entry.
LEMMA BusyHolds ==
  ASSUME WorkerTypeOK, NEW w \in Workers, workerAt[w] \in Busy
  PROVE  current[w] \in QueuePayload /\ CurrentJob(w) \in Jobs
BY DEF WorkerTypeOK, CurrentJob, QueuePayload

LEMMA BusyPoints ==
  /\ {"claim", "check", "give_back", "discard", "acknowledge", "publish", "requeue",
      "push_retry", "remove_old", "dlq_persist", "dlq_push", "dlq_publish",
      "remove_stale", "start_container", "running", "persist"} \subseteq Busy
  /\ "pop" \notin Busy /\ \A p \in Inert : p \notin Busy
BY DEF Busy, Sandboxed, Requeuing, Inert

LEMMA RemoveRawTyped ==
  ASSUME processing \in Queues, NEW w \in Workers, RemoveRaw(w)
  PROVE  processing' \in Queues
<1>1. processing' = [processing EXCEPT ![w] = LRem(processing[w], current[w])]
  BY DEF RemoveRaw
<1> QED  BY <1>1, QueuesUpdate

LEMMA WorkerDisruptionsTyped ==
  ASSUME StoreTypeOK, WorkerNext
  PROVE  disruptionsLeft' \in 0..MaxDisruptions
<1>1. Undisturbed \/ \E kind \in DisruptionKinds : Disrupted(kind)
  BY DEF WorkerNext, Live, Loop, Take, RunJob, Conclude, PutBack, GiveUp, StartWorker,
         SendHeartbeat, HeartbeatExpires, Sigterm, WorkerCrash, Pop, PopTimesOut, Claim, Check,
         GiveBack, Discard, RemoveStaleContainer, StartContainer, ContainerExits, OrphanExits,
         Persist, Acknowledge, PublishCompletion, Requeue, PushRetry, RemoveOld,
         RemoveExhausted, DlqPersist, DlqPush, DlqPublish, Call, DisruptionKinds
<1> QED  BY <1>1, DisruptionsStayTyped DEF StoreTypeOK

\* The life of the process.
LEMMA LiveKeepsTypes ==
  ASSUME StoreTypeOK, WorkerTypeOK, NEW w \in Workers, StartWorker(w) \/ Live(w),
         disruptionsLeft' \in 0..MaxDisruptions
  PROVE  StoreTypeOK' /\ WorkerTypeOK'
<1> USE DEF storeVars, dbVars, rowVars, redisVars, queueVars, workerVars
<1>0. container \in ContainerType
  BY DEF WorkerTypeOK, ContainerType
<1>1. CASE StartWorker(w)
  <2>1. StoreTypeOK'
    BY <1>1 DEF StartWorker, Call, KeepsWorld, KeepsQueues, StoreTypeOK
  <2>2. \A v \in Workers : workerAt'[v] = IF v = w THEN "pop" ELSE workerAt[v]
    BY <1>1 DEF StartWorker, Proceed, Goto, WorkerTypeOK
  <2>3. /\ workerAt' \in [Workers -> {"pop"} \union Busy \union Inert]
        /\ workerAt[w] \notin Busy
        /\ UNCHANGED <<current, verdict, shouldRun, container>>
    BY <1>1, BusyPoints DEF StartWorker, Proceed, Goto, KeepsWorld, WorkerTypeOK, Inert
  <2>4. \A v \in Workers : workerAt'[v] \in Busy <=> current'[v] # NoJob
    BY <2>2, <2>3, BusyPoints DEF WorkerTypeOK
  <2>5. \A v \in Workers :
          workerAt'[v] \in {"push_retry", "remove_old"} => ~Exhausted(current'[v])
    BY <2>2, <2>3 DEF WorkerTypeOK
  <2> QED  BY <2>1, <2>3, <2>4, <2>5 DEF WorkerTypeOK, Exhausted
<1>2. CASE SendHeartbeat(w)
  BY <1>2 DEF SendHeartbeat, StoreTypeOK, WorkerTypeOK, Exhausted
<1>3. CASE HeartbeatExpires(w)
  BY <1>3 DEF HeartbeatExpires, StoreTypeOK, WorkerTypeOK, Exhausted
<1>4. CASE Sigterm(w)
  BY <1>4 DEF Sigterm, StoreTypeOK, WorkerTypeOK, Exhausted
<1>5. CASE WorkerCrash(w)
  <2>1. StoreTypeOK'
    BY <1>5 DEF WorkerCrash, StoreTypeOK
  <2>2. WorkerTypeOK'
    BY <1>0, <1>5, DropKeepsTypes DEF WorkerCrash, Inert
  <2> QED  BY <2>1, <2>2
<1> QED  BY <1>1, <1>2, <1>3, <1>4, <1>5 DEF Live

\* Taking an entry and claiming its job.
LEMMA TakeKeepsTypes ==
  ASSUME StoreTypeOK, WorkerTypeOK, NEW w \in Workers, Take(w),
         disruptionsLeft' \in 0..MaxDisruptions
  PROVE  StoreTypeOK' /\ WorkerTypeOK'
<1> USE DEF storeVars, dbVars, rowVars, redisVars, queueVars, Call
<1> USE DEF RedisOnly, DbOnly, KeepsWorld, KeepsQueues, KeepsSignals
<1>0. container \in ContainerType
  BY DEF WorkerTypeOK, ContainerType
<1>1. CASE Pop(w)
  <2> DEFINE e == Last(pending)
  <2>1. e \in QueuePayload /\ Front(pending) \in Queue
    BY <1>1, LastFrontType DEF Pop, StoreTypeOK, Queue
  <2>2. StoreTypeOK'
    BY <1>1, <2>1, QueuesUpdate DEF Pop, MoveOldest, StoreTypeOK
  <2>3. CASE NextIteration(w)
    BY <1>0, <1>1, <2>2, <2>3, NextIterationKeepsTypes DEF Pop
  <2>4. CASE Goto(w, "claim") /\ current' = [current EXCEPT ![w] = e] /\ UNCHANGED verdict
    <3> HIDE DEF e
    <3>1. workerAt' \in [Workers -> {"pop"} \union Busy \union Inert]
      BY <2>4, BusyPoints DEF Goto, WorkerTypeOK
    <3>2. current' \in [Workers -> QueuePayload \union {NoJob}]
      BY <2>1, <2>4 DEF WorkerTypeOK
    <3>3. e # NoJob
      BY <2>1, NoJobIsNoPayload
    <3>4. \A v \in Workers : workerAt'[v] \in Busy <=> current'[v] # NoJob
      BY <2>4, <3>3, BusyPoints DEF Goto, WorkerTypeOK
    <3>5. \A v \in Workers :
            workerAt'[v] \in {"push_retry", "remove_old"} => ~Exhausted(current'[v])
      BY <2>4 DEF Goto, WorkerTypeOK
    <3> QED  BY <1>1, <2>2, <2>4, <3>1, <3>2, <3>4, <3>5 DEF Pop, WorkerTypeOK, Exhausted
  <2> QED  BY <1>1, <2>2, <2>3, <2>4 DEF Pop
<1>2. CASE PopTimesOut(w)
  BY <1>0, <1>2, NextIterationKeepsTypes DEF PopTimesOut, StoreTypeOK
<1>3. CASE Claim(w)
  <2>1. StoreTypeOK'
    BY <1>3, BusyHolds, BusyPoints, StatusTableUpdate, StatusFacts DEF Claim, StoreTypeOK
  <2>2. WorkerTypeOK'
    BY <1>0, <1>3, ProceedKeepsTypes, BusyPoints DEF Claim
  <2> QED  BY <2>1, <2>2
<1>4. CASE Check(w)
  <2>1. StoreTypeOK'
    BY <1>4 DEF Check, StoreTypeOK
  <2>2. WorkerTypeOK'
    BY <1>0, <1>4, ProceedKeepsTypes, BusyPoints DEF Check
  <2> QED  BY <2>1, <2>2
<1>5. CASE GiveBack(w)
  <2>1. StoreTypeOK'
    BY <1>5, BusyHolds, BusyPoints, QueueUpdate DEF GiveBack, EnqueuePending, StoreTypeOK
  <2>2. WorkerTypeOK'
    BY <1>0, <1>5, ProceedKeepsTypes, BusyPoints DEF GiveBack
  <2> QED  BY <2>1, <2>2
<1>6. CASE Discard(w)
  <2>1. StoreTypeOK'
    BY <1>6, RemoveRawTyped DEF Discard, StoreTypeOK
  <2>2. WorkerTypeOK'
    BY <1>0, <1>6, ProceedKeepsTypes, NextIterationKeepsTypes, BusyPoints DEF Discard
  <2> QED  BY <2>1, <2>2
<1> QED  BY <1>1, <1>2, <1>3, <1>4, <1>5, <1>6 DEF Take

\* The sandbox.
LEMMA RunJobKeepsTypes ==
  ASSUME StoreTypeOK, WorkerTypeOK, NEW w \in Workers, RunJob(w),
         disruptionsLeft' \in 0..MaxDisruptions
  PROVE  StoreTypeOK' /\ WorkerTypeOK'
<1> USE DEF storeVars, dbVars, rowVars, redisVars, queueVars, SandboxOnly
<1>0. container \in ContainerType
  BY DEF WorkerTypeOK, ContainerType
<1>1. StoreTypeOK'
  BY DEF RunJob, RemoveStaleContainer, StartContainer, ContainerExits, StoreTypeOK
<1>2. CASE RemoveStaleContainer(w)
  <2>1. container' \in ContainerType
    BY <1>0, <1>2 DEF RemoveStaleContainer, ContainerType
  <2> QED  BY <1>1, <1>2, <2>1, ProceedKeepsTypes, BusyPoints DEF RemoveStaleContainer
<1>3. ASSUME NEW v \in Verdicts, Goto(w, "persist"), verdict' = [verdict EXCEPT ![w] = v],
             workerAt[w] \in Busy, UNCHANGED <<shouldRun, current>>,
             container' \in ContainerType
      PROVE  WorkerTypeOK'
  <2>1. workerAt' \in [Workers -> {"pop"} \union Busy \union Inert]
    BY <1>3, BusyPoints DEF Goto, WorkerTypeOK
  <2>2. \A u \in Workers : workerAt'[u] \in Busy <=> current'[u] # NoJob
    BY <1>3, BusyPoints DEF Goto, WorkerTypeOK
  <2>3. \A u \in Workers :
          workerAt'[u] \in {"push_retry", "remove_old"} => ~Exhausted(current'[u])
    BY <1>3 DEF Goto, WorkerTypeOK
  <2> QED  BY <1>3, <2>1, <2>2, <2>3 DEF WorkerTypeOK, ContainerType, Exhausted
<1>4. CASE StartContainer(w)
  <2>1. container' \in ContainerType
    BY <1>0, <1>4 DEF StartContainer, ContainerType
  <2>2. "RUNTIME_ERROR" \in Verdicts
    BY DEF Verdicts
  <2> QED  BY <1>1, <1>3, <1>4, <2>1, <2>2, ProceedKeepsTypes, BusyPoints DEF StartContainer
<1>5. CASE ContainerExits(w)
  <2>1. container' \in ContainerType
    BY <1>0, <1>5 DEF ContainerExits, ContainerType
  <2>2. PICK v \in Verdicts : verdict' = [verdict EXCEPT ![w] = v]
    BY <1>5 DEF ContainerExits, Verdicts
  <2> QED  BY <1>1, <1>3, <1>5, <2>1, <2>2, BusyPoints DEF ContainerExits
<1> QED  BY <1>2, <1>4, <1>5, <1>1 DEF RunJob

LEMMA OrphanExitsKeepsTypes ==
  ASSUME StoreTypeOK, WorkerTypeOK, NEW j \in Jobs, OrphanExits(j)
  PROVE  StoreTypeOK' /\ WorkerTypeOK'
BY DEF OrphanExits, SandboxOnly, Undisturbed, storeVars, dbVars, rowVars, redisVars, queueVars,
       StoreTypeOK, WorkerTypeOK, Exhausted

\* The result, the acknowledgement and the completion marker.
LEMMA ConcludeKeepsTypes ==
  ASSUME StoreTypeOK, WorkerTypeOK, NEW w \in Workers, Conclude(w),
         disruptionsLeft' \in 0..MaxDisruptions
  PROVE  StoreTypeOK' /\ WorkerTypeOK'
<1> USE DEF storeVars, dbVars, rowVars, redisVars, queueVars, Call
<1> USE DEF RedisOnly, DbOnly, PublishOnly, KeepsWorld, KeepsQueues, KeepsSignals
<1>0. container \in ContainerType
  BY DEF WorkerTypeOK, ContainerType
<1>1. workerAt[w] \in Busy
  BY BusyPoints DEF Conclude, Persist, Acknowledge, PublishCompletion
<1>2. WorkerTypeOK'
  BY <1>0, <1>1, ProceedKeepsTypes, NextIterationKeepsTypes, BusyPoints
     DEF Conclude, Persist, Acknowledge, PublishCompletion
<1>3. CASE Persist(w)
  <2>1. verdict[w] \in Verdicts
    BY DEF WorkerTypeOK
  <2>2. CurrentJob(w) \in Jobs
    BY <1>1, BusyHolds
  <2>3. results' \in ResultTable
    BY <1>3, <2>1, <2>2, ResultTableUpdate, StatusFacts DEF Persist, UpsertResult, StoreTypeOK
  <2>4. status' \in StatusTable
    BY <1>3, <2>1, <2>2, StatusTableUpdate, StatusFacts DEF Persist, SetStatus, StoreTypeOK
  <2> QED  BY <1>2, <1>3, <2>3, <2>4 DEF Persist, StoreTypeOK
<1>4. CASE Acknowledge(w)
  BY <1>2, <1>4, RemoveRawTyped DEF Acknowledge, StoreTypeOK
<1>5. CASE PublishCompletion(w)
  BY <1>2, <1>5 DEF PublishCompletion, PublishSystemChunk, StoreTypeOK
<1> QED  BY <1>3, <1>4, <1>5 DEF Conclude

\* requeueWithBackoff, with a retry left and with none.
LEMMA PutBackKeepsTypes ==
  ASSUME StoreTypeOK, WorkerTypeOK, NEW w \in Workers, PutBack(w),
         disruptionsLeft' \in 0..MaxDisruptions
  PROVE  StoreTypeOK' /\ WorkerTypeOK'
<1> USE DEF storeVars, dbVars, rowVars, redisVars, queueVars, Call
<1> USE DEF RedisOnly, DbOnly, KeepsWorld, KeepsQueues, KeepsSignals
<1>0. container \in ContainerType
  BY DEF WorkerTypeOK, ContainerType
<1>1. workerAt[w] \in Busy /\ ~Exhausted(current[w])
  BY BusyPoints DEF PutBack, Requeue, PushRetry, RemoveOld, WorkerTypeOK
<1>2. WorkerTypeOK'
  BY <1>0, <1>1, ProceedKeepsTypes, NextIterationKeepsTypes, BusyPoints
     DEF PutBack, Requeue, PushRetry, RemoveOld
<1>3. /\ Entry(CurrentJob(w), current[w].retry + 1) \in QueuePayload
      /\ current[w].retry + 1 \in 0..MaxRetry
      /\ CurrentJob(w) \in Jobs
  BY <1>1, BusyHolds, RetryStaysPayload DEF CurrentJob
<1>4. CASE Requeue(w)
  <2>1. status' \in StatusTable
    BY <1>3, <1>4, StatusTableUpdate, StatusFacts
       DEF Requeue, MarkForRetry, SetStatus, StoreTypeOK
  <2>2. retryCount' \in RetryTable
    BY <1>3, <1>4, RetryTableUpdate DEF Requeue, MarkForRetry, StoreTypeOK
  <2> QED  BY <1>2, <1>4, <2>1, <2>2 DEF Requeue, StoreTypeOK
<1>5. CASE PushRetry(w)
  BY <1>2, <1>3, <1>5, QueueUpdate DEF PushRetry, EnqueuePending, StoreTypeOK
<1>6. CASE RemoveOld(w)
  BY <1>2, <1>6, RemoveRawTyped DEF RemoveOld, StoreTypeOK
<1> QED  BY <1>4, <1>5, <1>6 DEF PutBack

LEMMA DeadLetterTyped ==
  ASSUME StoreTypeOK, NEW j \in Jobs, DeadLetterInDb(j)
  PROVE  status' \in StatusTable /\ results' \in ResultTable
BY StatusTableUpdate, ResultTableUpdate, StatusFacts
   DEF DeadLetterInDb, SetStatus, UpsertResult, StoreTypeOK

LEMMA GiveUpKeepsTypes ==
  ASSUME StoreTypeOK, WorkerTypeOK, NEW w \in Workers, GiveUp(w),
         disruptionsLeft' \in 0..MaxDisruptions
  PROVE  StoreTypeOK' /\ WorkerTypeOK'
<1> USE DEF storeVars, dbVars, rowVars, redisVars, queueVars, Call
<1> USE DEF RedisOnly, DbOnly, PublishOnly, KeepsWorld, KeepsQueues, KeepsSignals
<1>0. container \in ContainerType
  BY DEF WorkerTypeOK, ContainerType
<1>1. workerAt[w] \in Busy
  BY BusyPoints DEF GiveUp, RemoveExhausted, DlqPersist, DlqPush, DlqPublish
<1>2. WorkerTypeOK'
  BY <1>0, <1>1, ProceedKeepsTypes, NextIterationKeepsTypes, BusyPoints
     DEF GiveUp, RemoveExhausted, DlqPersist, DlqPush, DlqPublish
<1>3. current[w] \in QueuePayload /\ CurrentJob(w) \in Jobs
  BY <1>1, BusyHolds
<1>4. CASE RemoveExhausted(w)
  BY <1>2, <1>4, RemoveRawTyped DEF RemoveExhausted, StoreTypeOK
<1>5. CASE DlqPersist(w)
  BY <1>2, <1>3, <1>5, DeadLetterTyped DEF DlqPersist, StoreTypeOK
<1>6. CASE DlqPush(w)
  BY <1>2, <1>3, <1>6, QueueUpdate DEF DlqPush, StoreTypeOK
<1>7. CASE DlqPublish(w)
  BY <1>2, <1>7 DEF DlqPublish, PublishSystemChunk, StoreTypeOK
<1> QED  BY <1>4, <1>5, <1>6, <1>7 DEF GiveUp

LEMMA WorkerKeepsTypes ==
  ASSUME StoreTypeOK, WorkerTypeOK, WorkerNext
  PROVE  StoreTypeOK' /\ WorkerTypeOK'
BY WorkerDisruptionsTyped, LiveKeepsTypes, TakeKeepsTypes, RunJobKeepsTypes, ConcludeKeepsTypes,
   PutBackKeepsTypes, GiveUpKeepsTypes, OrphanExitsKeepsTypes
   DEF WorkerNext, Loop

(***************************************************************************)
(* The monitor, in the same way.                                           *)
(***************************************************************************)
NeedsOrphan == RecoverSteps \ {"delete_queue"}
RetryPoints == {"mark_pending", "push_recovered"}

LEMMA MonitorPoints ==
  /\ RecoverSteps \subseteq MonitorSteps /\ StartupSteps \subseteq MonitorSteps
  /\ ScanSteps \subseteq MonitorSteps
  /\ NeedsOrphan \subseteq RecoverSteps
  /\ RetryPoints \subseteq NeedsOrphan
  /\ {"down", "asleep"} \subseteq MonitorSteps
  /\ {"read_status", "mark_pending", "push_recovered", "dlq_persist", "dlq_push"}
       \subseteq NeedsOrphan
  /\ "delete_queue" \in RecoverSteps /\ "delete_queue" \notin NeedsOrphan
  /\ {"scan_queues", "scan_heartbeats", "pick_worker", "release"} \subseteq ScanSteps
  /\ \A p \in {"down", "asleep", "scan_queues", "scan_heartbeats", "pick_worker", "release"}
                 \union StartupSteps : p \notin RecoverSteps
BY DEF RecoverSteps, ScanSteps, MonitorSteps, StartupSteps, NeedsOrphan, RetryPoints

\* The monitor's type invariant, read point by point.
LEMMA MonitorTypeAt ==
  MonitorTypeOK <=>
    /\ monitorAt \in [Monitors -> MonitorSteps]
    /\ rows \in [Monitors -> SUBSET QueuePayload]
    /\ suspects \in [Monitors -> SUBSET Workers]
    /\ target \in [Monitors -> Workers \union {Nobody}]
    /\ orphans \in [Monitors -> Seq(QueuePayload)]
    /\ \A m \in Monitors :
         /\ monitorAt[m] \in RecoverSteps => target[m] # Nobody
         /\ monitorAt[m] \in NeedsOrphan => orphans[m] # <<>>
         /\ monitorAt[m] \in RetryPoints => ~Exhausted(Head(orphans[m]))
BY DEF MonitorTypeOK, NeedsOrphan, RetryPoints, Recovering

\* One monitor moves, and what it holds at its new point is in order.
LEMMA MonitorMoves ==
  ASSUME MonitorTypeOK, NEW m \in Monitors, NEW point \in MonitorSteps,
         NEW rs \in SUBSET QueuePayload, NEW ss \in SUBSET Workers,
         NEW t \in Workers \union {Nobody}, NEW os \in Seq(QueuePayload),
         MonitorGoto(m, point),
         rows' = [rows EXCEPT ![m] = rs],
         suspects' = [suspects EXCEPT ![m] = ss],
         target' = [target EXCEPT ![m] = t],
         orphans' = [orphans EXCEPT ![m] = os],
         point \in RecoverSteps => t # Nobody,
         point \in NeedsOrphan => os # <<>>,
         point \in RetryPoints => ~Exhausted(Head(os))
  PROVE  MonitorTypeOK'
<1>1. \A n \in Monitors :
        /\ monitorAt'[n] = IF n = m THEN point ELSE monitorAt[n]
        /\ target'[n] = IF n = m THEN t ELSE target[n]
        /\ orphans'[n] = IF n = m THEN os ELSE orphans[n]
  BY MonitorTypeAt DEF MonitorGoto
<1>2. /\ monitorAt' \in [Monitors -> MonitorSteps]
      /\ rows' \in [Monitors -> SUBSET QueuePayload]
      /\ suspects' \in [Monitors -> SUBSET Workers]
      /\ target' \in [Monitors -> Workers \union {Nobody}]
      /\ orphans' \in [Monitors -> Seq(QueuePayload)]
  BY MonitorTypeAt DEF MonitorGoto
<1>3. \A n \in Monitors :
        /\ monitorAt'[n] \in RecoverSteps => target'[n] # Nobody
        /\ monitorAt'[n] \in NeedsOrphan => orphans'[n] # <<>>
        /\ monitorAt'[n] \in RetryPoints => ~Exhausted(Head(orphans'[n]))
  BY <1>1, MonitorTypeAt
<1> QED  BY <1>2, <1>3 DEF MonitorTypeOK, NeedsOrphan, RetryPoints, Recovering, Exhausted

LEMMA MonitorProceedsTyped ==
  ASSUME MonitorTypeOK, NEW m \in Monitors, NEW point \in MonitorSteps,
         MonitorProceeds(m, point),
         point \in RecoverSteps => target[m] # Nobody,
         point \in NeedsOrphan => orphans[m] # <<>>,
         point \in RetryPoints => ~Exhausted(Head(orphans[m]))
  PROVE  MonitorTypeOK'
<1>1. /\ rows' = [rows EXCEPT ![m] = rows[m]]
      /\ suspects' = [suspects EXCEPT ![m] = suspects[m]]
      /\ target' = [target EXCEPT ![m] = target[m]]
      /\ orphans' = [orphans EXCEPT ![m] = orphans[m]]
  BY MonitorTypeAt DEF MonitorProceeds, scanVars
<1>2. /\ rows[m] \in SUBSET QueuePayload /\ suspects[m] \in SUBSET Workers
      /\ target[m] \in Workers \union {Nobody} /\ orphans[m] \in Seq(QueuePayload)
  BY MonitorTypeAt
<1>3. MonitorGoto(m, point)
  BY DEF MonitorProceeds
<1> QED  BY <1>1, <1>2, <1>3, MonitorMoves

LEMMA ExitsTyped ==
  ASSUME MonitorTypeOK, NEW m \in Monitors, Exits(m)
  PROVE  MonitorTypeOK'
<1>1. <<>> \in Seq(QueuePayload)
  BY EmptySeq
<1>2. "down" \in MonitorSteps /\ "down" \notin RecoverSteps /\ "down" \notin NeedsOrphan
      /\ "down" \notin RetryPoints
  BY MonitorPoints
<1> QED  BY <1>1, <1>2, MonitorMoves DEF Exits

LEMMA NextOrphanTyped ==
  ASSUME MonitorTypeOK, NEW m \in Monitors, monitorAt[m] \in NeedsOrphan, NextOrphan(m)
  PROVE  MonitorTypeOK'
<1> DEFINE os == Tail(orphans[m])
           point == IF os = <<>> THEN "delete_queue" ELSE "read_status"
<1>1. os \in Seq(QueuePayload)
  BY MonitorTypeAt, HeadTailType
<1>2. /\ rows' = [rows EXCEPT ![m] = rows[m]]
      /\ suspects' = [suspects EXCEPT ![m] = suspects[m]]
      /\ target' = [target EXCEPT ![m] = target[m]]
      /\ orphans' = [orphans EXCEPT ![m] = os]
      /\ MonitorGoto(m, point)
  BY MonitorTypeAt DEF NextOrphan
<1>3. /\ rows[m] \in SUBSET QueuePayload /\ suspects[m] \in SUBSET Workers
      /\ target[m] \in Workers \union {Nobody} /\ target[m] # Nobody
  BY MonitorTypeAt, MonitorPoints
<1>4. point \in MonitorSteps /\ point \notin RetryPoints
  BY MonitorPoints DEF RetryPoints
<1>5. point \in NeedsOrphan => os # <<>>
  BY MonitorPoints
<1> HIDE DEF os, point
<1> QED  BY <1>1, <1>2, <1>3, <1>4, <1>5, MonitorMoves

LEMMA MonitorDisruptionsTyped ==
  ASSUME StoreTypeOK, MonitorNext
  PROVE  disruptionsLeft' \in 0..MaxDisruptions
<1>1. Undisturbed \/ \E kind \in DisruptionKinds : Disrupted(kind)
  BY DEF MonitorNext, Startup, Scan, Recover, StartMonitor, ResetRunning, MonitorReadDepth,
         SelectPending, Hydrate, AcquireLock, ScanQueues, ScanHeartbeats, PickWorker,
         ReleaseLock, ReadStatus, MarkPending, PushRecovered, MonitorDlqPersist,
         MonitorDlqPush, DeleteQueue, MonitorCrash, LockExpires, Call, DisruptionKinds
<1> QED  BY <1>1, DisruptionsStayTyped DEF StoreTypeOK

\* The steps of startup, and of a scan outside recovery.
LEMMA StartupKeepsTypes ==
  ASSUME StoreTypeOK, MonitorTypeOK, NEW m \in Monitors, Startup(m),
         disruptionsLeft' \in 0..MaxDisruptions
  PROVE  StoreTypeOK' /\ MonitorTypeOK'
<1> USE DEF storeVars, dbVars, rowVars, redisVars, queueVars, Call
<1>0. \A p \in {"down", "asleep"} \union StartupSteps :
        p \in MonitorSteps /\ p \notin RecoverSteps /\ p \notin NeedsOrphan /\ p \notin RetryPoints
  BY MonitorPoints
<1>1. {"reset_running", "read_depth", "select_pending", "hydrate"} = StartupSteps
  BY DEF StartupSteps
<1>2. CASE StartMonitor(m)
  <2>1. StoreTypeOK'
    BY <1>2 DEF StartMonitor, StoreTypeOK
  <2> QED  BY <1>0, <1>1, <1>2, <2>1, MonitorProceedsTyped DEF StartMonitor
<1>3. CASE ResetRunning(m)
  <2>1. status' \in StatusTable
    BY <1>3, StatusFacts DEF ResetRunning, StatusTable, StoreTypeOK
  <2>2. StoreTypeOK'
    BY <1>3, <2>1 DEF ResetRunning, StoreTypeOK
  <2> QED  BY <1>0, <1>1, <1>3, <2>2, MonitorProceedsTyped, ExitsTyped DEF ResetRunning
<1>4. CASE MonitorReadDepth(m)
  <2>1. StoreTypeOK'
    BY <1>4 DEF MonitorReadDepth, StoreTypeOK
  <2> QED  BY <1>0, <1>1, <1>4, <2>1, MonitorProceedsTyped, ExitsTyped DEF MonitorReadDepth
<1>5. CASE SelectPending(m)
  <2> DEFINE selected == {Entry(j, retryCount[j]) : j \in Rows("PENDING")}
             point == IF selected = {} THEN "asleep" ELSE "hydrate"
  <2>1. StoreTypeOK'
    BY <1>5 DEF SelectPending, StoreTypeOK
  <2>2. selected \in SUBSET QueuePayload
    BY DEF StoreTypeOK, RetryTable, Rows, Entry, QueuePayload
  <2>3. CASE Exits(m)
    BY <2>1, <2>3, ExitsTyped
  <2>4. CASE rows' = [rows EXCEPT ![m] = selected] /\ MonitorGoto(m, point) /\ UNCHANGED scanVars
    <3>1. /\ suspects' = [suspects EXCEPT ![m] = suspects[m]]
          /\ target' = [target EXCEPT ![m] = target[m]]
          /\ orphans' = [orphans EXCEPT ![m] = orphans[m]]
          /\ suspects[m] \in SUBSET Workers /\ target[m] \in Workers \union {Nobody}
          /\ orphans[m] \in Seq(QueuePayload)
      BY <2>4, MonitorTypeAt DEF scanVars
    <3>2. point \in {"down", "asleep"} \union StartupSteps
      BY <1>1
    <3> HIDE DEF selected, point
    <3> QED  BY <1>0, <2>1, <2>2, <2>4, <3>1, <3>2, MonitorMoves
  <2> QED  BY <1>5, <2>3, <2>4 DEF SelectPending
<1>6. CASE Hydrate(m)
  <2>1. PICK row \in rows[m] :
          Call("redis_error", EnqueuePending(row), UNCHANGED pending,
               /\ rows' = [rows EXCEPT ![m] = rows[m] \ {row}]
               /\ MonitorGoto(m, IF rows[m] \ {row} = {} THEN "asleep" ELSE "hydrate")
               /\ UNCHANGED scanVars,
               Exits(m))
    BY <1>6 DEF Hydrate
  <2>2. row \in QueuePayload /\ rows[m] \ {row} \in SUBSET QueuePayload
    BY MonitorTypeAt
  <2>3. StoreTypeOK'
    <3>1. pending' \in Queue
      BY <2>1, <2>2, QueueUpdate DEF EnqueuePending, StoreTypeOK
    <3> QED  BY <1>6, <3>1 DEF Hydrate, StoreTypeOK
  <2> DEFINE point == IF rows[m] \ {row} = {} THEN "asleep" ELSE "hydrate"
  <2>4. CASE Exits(m)
    BY <2>3, <2>4, ExitsTyped
  <2>5. CASE /\ rows' = [rows EXCEPT ![m] = rows[m] \ {row}] /\ MonitorGoto(m, point)
             /\ UNCHANGED scanVars
    <3>1. /\ suspects' = [suspects EXCEPT ![m] = suspects[m]]
          /\ target' = [target EXCEPT ![m] = target[m]]
          /\ orphans' = [orphans EXCEPT ![m] = orphans[m]]
          /\ suspects[m] \in SUBSET Workers /\ target[m] \in Workers \union {Nobody}
          /\ orphans[m] \in Seq(QueuePayload)
      BY <2>5, MonitorTypeAt DEF scanVars
    <3>2. point \in {"down", "asleep"} \union StartupSteps
      BY <1>1
    <3> HIDE DEF point
    <3> QED  BY <1>0, <2>2, <2>3, <2>5, <3>1, <3>2, MonitorMoves
  <2> QED  BY <2>1, <2>4, <2>5
<1> QED  BY <1>2, <1>3, <1>4, <1>5, <1>6 DEF Startup

LEMMA ScanKeepsTypes ==
  ASSUME StoreTypeOK, MonitorTypeOK, NEW m \in Monitors, Scan(m),
         disruptionsLeft' \in 0..MaxDisruptions
  PROVE  StoreTypeOK' /\ MonitorTypeOK'
<1> USE DEF storeVars, dbVars, rowVars, redisVars, queueVars, Call
<1>0. \A p \in {"down", "asleep", "scan_queues", "scan_heartbeats", "pick_worker", "release"} :
        p \in MonitorSteps /\ p \notin RecoverSteps /\ p \notin NeedsOrphan /\ p \notin RetryPoints
  BY MonitorPoints
<1>1. StoreTypeOK'
  BY DEF Scan, AcquireLock, ScanQueues, ScanHeartbeats, PickWorker, ReleaseLock, StoreTypeOK
<1>2. /\ rows[m] \in SUBSET QueuePayload /\ suspects[m] \in SUBSET Workers
      /\ target[m] \in Workers \union {Nobody} /\ orphans[m] \in Seq(QueuePayload)
      /\ rows = [rows EXCEPT ![m] = rows[m]] /\ target = [target EXCEPT ![m] = target[m]]
      /\ orphans = [orphans EXCEPT ![m] = orphans[m]]
  BY MonitorTypeAt
<1>3. CASE AcquireLock(m)
  BY <1>0, <1>1, <1>3, MonitorProceedsTyped, ExitsTyped DEF AcquireLock
<1>4. ScanFails(m) => MonitorTypeOK'
  BY <1>0, MonitorProceedsTyped DEF ScanFails
<1>5. CASE ScanQueues(m)
  <2> DEFINE found == {w \in Workers : processing[w] # <<>>}
  <2>1. ASSUME suspects' = [suspects EXCEPT ![m] = found], MonitorGoto(m, "scan_heartbeats"),
               UNCHANGED <<rows, target, orphans>>
        PROVE  MonitorTypeOK'
    <3>1. found \in SUBSET Workers
      OBVIOUS
    <3> HIDE DEF found
    <3> QED  BY <1>0, <1>2, <2>1, <3>1, MonitorMoves
  <2> QED  BY <1>1, <1>4, <1>5, <2>1 DEF ScanQueues
<1>6. CASE ScanHeartbeats(m)
  <2> DEFINE dead == DeadWorkers(m)
             point == IF dead = {} THEN "release" ELSE "pick_worker"
  <2>1. ASSUME suspects' = [suspects EXCEPT ![m] = dead], MonitorGoto(m, point),
               UNCHANGED <<rows, target, orphans>>
        PROVE  MonitorTypeOK'
    <3>1. dead \in SUBSET Workers
      BY <1>2 DEF DeadWorkers
    <3>2. point \in MonitorSteps /\ point \notin RecoverSteps /\ point \notin NeedsOrphan
          /\ point \notin RetryPoints
      BY <1>0
    <3> HIDE DEF dead, point
    <3> QED  BY <1>2, <2>1, <3>1, <3>2, MonitorMoves
  <2> QED  BY <1>1, <1>4, <1>6, <2>1 DEF ScanHeartbeats
<1>7. CASE PickWorker(m)
  <2>1. ASSUME NEW w \in suspects[m],
               suspects' = [suspects EXCEPT ![m] = suspects[m] \ {w}],
               target' = [target EXCEPT ![m] = w],
               orphans' = [orphans EXCEPT ![m] = processing[w]],
               MonitorGoto(m, IF processing[w] = <<>> THEN "delete_queue" ELSE "read_status"),
               UNCHANGED rows
        PROVE  MonitorTypeOK'
    <3> DEFINE point == IF processing[w] = <<>> THEN "delete_queue" ELSE "read_status"
    <3>1. w \in Workers /\ w # Nobody /\ suspects[m] \ {w} \in SUBSET Workers
      BY <1>2, StoreAssumption
    <3>2. processing[w] \in Seq(QueuePayload)
      BY <3>1 DEF StoreTypeOK, Queues, Queue
    <3>3. /\ point \in MonitorSteps /\ point \notin RetryPoints
          /\ point \in NeedsOrphan => processing[w] # <<>>
      BY MonitorPoints DEF RetryPoints
    <3> HIDE DEF point
    <3>4. MonitorGoto(m, point)
      BY <2>1 DEF point
    <3> QED  BY <1>2, <2>1, <3>1, <3>2, <3>3, <3>4, MonitorMoves
  <2> QED  BY <1>1, <1>4, <1>7, <2>1 DEF PickWorker
<1>8. CASE ReleaseLock(m)
  <2>1. ASSUME MonitorGoto(m, "asleep"), suspects' = [suspects EXCEPT ![m] = {}],
               target' = [target EXCEPT ![m] = Nobody],
               orphans' = [orphans EXCEPT ![m] = <<>>], UNCHANGED rows
        PROVE  MonitorTypeOK'
    <3>1. <<>> \in Seq(QueuePayload) /\ {} \in SUBSET Workers
      BY EmptySeq
    <3> QED  BY <1>0, <1>2, <2>1, <3>1, MonitorMoves
  <2> QED  BY <1>1, <1>8, <2>1, ExitsTyped DEF ReleaseLock
<1> QED  BY <1>1, <1>3, <1>5, <1>6, <1>7, <1>8 DEF Scan

\* The recovery of one worker's queue.
LEMMA RecoverKeepsTypes ==
  ASSUME StoreTypeOK, MonitorTypeOK, NEW m \in Monitors, Recover(m),
         disruptionsLeft' \in 0..MaxDisruptions
  PROVE  StoreTypeOK' /\ MonitorTypeOK'
<1> USE DEF storeVars, dbVars, rowVars, redisVars, queueVars, Call
<1>0. /\ {"read_status", "dlq_persist", "dlq_push", "mark_pending", "push_recovered"}
           \subseteq NeedsOrphan
      /\ NeedsOrphan \subseteq MonitorSteps \intersect RecoverSteps
      /\ RetryPoints = {"mark_pending", "push_recovered"}
      /\ "delete_queue" \in RecoverSteps
      /\ \A p \in {"release", "pick_worker"} :
           p \in MonitorSteps /\ p \notin RecoverSteps /\ p \notin NeedsOrphan /\ p \notin RetryPoints
  BY MonitorPoints DEF RetryPoints, NeedsOrphan
<1>1. ScanFails(m) => MonitorTypeOK'
  BY <1>0, MonitorProceedsTyped DEF ScanFails
<1>2. ASSUME monitorAt[m] \in NeedsOrphan
      PROVE  /\ Orphan(m) \in QueuePayload /\ Orphan(m).job \in Jobs
             /\ orphans[m] # <<>> /\ target[m] # Nobody
  <2>1. orphans[m] \in Seq(QueuePayload) /\ orphans[m] # <<>> /\ target[m] # Nobody
    BY <1>0, <1>2, MonitorTypeAt
  <2>2. Orphan(m) \in QueuePayload
    BY <2>1, HeadTailType DEF Orphan
  <2> QED  BY <2>1, <2>2 DEF QueuePayload
<1>3. CASE ReadStatus(m)
  <2>1. StoreTypeOK'
    BY <1>3 DEF ReadStatus, StoreTypeOK
  <2>2. monitorAt[m] \in NeedsOrphan
    BY <1>0, <1>3 DEF ReadStatus
  <2>3. NextOrphan(m) => MonitorTypeOK'
    BY <2>2, NextOrphanTyped
  <2>4. Exhausted(Orphan(m)) /\ MonitorProceeds(m, "dlq_persist") => MonitorTypeOK'
    BY <1>0, <1>2, <2>2, MonitorProceedsTyped
  <2>5. ~Exhausted(Orphan(m)) /\ MonitorProceeds(m, "mark_pending") => MonitorTypeOK'
    BY <1>0, <1>2, <2>2, MonitorProceedsTyped DEF Orphan
  <2> QED  BY <1>1, <1>3, <2>1, <2>3, <2>4, <2>5 DEF ReadStatus
<1>4. CASE MarkPending(m)
  <2>1. monitorAt[m] \in NeedsOrphan /\ monitorAt[m] \in RetryPoints
    BY <1>0, <1>4 DEF MarkPending
  <2>2. ~Exhausted(Orphan(m))
    BY <2>1, MonitorTypeAt DEF Orphan
  <2>3. Orphan(m).retry + 1 \in 0..MaxRetry
    BY <1>2, <2>1, <2>2, RetryStaysPayload
  <2>4. status' \in StatusTable /\ retryCount' \in RetryTable
    <3>1. status \in StatusTable /\ retryCount \in RetryTable
      BY DEF StoreTypeOK
    <3>2. Orphan(m).job \in Jobs
      BY <1>2, <2>1
    <3>3. MarkForRetry(Orphan(m).job, Orphan(m).retry + 1) \/ UNCHANGED <<status, retryCount>>
      BY <1>4 DEF MarkPending
    <3> QED  BY <2>3, <3>1, <3>2, <3>3, StatusFacts, StatusTableUpdate, RetryTableUpdate
             DEF MarkForRetry, SetStatus
  <2>5. StoreTypeOK'
    BY <1>4, <2>4 DEF MarkPending, StoreTypeOK
  <2>6. MonitorProceeds(m, "push_recovered") => MonitorTypeOK'
    BY <1>0, <1>2, <2>1, <2>2, MonitorProceedsTyped DEF Orphan
  <2> QED  BY <1>1, <1>4, <2>5, <2>6 DEF MarkPending
<1>5. CASE PushRecovered(m)
  <2>1. monitorAt[m] \in NeedsOrphan /\ monitorAt[m] \in RetryPoints
    BY <1>0, <1>5 DEF PushRecovered
  <2>2. Entry(Orphan(m).job, Orphan(m).retry + 1) \in QueuePayload
    BY <1>2, <2>1, MonitorTypeAt, RetryStaysPayload DEF Orphan
  <2>3. pending' \in Queue
    BY <1>5, <2>2, QueueUpdate DEF PushRecovered, EnqueuePending, StoreTypeOK
  <2>4. StoreTypeOK'
    BY <1>5, <2>3 DEF PushRecovered, StoreTypeOK
  <2> QED  BY <1>1, <1>5, <2>1, <2>4, NextOrphanTyped DEF PushRecovered
<1>6. CASE MonitorDlqPersist(m)
  <2>1. monitorAt[m] \in NeedsOrphan
    BY <1>0, <1>6 DEF MonitorDlqPersist
  <2>2. status' \in StatusTable /\ results' \in ResultTable
    BY <1>2, <1>6, <2>1, DeadLetterTyped DEF MonitorDlqPersist, StoreTypeOK
  <2>3. StoreTypeOK'
    BY <1>6, <2>2 DEF MonitorDlqPersist, StoreTypeOK
  <2>4. MonitorProceeds(m, "dlq_push") => MonitorTypeOK'
    BY <1>0, <1>2, <2>1, MonitorProceedsTyped
  <2> QED  BY <1>1, <1>6, <2>3, <2>4 DEF MonitorDlqPersist
<1>7. CASE MonitorDlqPush(m)
  <2>1. monitorAt[m] \in NeedsOrphan
    BY <1>0, <1>7 DEF MonitorDlqPush
  <2>2. deadLetter' \in Queue
    BY <1>2, <1>7, <2>1, QueueUpdate DEF MonitorDlqPush, StoreTypeOK
  <2>3. StoreTypeOK'
    BY <1>7, <2>2 DEF MonitorDlqPush, StoreTypeOK
  <2> QED  BY <1>1, <1>7, <2>1, <2>3, NextOrphanTyped DEF MonitorDlqPush
<1>8. CASE DeleteQueue(m)
  <2>1. processing' \in Queues
    <3>1. <<>> \in Queue
      BY EmptySeq DEF Queue
    <3>2. processing \in Queues /\ target[m] \in Workers
      BY <1>0, <1>8, MonitorTypeAt DEF DeleteQueue, StoreTypeOK
    <3> QED  BY <1>8, <3>1, <3>2, QueuesUpdate DEF DeleteQueue
  <2>2. StoreTypeOK'
    BY <1>8, <2>1 DEF DeleteQueue, StoreTypeOK
  <2> DEFINE point == IF suspects[m] = {} THEN "release" ELSE "pick_worker"
  <2>3. point \in MonitorSteps /\ point \notin RecoverSteps /\ point \notin NeedsOrphan
        /\ point \notin RetryPoints
    BY <1>0
  <2>4. MonitorProceeds(m, point) \/ ScanFails(m)
    BY <1>8 DEF DeleteQueue
  <2> HIDE DEF point
  <2> QED  BY <1>1, <2>2, <2>3, <2>4, MonitorProceedsTyped
<1> QED  BY <1>3, <1>4, <1>5, <1>6, <1>7, <1>8 DEF Recover

LEMMA MonitorKeepsTypes ==
  ASSUME StoreTypeOK, MonitorTypeOK, MonitorNext
  PROVE  StoreTypeOK' /\ MonitorTypeOK'
<1>1. disruptionsLeft' \in 0..MaxDisruptions
  BY MonitorDisruptionsTyped
<1>2. ASSUME NEW m \in Monitors, MonitorCrash(m)
      PROVE  StoreTypeOK' /\ MonitorTypeOK'
  <2>1. StoreTypeOK'
    BY <1>1, <1>2 DEF MonitorCrash, StoreTypeOK, dbVars, rowVars, redisVars, queueVars
  <2> QED  BY <1>2, <2>1, ExitsTyped DEF MonitorCrash
<1>3. CASE LockExpires
  <2>1. StoreTypeOK'
    BY <1>1, <1>3 DEF LockExpires, StoreTypeOK, dbVars, rowVars, queueVars
  <2>2. UNCHANGED monitorVars
    BY <1>3 DEF LockExpires
  <2> QED  BY <2>1, <2>2 DEF MonitorTypeOK, monitorVars, scanVars, Recovering, Exhausted
<1> QED  BY <1>1, <1>2, <1>3, StartupKeepsTypes, ScanKeepsTypes, RecoverKeepsTypes DEF MonitorNext

(***************************************************************************)
(* The whole platform.                                                     *)
(***************************************************************************)
LEMMA InitTypes == Init => TypeOK
<1> SUFFICES ASSUME Init PROVE TypeOK
  OBVIOUS
<1>1. StoreTypeOK
  <2>1. <<>> \in Queue
    BY EmptySeq DEF Queue
  <2>2. 0 \in 0..MaxRetry
    BY MaxRetryAssumption
  <2>3. disruptionsLeft \in 0..MaxDisruptions
    BY StoreAssumption DEF Init, StoreInit
  <2> QED  BY <2>1, <2>2, <2>3 DEF Init, StoreInit, StoreTypeOK, StatusTable, RetryTable,
           ResultTable, Queues, RowStates
<1>2. GatewayTypeOK
  BY DEF Init, GatewayInit, GatewayTypeOK, PostStates
<1>3. WorkerTypeOK
  <2>1. "off" \notin Busy /\ "off" \notin {"push_retry", "remove_old"} /\ "off" \in Inert
    BY DEF Busy, Sandboxed, Requeuing, Inert
  <2> QED  BY <2>1 DEF Init, WorkerInit, WorkerTypeOK, Verdicts
<1>4. MonitorTypeOK
  <2>1. <<>> \in Seq(QueuePayload)
    BY EmptySeq
  <2> QED  BY <2>1, MonitorPoints, MonitorTypeAt DEF Init, MonitorInit, RetryPoints
<1> QED  BY <1>1, <1>2, <1>3, <1>4 DEF TypeOK

LEMMA NextKeepsTypes ==
  ASSUME TypeOK, Next
  PROVE  TypeOK'
<1>1. UNCHANGED workerVars => WorkerTypeOK'
  BY DEF TypeOK, WorkerTypeOK, workerVars, Exhausted
<1>2. UNCHANGED monitorVars => MonitorTypeOK'
  BY DEF TypeOK, MonitorTypeOK, monitorVars, scanVars, Recovering, Exhausted
<1>3. UNCHANGED post => GatewayTypeOK'
  BY DEF TypeOK, GatewayTypeOK
<1> QED  BY <1>1, <1>2, <1>3, GatewayKeepsTypes, WorkerKeepsTypes, MonitorKeepsTypes DEF TypeOK, Next

LEMMA StutterKeepsTypes ==
  ASSUME TypeOK, UNCHANGED vars
  PROVE  TypeOK'
<1>1. StoreTypeOK'
  BY DEF TypeOK, vars, storeVars, dbVars, rowVars, redisVars, queueVars, StoreTypeOK
<1>2. GatewayTypeOK'
  BY DEF TypeOK, vars, GatewayTypeOK
<1>3. WorkerTypeOK'
  BY DEF TypeOK, vars, workerVars, WorkerTypeOK, Exhausted
<1>4. MonitorTypeOK'
  BY DEF TypeOK, vars, monitorVars, scanVars, MonitorTypeOK, Recovering, Exhausted
<1> QED  BY <1>1, <1>2, <1>3, <1>4 DEF TypeOK

\* Every variable keeps its type; with it, no step reads an entry it does not
\* have (the head of an empty list, the retry of an exhausted entry), and no
\* retry count passes MaxRetry.
THEOREM TypeCorrect == Spec => []TypeOK
<1>1. Init => TypeOK
  BY InitTypes
<1>2. TypeOK /\ [Next]_vars => TypeOK'
  BY NextKeepsTypes, StutterKeepsTypes
<1> QED  BY <1>1, <1>2, PTL DEF Spec
=============================================================================
