------------------------------- MODULE Worker -------------------------------
(***************************************************************************)
(* The execution worker: the loop of processQueue with the sandbox it runs *)
(* a job in, requeueWithBackoff and sendToDLQ, its heartbeat, SIGTERM and  *)
(* the death of the process. One step for each call that is awaited.       *)
(***************************************************************************)
EXTENDS Store

VARIABLES
  workerAt,    \* the call each worker awaits
  shouldRun,   \* cleared by SIGTERM
  current,     \* the entry the loop works on (job and rawJob), or NoJob
  verdict,     \* how the sandbox of the current job ended
  container    \* the worker whose container sub_<job> exists, or Nobody

workerVars == <<workerAt, shouldRun, current, verdict, container>>

NoJob == [job |-> Nobody, retry |-> 0]

Sandboxed == {"remove_stale", "start_container", "running", "persist"}
Requeuing == {"requeue", "push_retry", "remove_old",
              "dlq_persist", "dlq_push", "dlq_publish"}
Busy      == {"claim", "check", "give_back", "discard", "acknowledge", "publish"}
               \union Sandboxed \union Requeuing
Inert     == {"off", "stopped", "crashed"}

Alive(w)     == workerAt[w] \notin Inert
Executing(w) == workerAt[w] \in Sandboxed
CurrentJob(w) == current[w].job

WorkerInit ==
  /\ workerAt = [w \in Workers |-> "off"]
  /\ shouldRun = [w \in Workers |-> TRUE]
  /\ current = [w \in Workers |-> NoJob]
  /\ verdict = [w \in Workers |-> "NONE"]
  /\ container = [j \in Jobs |-> Nobody]

WorkerTypeOK ==
  /\ workerAt \in [Workers -> {"pop"} \union Busy \union Inert]
  /\ shouldRun \in [Workers -> BOOLEAN]
  /\ current \in [Workers -> QueuePayload \union {NoJob}]
  /\ verdict \in [Workers -> Verdicts]
  /\ container \in [Jobs -> Workers \union {Nobody}]
  /\ \A w \in Workers : workerAt[w] \in Busy <=> current[w] # NoJob
  /\ \A w \in Workers : workerAt[w] \in {"push_retry", "remove_old"} => ~Exhausted(current[w])

(***************************************************************************)
(* Moving on, and what the steps below leave alone.                        *)
(***************************************************************************)
Goto(w, point) == workerAt' = [workerAt EXCEPT ![w] = point]
Proceed(w, point) == Goto(w, point) /\ UNCHANGED <<current, verdict>>

\* The end of an iteration: job and rawJob go out of scope, and the loop runs
\* once more only while no SIGTERM was received.
NextIteration(w) ==
  /\ Goto(w, IF shouldRun[w] THEN "pop" ELSE "stopped")
  /\ current' = [current EXCEPT ![w] = NoJob]
  /\ verdict' = [verdict EXCEPT ![w] = "NONE"]

RemoveRaw(w) == processing' = [processing EXCEPT ![w] = LRem(@, current[w])]

KeepsWorld   == UNCHANGED <<shouldRun, container>>
KeepsQueues  == UNCHANGED queueVars
KeepsSignals == UNCHANGED <<completion, heartbeat, reaperLock>>
RedisOnly    == KeepsWorld /\ KeepsSignals /\ UNCHANGED dbVars
DbOnly       == KeepsWorld /\ UNCHANGED <<redisVars, createdAt>>
SandboxOnly  == UNCHANGED <<shouldRun, dbVars, redisVars>>

(***************************************************************************)
(* Life of the process.                                                    *)
(***************************************************************************)
\* Mutant: the first heartbeat is left to the interval.
StartWithoutHeartbeat(w) ==
  /\ workerAt[w] = "off"
  /\ Proceed(w, "pop")
  /\ Undisturbed
  /\ KeepsWorld /\ KeepsQueues /\ UNCHANGED <<dbVars, completion, heartbeat, reaperLock>>

\* sendHeartbeat swallows the error of a first heartbeat that is not written.
StartWorker(w) ==
  /\ workerAt[w] = "off"
  /\ Proceed(w, "pop")
  /\ Call("redis_error", heartbeat' = [heartbeat EXCEPT ![w] = TRUE], UNCHANGED heartbeat,
          TRUE, TRUE)
  /\ KeepsWorld /\ KeepsQueues /\ UNCHANGED <<dbVars, completion, reaperLock>>

SendHeartbeat(w) ==
  /\ Alive(w) /\ ~heartbeat[w]
  /\ heartbeat' = [heartbeat EXCEPT ![w] = TRUE]
  /\ Undisturbed
  /\ UNCHANGED <<workerVars, dbVars, queueVars, completion, reaperLock>>

\* Mutant: SET without EX, so that a heartbeat never expires.
HeartbeatStays(w) == FALSE /\ UNCHANGED <<workerVars, storeVars>>

\* Fifteen seconds without a heartbeat: always after the loop has ended, and
\* under a live worker when its event loop or its connection stalls that long.
HeartbeatExpires(w) ==
  /\ heartbeat[w]
  /\ IF Alive(w) THEN Disrupted("heartbeat_lapse") ELSE Undisturbed
  /\ heartbeat' = [heartbeat EXCEPT ![w] = FALSE]
  /\ UNCHANGED <<workerVars, dbVars, queueVars, completion, reaperLock>>

Sigterm(w) ==
  /\ Alive(w) /\ shouldRun[w]
  /\ Disrupted("sigterm")
  /\ shouldRun' = [shouldRun EXCEPT ![w] = FALSE]
  /\ UNCHANGED <<workerAt, current, verdict, container, dbVars, redisVars>>

\* Its container goes on without it, and without the timer that would kill it.
WorkerCrash(w) ==
  /\ Alive(w)
  /\ Disrupted("worker_crash")
  /\ Goto(w, "crashed")
  /\ current' = [current EXCEPT ![w] = NoJob]
  /\ verdict' = [verdict EXCEPT ![w] = "NONE"]
  /\ UNCHANGED <<shouldRun, container, dbVars, redisVars>>

(***************************************************************************)
(* Taking an entry and claiming its job.                                   *)
(***************************************************************************)
\* Mutant: BRPOP, which takes an entry and keeps it nowhere.
TakeOldest(w) == pending' = Front(pending) /\ UNCHANGED processing

MoveOldest(w) ==
  /\ pending' = Front(pending)
  /\ processing' = [processing EXCEPT ![w] = LPush(@, Last(pending))]

\* A lost reply leaves rawJob null: the entry moved, and this loop forgot it.
Pop(w) ==
  /\ workerAt[w] = "pop" /\ pending # <<>>
  /\ MoveOldest(w)
  /\ \/ /\ Undisturbed
        /\ Goto(w, "claim")
        /\ current' = [current EXCEPT ![w] = Last(pending)]
        /\ UNCHANGED verdict
     \/ Disrupted("redis_error") /\ NextIteration(w)
  /\ RedisOnly /\ UNCHANGED deadLetter

\* BRPOPLPUSH gives up after two seconds; only then is shouldRun read again.
PopTimesOut(w) ==
  /\ workerAt[w] = "pop" /\ ~shouldRun[w]
  /\ NextIteration(w)
  /\ Undisturbed
  /\ RedisOnly /\ KeepsQueues

\* UPDATE ... SET status = RUNNING WHERE status = PENDING: the claim.
Claim(w) ==
  LET j == CurrentJob(w)
      free == status[j] = "PENDING"
  IN  /\ workerAt[w] = "claim"
      /\ Call("db_error",
              status' = IF free THEN [status EXCEPT ![j] = "RUNNING"] ELSE status,
              UNCHANGED status,
              Proceed(w, IF free THEN "remove_stale" ELSE "check"),
              Proceed(w, "requeue"))
      /\ DbOnly /\ UNCHANGED <<retryCount, results>>

Check(w) ==
  /\ workerAt[w] = "check"
  /\ \/ Undisturbed /\ Proceed(w, IF IsTerminalStatus(status[CurrentJob(w)])
                                  THEN "discard" ELSE "give_back")
     \/ Disrupted("db_error") /\ Proceed(w, "requeue")
  /\ DbOnly /\ UNCHANGED <<status, retryCount, results>>

GiveBack(w) ==
  /\ workerAt[w] = "give_back"
  /\ Call("redis_error", EnqueuePending(current[w]), UNCHANGED pending,
          Proceed(w, "discard"), Proceed(w, "requeue"))
  /\ RedisOnly /\ UNCHANGED <<processing, deadLetter>>

Discard(w) ==
  /\ workerAt[w] = "discard"
  /\ Call("redis_error", RemoveRaw(w), UNCHANGED processing,
          NextIteration(w), Proceed(w, "requeue"))
  /\ RedisOnly /\ UNCHANGED <<pending, deadLetter>>

(***************************************************************************)
(* runInSandbox: docker rm -f of a container of that name, docker run, and *)
(* the exit it waits for. Containers are named after the job alone.        *)
(***************************************************************************)
\* Mutant: docker run without the docker rm -f before it.
SkipStaleContainer(w) ==
  /\ workerAt[w] = "remove_stale"
  /\ Proceed(w, "start_container")
  /\ Undisturbed
  /\ SandboxOnly /\ UNCHANGED container

RemoveStaleContainer(w) ==
  /\ workerAt[w] = "remove_stale"
  /\ Proceed(w, "start_container")
  /\ \/ Undisturbed /\ container' = [container EXCEPT ![CurrentJob(w)] = Nobody]
     \/ Disrupted("spawn_error") /\ UNCHANGED container
  /\ SandboxOnly

\* A name in use makes docker run exit non-zero at once, which the worker
\* cannot tell from a program that failed.
StartContainer(w) ==
  LET j == CurrentJob(w)
  IN  /\ workerAt[w] = "start_container"
      /\ \/ /\ Undisturbed /\ container[j] = Nobody
            /\ container' = [container EXCEPT ![j] = w]
            /\ Proceed(w, "running")
         \/ /\ Undisturbed /\ container[j] # Nobody
            /\ verdict' = [verdict EXCEPT ![w] = "RUNTIME_ERROR"]
            /\ Goto(w, "persist")
            /\ UNCHANGED <<current, container>>
         \/ /\ Disrupted("spawn_error")
            /\ Proceed(w, "requeue")
            /\ UNCHANGED container
      /\ SandboxOnly

\* The exit of a container that somebody else removed has code 137, which the
\* sandbox reads as an out-of-memory kill unless its own timer fired first.
ContainerExits(w) ==
  LET j == CurrentJob(w)
      own == container[j] = w
  IN  /\ workerAt[w] = "running"
      /\ Goto(w, "persist")
      /\ \E v \in IF own THEN Verdicts ELSE {"OOM", "TIMEOUT"} :
           verdict' = [verdict EXCEPT ![w] = v]
      /\ container' = IF own THEN [container EXCEPT ![j] = Nobody] ELSE container
      /\ Undisturbed
      /\ SandboxOnly /\ UNCHANGED current

\* The container of a worker that is gone may end by itself, or never.
OrphanExits(j) ==
  /\ container[j] # Nobody
  /\ ~(workerAt[container[j]] = "running" /\ CurrentJob(container[j]) = j)
  /\ container' = [container EXCEPT ![j] = Nobody]
  /\ Undisturbed
  /\ SandboxOnly /\ UNCHANGED <<workerAt, current, verdict>>

(***************************************************************************)
(* The result, the acknowledgement and the completion marker.              *)
(***************************************************************************)
\* Mutants: the status is left out of the transaction; an error in the
\* transaction is swallowed; there is no transaction, and the status is first.
PersistResultOnly(w) ==
  /\ workerAt[w] = "persist"
  /\ Call("db_error", UpsertResult(CurrentJob(w), "sandbox", verdict[w]), UNCHANGED results,
          Proceed(w, "acknowledge"), Proceed(w, "requeue"))
  /\ DbOnly /\ UNCHANGED <<status, retryCount>>
PersistCarelessly(w) ==
  LET j == CurrentJob(w)
  IN  /\ workerAt[w] = "persist"
      /\ Call("db_error",
              /\ UpsertResult(j, "sandbox", verdict[w])
              /\ SetStatus(j, FinalStatus(verdict[w])),
              UNCHANGED <<results, status>>,
              Proceed(w, "acknowledge"), Proceed(w, "acknowledge"))
      /\ DbOnly /\ UNCHANGED retryCount

PersistUnatomically(w) ==
  LET j == CurrentJob(w)
  IN  /\ workerAt[w] = "persist"
      /\ SetStatus(j, FinalStatus(verdict[w]))
      /\ \/ /\ Undisturbed /\ Proceed(w, "acknowledge")
            /\ UpsertResult(j, "sandbox", verdict[w])
         \/ Disrupted("db_error") /\ Proceed(w, "requeue") /\ UNCHANGED results
      /\ DbOnly /\ UNCHANGED retryCount

Persist(w) ==
  LET j == CurrentJob(w)
  IN  /\ workerAt[w] = "persist"
      /\ Call("db_error",
              /\ UpsertResult(j, "sandbox", verdict[w])
              /\ SetStatus(j, FinalStatus(verdict[w])),
              UNCHANGED <<results, status>>,
              Proceed(w, "acknowledge"), Proceed(w, "requeue"))
      /\ DbOnly /\ UNCHANGED retryCount

Acknowledge(w) ==
  /\ workerAt[w] = "acknowledge"
  /\ Call("redis_error", RemoveRaw(w), UNCHANGED processing,
          Proceed(w, "publish"), Proceed(w, "requeue"))
  /\ RedisOnly /\ UNCHANGED <<pending, deadLetter>>

PublishSystemChunk(w) == completion' = [completion EXCEPT ![CurrentJob(w)] = TRUE]

PublishOnly == KeepsWorld /\ KeepsQueues /\ UNCHANGED <<dbVars, heartbeat, reaperLock>>

PublishCompletion(w) ==
  /\ workerAt[w] = "publish"
  /\ Call("redis_error", PublishSystemChunk(w), UNCHANGED completion,
          NextIteration(w), Proceed(w, "requeue"))
  /\ PublishOnly

(***************************************************************************)
(* requeueWithBackoff, entered from the catch of the loop. An error in it  *)
(* is logged, and the loop goes on to the next entry.                      *)
(***************************************************************************)
Requeue(w) ==
  /\ workerAt[w] = "requeue" /\ ~Exhausted(current[w])
  /\ Call("db_error",
          MarkForRetry(CurrentJob(w), current[w].retry + 1),
          UNCHANGED <<status, retryCount>>,
          Proceed(w, "push_retry"), NextIteration(w))
  /\ DbOnly /\ UNCHANGED results

\* Mutant: the entry is removed and never pushed again.
ForgetRetry(w) ==
  /\ workerAt[w] = "push_retry"
  /\ Proceed(w, "remove_old")
  /\ Undisturbed
  /\ RedisOnly /\ KeepsQueues

\* Mutant: the entry goes back as it was.
PushUnchanged(w) ==
  /\ workerAt[w] = "push_retry"
  /\ Call("redis_error", EnqueuePending(current[w]), UNCHANGED pending,
          Proceed(w, "remove_old"), NextIteration(w))
  /\ RedisOnly /\ UNCHANGED <<processing, deadLetter>>

PushRetry(w) ==
  /\ workerAt[w] = "push_retry"
  /\ Call("redis_error",
          EnqueuePending(Entry(CurrentJob(w), current[w].retry + 1)), UNCHANGED pending,
          Proceed(w, "remove_old"), NextIteration(w))
  /\ RedisOnly /\ UNCHANGED <<processing, deadLetter>>

RemoveOld(w) ==
  /\ workerAt[w] = "remove_old"
  /\ Call("redis_error", RemoveRaw(w), UNCHANGED processing,
          NextIteration(w), NextIteration(w))
  /\ RedisOnly /\ UNCHANGED <<pending, deadLetter>>

\* With no retry left the entry is removed first and the dead letter written
\* after it.
RemoveExhausted(w) ==
  /\ workerAt[w] = "requeue" /\ Exhausted(current[w])
  /\ Call("redis_error", RemoveRaw(w), UNCHANGED processing,
          Proceed(w, "dlq_persist"), NextIteration(w))
  /\ RedisOnly /\ UNCHANGED <<pending, deadLetter>>

DlqPersist(w) ==
  /\ workerAt[w] = "dlq_persist"
  /\ Call("db_error", DeadLetterInDb(CurrentJob(w)), UNCHANGED <<status, results>>,
          Proceed(w, "dlq_push"), NextIteration(w))
  /\ DbOnly /\ UNCHANGED retryCount

\* Mutants: the dead letter is not announced; it is filed twice.
DlqPushSilently(w) ==
  /\ workerAt[w] = "dlq_push"
  /\ Call("redis_error",
          deadLetter' = LPush(deadLetter, current[w]), UNCHANGED deadLetter,
          NextIteration(w), NextIteration(w))
  /\ RedisOnly /\ UNCHANGED <<pending, processing>>
DlqPushTwice(w) ==
  /\ workerAt[w] = "dlq_push"
  /\ Call("redis_error",
          deadLetter' = LPush(LPush(deadLetter, current[w]), current[w]), UNCHANGED deadLetter,
          Proceed(w, "dlq_publish"), NextIteration(w))
  /\ RedisOnly /\ UNCHANGED <<pending, processing>>

DlqPush(w) ==
  /\ workerAt[w] = "dlq_push"
  /\ Call("redis_error",
          deadLetter' = LPush(deadLetter, current[w]), UNCHANGED deadLetter,
          Proceed(w, "dlq_publish"), NextIteration(w))
  /\ RedisOnly /\ UNCHANGED <<pending, processing>>

DlqPublish(w) ==
  /\ workerAt[w] = "dlq_publish"
  /\ Call("redis_error", PublishSystemChunk(w), UNCHANGED completion,
          NextIteration(w), NextIteration(w))
  /\ PublishOnly

(***************************************************************************)
(* Loop is what a live worker goes on doing: it is given fairness.         *)
(***************************************************************************)
Take(w)      == Pop(w) \/ PopTimesOut(w) \/ Claim(w) \/ Check(w) \/ GiveBack(w) \/ Discard(w)
RunJob(w)    == RemoveStaleContainer(w) \/ StartContainer(w) \/ ContainerExits(w)
Conclude(w)  == Persist(w) \/ Acknowledge(w) \/ PublishCompletion(w)
PutBack(w)   == Requeue(w) \/ PushRetry(w) \/ RemoveOld(w)
GiveUp(w)    == RemoveExhausted(w) \/ DlqPersist(w) \/ DlqPush(w) \/ DlqPublish(w)
Loop(w)      == Take(w) \/ RunJob(w) \/ Conclude(w) \/ PutBack(w) \/ GiveUp(w)
Live(w)      == SendHeartbeat(w) \/ HeartbeatExpires(w) \/ Sigterm(w) \/ WorkerCrash(w)

WorkerNext ==
  \/ \E w \in Workers : StartWorker(w) \/ Live(w) \/ Loop(w)
  \/ \E j \in Jobs : OrphanExits(j)
=============================================================================
