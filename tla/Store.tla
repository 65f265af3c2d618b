------------------------------- MODULE Store -------------------------------
(***************************************************************************)
(* What the services share: the two PostgreSQL tables and the Redis keys.  *)
(* No transaction spans both, and any call may fail with or without effect.*)
(***************************************************************************)
EXTENDS Contracts, SequencesExt

CONSTANTS
  Workers,         \* worker processes; a restarted worker has a new identity
  Monitors,        \* system-monitor instances
  Nobody,          \* no owner of the reaper lock or of a container, no job
  Disruptions,     \* the kinds of disruption that may happen
  MaxDisruptions   \* how many of them may happen in one behaviour

DisruptionKinds ==
  {"worker_crash", "sigterm", "heartbeat_lapse", "monitor_crash", "lock_expiry",
   "gateway_crash", "redis_error", "db_error", "spawn_error"}

ASSUME StoreAssumption ==
  /\ Disruptions \subseteq DisruptionKinds
  /\ MaxDisruptions \in Nat
  /\ Nobody \notin Jobs \union Workers \union Monitors
  /\ IsFiniteSet(Jobs)

VARIABLES
  status,          \* submissions.status of each job
  retryCount,      \* submissions.retry_count
  createdAt,       \* submissions.created_at, as the rank of the submission
  results,         \* submission_results, at most one row for each job
  pending,         \* jobs:queue:pending, its head on the left
  processing,      \* jobs:queue:processing:<worker>
  deadLetter,      \* jobs:queue:dead-letter
  completion,      \* whether EXECUTION_COMPLETE was published for each job
  heartbeat,       \* whether worker:heartbeat:<worker> exists
  reaperLock,      \* the monitor whose id is stored at reaper:lock, or Nobody
  disruptionsLeft  \* the disruptions still allowed

rowVars   == <<status, retryCount, createdAt>>
dbVars    == <<rowVars, results>>
queueVars == <<pending, processing, deadLetter>>
redisVars == <<queueVars, completion, heartbeat, reaperLock>>
storeVars == <<dbVars, redisVars, disruptionsLeft>>

(***************************************************************************)
(* Tables.                                                                 *)
(***************************************************************************)
NoResult  == [output |-> "absent", category |-> "NONE"]
ResultRow == [output: {"sandbox", "empty"}, category: Categories]

SetStatus(j, s) == status' = [status EXCEPT ![j] = s]

\* INSERT ... ON CONFLICT (job_id) DO UPDATE of every column
UpsertResult(j, output, category) ==
  results' = [results EXCEPT ![j] = [output |-> output, category |-> category]]

\* The transaction of sendToDLQ, the same text in the worker and the reaper.
DeadLetterInDb(j) ==
  /\ SetStatus(j, "FAILED")
  /\ UpsertResult(j, "empty", "WORKER_CRASH")

\* Mutants: one half of the row is forgotten.
MarkCountOnly(j, nextRetry) ==
  retryCount' = [retryCount EXCEPT ![j] = nextRetry] /\ UNCHANGED status
MarkStatusOnly(j, nextRetry) == SetStatus(j, "PENDING") /\ UNCHANGED retryCount

\* The row a job is given when it is put back to be tried once more.
MarkForRetry(j, nextRetry) ==
  /\ SetStatus(j, "PENDING")
  /\ retryCount' = [retryCount EXCEPT ![j] = nextRetry]

Rows(s) == {j \in Jobs : status[j] = s}

(***************************************************************************)
(* Lists: LPUSH adds at the head, BRPOP takes from the tail, LREM key 1    *)
(* removes the first equal entry and does nothing when there is none.      *)
(***************************************************************************)
LPush(list, e) == <<e>> \o list

\* RemoveFirst of SequencesExt without its LAMBDA, which the provers reject.
LRem(list, e) ==
  IF \E i \in 1..Len(list) : list[i] = e
  THEN RemoveAt(list, CHOOSE i \in 1..Len(list) :
                        list[i] = e /\ \A k \in 1..(i - 1) : list[k] # e)
  ELSE list

Entry(job, retry) == [job |-> job, retry |-> retry]

EnqueuePending(e) == pending' = LPush(pending, e)

\* Mutants: one retry too many, one too few.
ExhaustedLate(e)  == e.retry > MaxRetry
ExhaustedEarly(e) == e.retry + 1 >= MaxRetry

\* nextRetry > MAX_RETRY_COUNT
Exhausted(e) == e.retry + 1 > MaxRetry

(***************************************************************************)
(* Disruptions. A step either goes as the code hopes, or spends one of the *)
(* disruptions left. A call to a service that fails may have taken effect  *)
(* all the same: its reply is what was lost.                               *)
(***************************************************************************)
Undisturbed == UNCHANGED disruptionsLeft

Disrupted(kind) ==
  /\ kind \in Disruptions
  /\ disruptionsLeft > 0
  /\ disruptionsLeft' = disruptionsLeft - 1

Call(failure, effect, noEffect, replied, failed) ==
  \/ Undisturbed        /\ effect                /\ replied
  \/ Disrupted(failure) /\ (effect \/ noEffect)  /\ failed

StoreInit ==
  /\ status = [j \in Jobs |-> "ABSENT"]
  /\ retryCount = [j \in Jobs |-> 0]
  /\ createdAt = [j \in Jobs |-> 0]
  /\ results = [j \in Jobs |-> NoResult]
  /\ pending = <<>>
  /\ processing = [w \in Workers |-> <<>>]
  /\ deadLetter = <<>>
  /\ completion = [j \in Jobs |-> FALSE]
  /\ heartbeat = [w \in Workers |-> FALSE]
  /\ reaperLock = Nobody
  /\ disruptionsLeft = MaxDisruptions

StatusTable == [Jobs -> RowStates]
RetryTable  == [Jobs -> 0..MaxRetry]
ResultTable == [Jobs -> ResultRow \union {NoResult}]
Queue       == Seq(QueuePayload)
Queues      == [Workers -> Queue]

StoreTypeOK ==
  /\ status \in StatusTable
  /\ retryCount \in RetryTable
  /\ createdAt \in [Jobs -> Nat]
  /\ results \in ResultTable
  /\ pending \in Queue
  /\ processing \in Queues
  /\ deadLetter \in Queue
  /\ completion \in [Jobs -> BOOLEAN]
  /\ heartbeat \in [Workers -> BOOLEAN]
  /\ reaperLock \in Monitors \union {Nobody}
  /\ disruptionsLeft \in 0..MaxDisruptions
=============================================================================
