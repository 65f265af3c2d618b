------------------------------ MODULE Platform ------------------------------
(***************************************************************************)
(* The platform: gateway, workers and monitors over the store they share,  *)
(* each a process of its own. What it promises holds under some kinds of   *)
(* disruption and not under others; the configurations say which.          *)
(***************************************************************************)
EXTENDS Gateway, Worker, Monitor

vars == <<storeVars, post, workerVars, monitorVars>>

Init == StoreInit /\ GatewayInit /\ WorkerInit /\ MonitorInit

Next ==
  \/ GatewayNext /\ UNCHANGED <<workerVars, monitorVars>>
  \/ WorkerNext  /\ UNCHANGED <<post, monitorVars>>
  \/ MonitorNext /\ UNCHANGED <<post, workerVars>>

Spec == Init /\ [][Next]_vars

TypeOK == StoreTypeOK /\ GatewayTypeOK /\ WorkerTypeOK /\ MonitorTypeOK

(***************************************************************************)
(* Fairness: a process that lives goes on, and so do the time to live of a *)
(* key and the timer that ends a container. Clients need not submit, and   *)
(* nothing is disturbed out of duty.                                       *)
(***************************************************************************)
FairSpec ==
  /\ Spec
  /\ \A j \in Jobs : WF_vars(Request(j) /\ ~At(j, "none") /\ UNCHANGED <<workerVars, monitorVars>>)
  /\ \A w \in Workers :
       /\ WF_vars((StartWorker(w) \/ Loop(w)) /\ UNCHANGED <<post, monitorVars>>)
       /\ WF_vars(SendHeartbeat(w) /\ UNCHANGED <<post, monitorVars>>)
       /\ WF_vars(HeartbeatExpires(w) /\ ~Alive(w) /\ UNCHANGED <<post, monitorVars>>)
  /\ \A m \in Monitors :
       WF_vars((Startup(m) \/ Scan(m) \/ Recover(m)) /\ UNCHANGED <<post, workerVars>>)
  /\ WF_vars(LockExpires /\ ~Scanning(reaperLock) /\ UNCHANGED <<post, workerVars>>)

(***************************************************************************)
(* Where a job is kept.                                                    *)
(***************************************************************************)
Decided(j) == IsTerminalStatus(status[j])
Waits(j)   == \E e \in ToSet(pending) : e.job = j
Taken(j)   == \E w \in Workers : \E e \in ToSet(processing[w]) : e.job = j
Carried(j) ==
  \/ \E w \in Workers : workerAt[w] \in {"push_retry", "dlq_persist"} /\ CurrentJob(w) = j
  \/ \E m \in Monitors : monitorAt[m] \in {"push_recovered", "dlq_persist"} /\ Orphan(m).job = j

\* A submission answered with 201 and not yet decided is in a queue that some
\* process will read, or a live process is about to push or to bury it
\* (BRPOPLPUSH, LPUSH before LREM, LPUSH before DEL).
AcceptedJobHeld ==
  \A j \in Jobs : At(j, "accepted") /\ ~Decided(j) => Waits(j) \/ Taken(j) \/ Carried(j)

\* No two workers run the same job at once: not after a recovery, and not when
\* a worker drains (the claim UPDATE ... WHERE status = PENDING).
SingleExecution ==
  \A v, w \in Workers :
    v # w /\ Executing(v) /\ Executing(w) => CurrentJob(v) # CurrentJob(w)

\* A queued entry can be claimed as it stands: its row is PENDING and counts
\* the same retries (the row is written before the entry is pushed).
QueueAgreesWithRows ==
  \A e \in ToSet(pending) : status[e.job] = "PENDING" /\ retryCount[e.job] = e.retry

\* No worker finds its claim rejected, so no entry is given back or discarded:
\* the reaper awaits its UPDATE before its LPUSH. The comment on the rejected
\* claim (index.ts:189-194) and failure-analysis/02 say that it may come too late.
ClaimNeverRejected == \A w \in Workers : workerAt[w] # "check"

\* A worker whose entry of the job the reaper has pushed again, but not yet deleted.
PushedAgain(v, j) ==
  \E m \in Monitors :
    Recovering(m) /\ target[m] = v /\ \A e \in ToSet(orphans[m]) : e.job # j

\* Where a second entry of a job can come about, a claim is rejected because the
\* job is decided, or because another worker has it: a live one, or a dead one
\* that the reaper still has to recover. It is not rejected for a recovered
\* entry whose row is not yet PENDING.
RejectedForAnother ==
  [][\A w \in Workers :
       workerAt[w] = "claim" /\ workerAt'[w] = "check" =>
         \/ Decided(CurrentJob(w))
         \/ \E v \in Workers \ {w} :
              /\ \E e \in ToSet(processing[v]) : e.job = CurrentJob(w)
              /\ Alive(v) \/ ~PushedAgain(v, CurrentJob(w))]_vars

\* docker run finds the name of its container free (removeStaleContainer).
ContainerNameFree ==
  \A w \in Workers : workerAt[w] = "start_container" => container[CurrentJob(w)] = Nobody

\* A decided job has a result that says the same as its status, with the
\* output of the sandbox exactly when the sandbox decided it. The gateway, which
\* writes the two outside a transaction, is excused until it has written both.
ResultAgreesWithStatus ==
  \A j \in Jobs :
    Decided(j) /\ ~At(j, "record_failure") =>
      /\ results[j] # NoResult
      /\ status[j] = FinalStatus(results[j].category)
      /\ results[j].output = "sandbox" <=> results[j].category \in Verdicts

\* A dead letter is a job given up after its last retry, and filed once.
DeadLettersAgree ==
  /\ \A e \in ToSet(deadLetter) :
       /\ e.retry = MaxRetry
       /\ status[e.job] = "FAILED"
       /\ results[e.job].category = "WORKER_CRASH"
  /\ \A i, k \in DOMAIN deadLetter : i # k => deadLetter[i].job # deadLetter[k].job

\* EXECUTION_COMPLETE means that the outcome can be read (COMMIT precedes it).
MarkerMeansDecided == \A j \in Jobs : completion[j] => Decided(j)

\* Whatever fails, a marker or a dead letter is never ahead of the result row,
\* and a job is filed as dead only by an attempt that had no retry left.
ResultComesFirst ==
  /\ \A j \in Jobs : completion[j] => results[j] # NoResult
  /\ \A e \in ToSet(deadLetter) : e.retry = MaxRetry /\ results[e.job] # NoResult

\* The reaper's lock: at most one monitor scans and recovers.
ScanExclusive == \A m, n \in Monitors : m # n => ~ (Scanning(m) /\ Scanning(n))

\* The reaper empties the queue of no worker that may still take from it.
OnlyDeadRecovered == \A m \in Monitors : Recovering(m) => ~Alive(target[m])

\* The outcome of a job is never replaced, nor is a decided job run again.
TerminalIsFinal ==
  [][\A j \in Jobs : Decided(j) => status'[j] = status[j] /\ results'[j] = results[j]]_vars

\* A decided job is never put back into the queue's domain.
TerminalNotRequeued == [][\A j \in Jobs : Decided(j) => status'[j] # "PENDING"]_vars

\* The rows of the table move as the lifecycle of a job allows.
Lifecycle == INSTANCE JobLifecycle WITH status <- status, retryCount <- retryCount
ImplementsLifecycle == Lifecycle!Spec

\* Every accepted submission is decided, one way or the other.
AcceptedJobDecided == \A j \in Jobs : At(j, "accepted") ~> Decided(j)

\* A client that waits for the completion marker of a decided job gets it.
DecisionAnnounced == \A j \in Jobs : At(j, "accepted") /\ Decided(j) ~> completion[j]
=============================================================================
