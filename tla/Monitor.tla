------------------------------ MODULE Monitor ------------------------------
(***************************************************************************)
(* The system monitor: the startup recovery of index.ts and the reaper     *)
(* scan of reaper.ts, one step for each call that is awaited. Several      *)
(* instances may run.                                                      *)
(***************************************************************************)
EXTENDS Store

VARIABLES
  monitorAt,   \* the call each monitor awaits
  rows,        \* startup: the selected rows still to be pushed, as entries
  suspects,    \* the workers with a queue, then those of them to recover
  target,      \* the worker being recovered, or Nobody
  orphans      \* the entries of its queue still to be handled (rawJobs)

scanVars    == <<suspects, target, orphans>>
monitorVars == <<monitorAt, rows, scanVars>>

StartupSteps == {"reset_running", "read_depth", "select_pending", "hydrate"}
RecoverSteps == {"read_status", "mark_pending", "push_recovered", "dlq_persist", "dlq_push",
                 "delete_queue"}
ScanSteps    == {"scan_queues", "scan_heartbeats", "pick_worker", "release"} \union RecoverSteps
MonitorSteps == {"down", "asleep"} \union StartupSteps \union ScanSteps

Scanning(m)   == monitorAt[m] \in ScanSteps
Recovering(m) == monitorAt[m] \in RecoverSteps

\* Monitors that came up on an empty database before the first submission.
MonitorInit ==
  /\ monitorAt = [m \in Monitors |-> "asleep"]
  /\ rows = [m \in Monitors |-> {}]
  /\ suspects = [m \in Monitors |-> {}]
  /\ target = [m \in Monitors |-> Nobody]
  /\ orphans = [m \in Monitors |-> <<>>]

MonitorTypeOK ==
  /\ monitorAt \in [Monitors -> MonitorSteps]
  /\ rows \in [Monitors -> SUBSET QueuePayload]
  /\ suspects \in [Monitors -> SUBSET Workers]
  /\ target \in [Monitors -> Workers \union {Nobody}]
  /\ orphans \in [Monitors -> Seq(QueuePayload)]
  /\ \A m \in Monitors : Recovering(m) => target[m] # Nobody
  /\ \A m \in Monitors : monitorAt[m] \in RecoverSteps \ {"delete_queue"} => orphans[m] # <<>>
  /\ \A m \in Monitors :
       monitorAt[m] \in {"mark_pending", "push_recovered"} => ~Exhausted(Head(orphans[m]))

MonitorGoto(m, point) == monitorAt' = [monitorAt EXCEPT ![m] = point]

\* The process exits and forgets; the lock it may hold stays in Redis.
Exits(m) ==
  /\ MonitorGoto(m, "down")
  /\ rows' = [rows EXCEPT ![m] = {}]
  /\ suspects' = [suspects EXCEPT ![m] = {}]
  /\ target' = [target EXCEPT ![m] = Nobody]
  /\ orphans' = [orphans EXCEPT ![m] = <<>>]

MonitorProceeds(m, point) == MonitorGoto(m, point) /\ UNCHANGED <<rows, scanVars>>

\* The catch of runReaperScan: whatever the scan had left is dropped.
ScanFails(m) == MonitorProceeds(m, "release")

(***************************************************************************)
(* bootstrap. An error before the first scan ends the process.             *)
(***************************************************************************)
StartMonitor(m) ==
  /\ monitorAt[m] = "down"
  /\ MonitorProceeds(m, "reset_running")
  /\ Undisturbed
  /\ UNCHANGED <<dbVars, redisVars>>

\* Every RUNNING row, whoever runs it.
ResetRunning(m) ==
  /\ monitorAt[m] = "reset_running"
  /\ Call("db_error",
          status' = [j \in Jobs |-> IF status[j] = "RUNNING" THEN "PENDING" ELSE status[j]],
          UNCHANGED status,
          MonitorProceeds(m, "read_depth"), Exits(m))
  /\ UNCHANGED <<retryCount, createdAt, results, redisVars>>

MonitorReadDepth(m) ==
  /\ monitorAt[m] = "read_depth"
  /\ \/ Undisturbed /\ MonitorProceeds(m, IF pending = <<>> THEN "select_pending" ELSE "asleep")
     \/ Disrupted("redis_error") /\ Exits(m)
  /\ UNCHANGED <<dbVars, redisVars>>

SelectPending(m) ==
  LET selected == {Entry(j, retryCount[j]) : j \in Rows("PENDING")}
  IN  /\ monitorAt[m] = "select_pending"
      /\ \/ /\ Undisturbed
            /\ rows' = [rows EXCEPT ![m] = selected]
            /\ MonitorGoto(m, IF selected = {} THEN "asleep" ELSE "hydrate")
            /\ UNCHANGED scanVars
         \/ Disrupted("db_error") /\ Exits(m)
      /\ UNCHANGED <<dbVars, redisVars>>

\* ORDER BY created_at: the oldest row is pushed first.
Hydrate(m) ==
  /\ monitorAt[m] = "hydrate"
  /\ \E row \in rows[m] :
       LET rest == rows[m] \ {row}
       IN  /\ \A other \in rest : createdAt[row.job] <= createdAt[other.job]
           /\ Call("redis_error", EnqueuePending(row), UNCHANGED pending,
                   /\ rows' = [rows EXCEPT ![m] = rest]
                   /\ MonitorGoto(m, IF rest = {} THEN "asleep" ELSE "hydrate")
                   /\ UNCHANGED scanVars,
                   Exits(m))
  /\ UNCHANGED <<dbVars, processing, deadLetter, completion, heartbeat, reaperLock>>

(***************************************************************************)
(* runReaperScan: the lock, the two scans, the workers to recover. An error*)
(* of SET or EVAL itself is handled nowhere and ends the process.          *)
(***************************************************************************)
\* Mutant: SET without NX.
SeizeLock(m) ==
  /\ monitorAt[m] = "asleep"
  /\ Call("redis_error", reaperLock' = m, UNCHANGED reaperLock,
          MonitorProceeds(m, "scan_queues"), Exits(m))
  /\ UNCHANGED <<dbVars, queueVars, completion, heartbeat>>

AcquireLock(m) ==
  /\ monitorAt[m] = "asleep" /\ reaperLock = Nobody
  /\ Call("redis_error", reaperLock' = m, UNCHANGED reaperLock,
          MonitorProceeds(m, "scan_queues"), Exits(m))
  /\ UNCHANGED <<dbVars, queueVars, completion, heartbeat>>

\* Redis keeps no empty list, so only the queues with an entry are found.
ScanQueues(m) ==
  /\ monitorAt[m] = "scan_queues"
  /\ \/ /\ Undisturbed
        /\ suspects' = [suspects EXCEPT ![m] = {w \in Workers : processing[w] # <<>>}]
        /\ MonitorGoto(m, "scan_heartbeats")
        /\ UNCHANGED <<rows, target, orphans>>
     \/ Disrupted("redis_error") /\ ScanFails(m)
  /\ UNCHANGED <<dbVars, redisVars>>

\* Mutant: every worker with a queue is taken for dead.
AllSuspects(m) == suspects[m]

DeadWorkers(m) == {w \in suspects[m] : ~heartbeat[w]}

ScanHeartbeats(m) ==
  LET dead == DeadWorkers(m)
  IN  /\ monitorAt[m] = "scan_heartbeats"
      /\ \/ /\ Undisturbed
            /\ suspects' = [suspects EXCEPT ![m] = dead]
            /\ MonitorGoto(m, IF dead = {} THEN "release" ELSE "pick_worker")
            /\ UNCHANGED <<rows, target, orphans>>
         \/ Disrupted("redis_error") /\ ScanFails(m)
      /\ UNCHANGED <<dbVars, redisVars>>

\* Mutant: the queue is deleted as it is read.
PickAndDelete(m) ==
  /\ monitorAt[m] = "pick_worker"
  /\ Undisturbed
  /\ \E w \in suspects[m] :
       /\ suspects' = [suspects EXCEPT ![m] = @ \ {w}]
       /\ target' = [target EXCEPT ![m] = w]
       /\ orphans' = [orphans EXCEPT ![m] = processing[w]]
       /\ MonitorGoto(m, IF processing[w] = <<>> THEN "delete_queue" ELSE "read_status")
       /\ processing' = [processing EXCEPT ![w] = <<>>]
  /\ UNCHANGED <<rows, dbVars, pending, deadLetter, completion, heartbeat, reaperLock>>

\* LRANGE of the whole queue. One found empty is deleted without more ado.
PickWorker(m) ==
  /\ monitorAt[m] = "pick_worker"
  /\ \/ /\ Undisturbed
        /\ \E w \in suspects[m] :
             /\ suspects' = [suspects EXCEPT ![m] = @ \ {w}]
             /\ target' = [target EXCEPT ![m] = w]
             /\ orphans' = [orphans EXCEPT ![m] = processing[w]]
             /\ MonitorGoto(m, IF processing[w] = <<>> THEN "delete_queue" ELSE "read_status")
        /\ UNCHANGED rows
     \/ Disrupted("redis_error") /\ ScanFails(m)
  /\ UNCHANGED <<dbVars, redisVars>>

ReleaseLock(m) ==
  /\ monitorAt[m] = "release"
  /\ Call("redis_error",
          reaperLock' = IF reaperLock = m THEN Nobody ELSE reaperLock, UNCHANGED reaperLock,
          /\ MonitorGoto(m, "asleep")
          /\ suspects' = [suspects EXCEPT ![m] = {}]
          /\ target' = [target EXCEPT ![m] = Nobody]
          /\ orphans' = [orphans EXCEPT ![m] = <<>>]
          /\ UNCHANGED rows,
          Exits(m))
  /\ UNCHANGED <<dbVars, queueVars, completion, heartbeat>>

(***************************************************************************)
(* recoverJobsFromDeadWorker, entry by entry.                              *)
(***************************************************************************)
Orphan(m) == Head(orphans[m])

NextOrphan(m) ==
  /\ orphans' = [orphans EXCEPT ![m] = Tail(@)]
  /\ MonitorGoto(m, IF Tail(orphans[m]) = <<>> THEN "delete_queue" ELSE "read_status")
  /\ UNCHANGED <<rows, suspects, target>>

\* Mutant: no job is skipped.
NeverSettled(m) == FALSE

Settled(m) == IsTerminalStatus(status[Orphan(m).job])

ReadStatus(m) ==
  /\ monitorAt[m] = "read_status"
  /\ \/ /\ Undisturbed
        /\ IF Settled(m)
             THEN NextOrphan(m)
             ELSE MonitorProceeds(m, IF Exhausted(Orphan(m)) THEN "dlq_persist" ELSE "mark_pending")
     \/ Disrupted("db_error") /\ ScanFails(m)
  /\ UNCHANGED <<dbVars, redisVars>>

\* Mutant: the UPDATE is not awaited, and has no effect before the LPUSH.
MarkUnawaited(m) ==
  /\ monitorAt[m] = "mark_pending"
  /\ MonitorProceeds(m, "push_recovered")
  /\ Undisturbed
  /\ UNCHANGED <<dbVars, redisVars>>

MarkPending(m) ==
  /\ monitorAt[m] = "mark_pending"
  /\ Call("db_error",
          MarkForRetry(Orphan(m).job, Orphan(m).retry + 1), UNCHANGED <<status, retryCount>>,
          MonitorProceeds(m, "push_recovered"), ScanFails(m))
  /\ UNCHANGED <<createdAt, results, redisVars>>

PushRecovered(m) ==
  /\ monitorAt[m] = "push_recovered"
  /\ Call("redis_error",
          EnqueuePending(Entry(Orphan(m).job, Orphan(m).retry + 1)), UNCHANGED pending,
          NextOrphan(m), ScanFails(m))
  /\ UNCHANGED <<dbVars, processing, deadLetter, completion, heartbeat, reaperLock>>

MonitorDlqPersist(m) ==
  /\ monitorAt[m] = "dlq_persist"
  /\ Call("db_error", DeadLetterInDb(Orphan(m).job), UNCHANGED <<status, results>>,
          MonitorProceeds(m, "dlq_push"), ScanFails(m))
  /\ UNCHANGED <<retryCount, createdAt, redisVars>>

\* The reaper's dead letters are not announced: no completion marker.
MonitorDlqPush(m) ==
  /\ monitorAt[m] = "dlq_push"
  /\ Call("redis_error", deadLetter' = LPush(deadLetter, Orphan(m)), UNCHANGED deadLetter,
          NextOrphan(m), ScanFails(m))
  /\ UNCHANGED <<dbVars, pending, processing, completion, heartbeat, reaperLock>>

\* DEL, whatever the queue holds by now.
DeleteQueue(m) ==
  /\ monitorAt[m] = "delete_queue"
  /\ Call("redis_error",
          processing' = [processing EXCEPT ![target[m]] = <<>>], UNCHANGED processing,
          MonitorProceeds(m, IF suspects[m] = {} THEN "release" ELSE "pick_worker"),
          ScanFails(m))
  /\ UNCHANGED <<dbVars, pending, deadLetter, completion, heartbeat, reaperLock>>

(***************************************************************************)
(* Death of the process, and of the lock.                                  *)
(***************************************************************************)
MonitorCrash(m) ==
  /\ monitorAt[m] # "down"
  /\ Disrupted("monitor_crash")
  /\ Exits(m)
  /\ UNCHANGED <<dbVars, redisVars>>

\* PX: by itself when its holder is gone, and under a holder whose scan takes
\* longer than the time to live.
LockExpires ==
  /\ reaperLock # Nobody
  /\ IF Scanning(reaperLock) THEN Disrupted("lock_expiry") ELSE Undisturbed
  /\ reaperLock' = Nobody
  /\ UNCHANGED <<monitorVars, dbVars, queueVars, completion, heartbeat>>

Startup(m) == StartMonitor(m) \/ ResetRunning(m) \/ MonitorReadDepth(m) \/ SelectPending(m)
                \/ Hydrate(m)
Scan(m)    == AcquireLock(m) \/ ScanQueues(m) \/ ScanHeartbeats(m) \/ PickWorker(m) \/ ReleaseLock(m)
Recover(m) == ReadStatus(m) \/ MarkPending(m) \/ PushRecovered(m) \/ MonitorDlqPersist(m)
                \/ MonitorDlqPush(m) \/ DeleteQueue(m)

MonitorNext ==
  \/ \E m \in Monitors : Startup(m) \/ Scan(m) \/ Recover(m) \/ MonitorCrash(m)
  \/ LockExpires
=============================================================================
