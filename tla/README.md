# Verification of the code execution platform

TLA+ specifications of the distributed code execution platform, the TLC
configurations that check them, and theorems checked by TLAPS. The reference is
the code under `src/`; `PROJECT.json` names the source lines of every
definition.

## 1. The system

| Part | Source | State it keeps | Operations |
|---|---|---|---|
| Contracts | `shared/contracts/src/index.ts` | none | statuses, transition table, queue entries, key names, limits |
| PostgreSQL | `infra/schema.sql` | `submissions`, `submission_results` | statements and transactions of the services |
| Redis | used by all services | pending, processing and dead letter lists, heartbeats, reaper lock, streams | LPUSH, BRPOPLPUSH, LREM, LRANGE, DEL, SET EX/PX/NX, XADD, PUBLISH |
| API gateway | `services/api-gateway` | open sockets by job | POST and GET submissions, dead letter routes, stream replay and fan-out |
| Execution worker | `services/execution-worker/src/index.ts` | current entry, `shouldRun` | queue loop, requeue with backoff, dead letter, heartbeat, SIGTERM |
| Sandbox | `services/execution-worker/src/sandbox.ts` | container, timer, accumulated output | docker rm, run, kill; output caps; stream chunks |
| System monitor | `services/system-monitor/src` | what one scan has read | startup recovery, reaper scan |
| Web client | `apps/web/src` | status, socket, timers of a run, list of recent jobs | run, stream, fallback poll, finalize |
| Metrics, logger, runner images | `shared/metrics`, `shared/logger`, `runners` | counters | nothing reads them back |

A job travels like this. The gateway inserts a `PENDING` row and pushes an entry
(`jobs:queue:pending`). A worker moves the oldest entry atomically to its own
processing list, claims the row (`UPDATE ... WHERE status = PENDING`), runs the
code in a container named after the job, commits result and status in one
transaction, removes the entry and publishes `EXECUTION_COMPLETE`. An error
anywhere in that loop goes to `requeueWithBackoff`: a new row state, a new entry
with one more retry, and the removal of the old one, or the dead letter queue
when no retry is left. The monitor scans every ten seconds, under a lock in
Redis, for processing lists whose worker has no heartbeat, and requeues what it
finds there. When a monitor starts it resets `RUNNING` rows and, if the queue is
empty, pushes every `PENDING` row again.

No transaction spans PostgreSQL and Redis, and every process may die between two
calls. That is where the difficulty is:

* *Crashes*: a job must be in some queue that somebody will read, at every
  moment from the 201 on, whichever process dies.
* *Interleavings*: a claim, a recovery and a restart of the monitor act on the
  same row; the reaper decides on heartbeats it read earlier and deletes a queue
  it read earlier.
* *Lost replies*: a call that failed may have taken effect. The code treats the
  two cases alike.
* *Expiry*: heartbeats (15 s) and the reaper lock (15 s) are leases without
  fencing.
* *Boundaries*: the last retry takes another path than the others, in another
  order.

* *Caps*: output is limited in bytes, at two points, while it is read in pieces,
  cut in characters, and killed for by a command that may fail.
* *The browser*: socket, timer, poll and the replies to reads all set the same
  status, and any of them may belong to an earlier run.

The list of hazards, each with its line, is in `PROJECT.json`.

## 2. Modules

```
Contracts <- Store <- Gateway --\
     ^         ^---- Worker  ----+- Platform <- MCPlatform (TLC)
     |         ^---- Monitor  --/      ^  |
     |                                 |  '-- instantiates JobLifecycle
     '-- JobLifecycle                  '-- PlatformProofs <- SafetyProofs
                                             <- CustodyProofs <- ExecutionProofs

LogStream <- StreamProofs                         one job's output, to its clients

SandboxOutput <- MCSandbox (TLC) <- OutputProofs  one container, its output and verdict
                 |
                 '--> Chunking                    how its text is cut for the stream

DeadLetters <- MCDeadLetters (TLC)                the dead letter routes
     |  ^----- LetterProofs
     '-- instantiates DeadLetterBox

SubmissionUi <- UiProofs                          the browser
```

**Contracts** has the statuses, the declared transitions, the entries of a queue
and the error categories. An entry is a job and a retry count; code, language,
user and time ride along unread. `SYNTAX_ERROR` is folded into `RUNTIME_ERROR`,
which differs only in wording.

**Store** has the two tables, the lists, the heartbeats, the lock and, for each
job, whether its completion marker was published. `Call` is one awaited call: it
goes as hoped, or it fails, with or without effect. A *disruption* (a crash, an
expiry under a live holder, a failed call) spends one of `MaxDisruptions`, and
only the kinds in `Disruptions` happen; the configurations choose them.

**Gateway** is the handler of `POST /submissions`, one variable `post` for where
the request of each job stands. `Submit`, `Enqueue`, `ReadDepth` are INSERT, LPUSH and LLEN;
`MarkFailed` and `RecordFailure` are the two statements of its catch.
The LLEN that feeds a gauge sits in the same `try` as the LPUSH, so its
failure takes the path of a submission that was not enqueued.

**Worker** is `processQueue`. `workerAt[w]` names the call the worker awaits, so
that every `await` is a point where others may act.

| Action | Code in `execution-worker/src` |
|---|---|
| `StartWorker`, `SendHeartbeat`, `HeartbeatExpires` | `sendHeartbeat`, `EX 15` |
| `Pop`, `PopTimesOut` | BRPOPLPUSH with its timeout of two seconds |
| `Claim`, `Check`, `GiveBack`, `Discard` | the claim, and the four ways on when it is rejected |
| `RemoveStaleContainer`, `StartContainer`, `ContainerExits`, `OrphanExits` | `runInSandbox`; containers outlive their worker |
| `Persist`, `Acknowledge`, `PublishCompletion` | transaction, LREM, marker |
| `Requeue`, `PushRetry`, `RemoveOld` | `requeueWithBackoff` with a retry left |
| `RemoveExhausted`, `DlqPersist`, `DlqPush`, `DlqPublish` | the same without one, and `sendToDLQ` |
| `Sigterm`, `WorkerCrash` | SIGTERM; death of the process |

A worker has a fresh uuid at each start, so a restarted worker is another member
of `Workers` that has not started yet. Its container stays when it dies, as the timer that
would have killed it dies too. All workers share one docker daemon.

**Monitor** is `recoverOrphanedJobsOnStartup` (`ResetRunning`,
`MonitorReadDepth`, `SelectPending`, `Hydrate`) and `runReaperScan`
(`AcquireLock`, `ScanQueues`, `ScanHeartbeats`, `PickWorker`, `ReadStatus`,
`MarkPending`, `PushRecovered`, `MonitorDlqPersist`, `MonitorDlqPush`,
`DeleteQueue`, `ReleaseLock`). An error within a scan drops the rest of it and
releases the lock; an error of SET or EVAL themselves is a rejected promise that
nobody handles, and ends the process (`Exits`).

**Platform** interleaves the three, and has the properties and the fairness.

**JobLifecycle** is the abstract specification: the row of a job goes from
`PENDING` along the transitions of the contracts, is put back at most `MaxRetry`
times, counting each, and is abandoned only at the last. Both variables are the
columns of the table, so the refinement mapping of `ImplementsLifecycle` is the
identity on them and hides everything else.

**MCPlatform** has the constants of the configurations.

**LogStream** follows the output of one execution to the clients that watch it.
It stands beside Platform: to Platform the stream of a job is whether its
completion marker was published, to LogStream the job is whether it is decided.

| Action | Code |
|---|---|
| `AddChunk`, `PublishChunk` | `publishChunk` in `sandbox.ts`: XADD, then PUBLISH, each link of the chain behind the one before; an error skips the rest of its link |
| `Commit` | the chain is awaited, then the transaction |
| `AddMarker`, `PublishMarker`, `StreamExpires` | `publishSystemChunk`: XADD, PUBLISH, EXPIRE |
| `Connect`, `ReadStatus`, `ReadStream`, `Replay`, `ReplayFails` | `GET /stream/:jobId`: the socket joins `activeStreams`, SELECT, XRANGE, what follows its reply, the catch |
| `Relay` | the `pmessage` handler: to every open socket of the job |
| `Close`, `ClientLeaves` | the timer of 100 ms that either of the two starts; the client |

A chunk is a number, in the order the program wrote them. The marker is 0. XADD with
`MAXLEN ~` may keep more than the limit, so it either trims to `Retention` or
does not trim. A socket closed before its replay was sent is `cut`, one closed
after it `closed`: the two differ in what its client may have missed. A client that
leaves, or whose replay fails, is forgotten (`ForgetAll`): nothing is promised to it any more.

**SandboxOutput** looks into the one step that `ContainerExits` of Worker is: it
is `runInSandbox` from `docker run` on. A text is its length in bytes.

| Action | Code in `sandbox.ts` |
|---|---|
| `SpawnContainer`, `ContainerStarts`, `SpawnFails` | `spawn('docker', ['run', ...])`, what docker makes of it, the error event |
| `Timeout` | `timeoutTimer` |
| `StreamText`, `ExceedLimit`, `DropOutput` | the three ways through `handleOutput`, with `appendWithinCap` |
| `ContainerExits`, `KillLands`, `KillFails` | the program, the OOM killer, and the `docker kill` of either reason, which may land after the exit, find no container, or fail |
| `Close`, `Resolve` | the close event; the promise after `publishQueue` |

`Verdict` is what `processQueue` makes of the result. `dropped` records that text
was thrown away, which the code does not know of itself. A kill may fail at any time, a
program may run for ever, and output may still be read after a kill.

**Chunking** is `splitForStream`, on texts of UTF-16 units of one byte, of three,
and of surrogate pairs of four bytes that a cut may divide. `MCSandbox` puts it
beside SandboxOutput and checks it on every text that fits under the stream cap.

**DeadLetters** has `DELETE /dlq/:jobId` as the two calls it is made of
(`ReadAll`, `RemoveEntry`; `NotFound` is the 404), filings by anybody, and a
client that pages through `GET /dlq` (`StartReading`, `ReadPage`). Entries carry the time of
their filing and are taken to be distinct, so that the removal by value is the removal
of a number. The `catch` for entries that do not parse also takes an LREM that
fails. **DeadLetterBox** is what the routes promise: a deletion takes one letter of the
job it names, atomically, or is answered "deleted" because another was faster, or fails. It is answered
"not found" only when every letter that was there when the request came in is gone (`askedAt`), or when a
call of that same request failed (`failed`), as then the letter may be gone, or passed over, without an answer.
**MCDeadLetters** has the constants of the run.

**SubmissionUi** is the hook `useSubmission` with `openJobStream`, and the effect
of `App` that keeps the list of recent jobs. Every callback is a step, every reply to a GET another
(`Poll` and `SocketClosed` send one, `PollReply` and `FinalReply` take it).
References (`closeStreamRef`, `fallbackTimerRef`, `pollIntervalRef`) and what they refer to are
apart, as in the code a timer whose reference was overwritten goes on. The platform
is reduced to `JobAdvances` and `JobRetried` (a failed attempt, a crash or a restart takes the row from `RUNNING`
back to `PENDING`), and the gateway to when it closes a socket, which is what LogStream shows
(`ClosedMeansDecided`, `SocketCloses`) but for the accidents it names. `mishaps` records which
of three things have happened: a socket that closed before its job was decided
(`early_close`), a reply that overtook an earlier one (`overtaken_reply`), a run that began
while something of an earlier one was still to come (`hasty_run`: the close of its
socket always is, unless the gateway closed it and the reply to the last read has come).

## 3. Properties and runs

The runs down to `SandboxFailures` use `MCPlatform`, where `MaxRetry` is 1 (3 in the code) except where
said: with 1 there is a first attempt, a retry and an exhausted one, and the code
compares the count with the limit only in `nextRetry > MAX_RETRY_COUNT`.

| Run | Instance | What may happen | What it shows |
|---|---|---|---|
| `CrashRecovery` | 2 jobs, 2 workers, 1 monitor | two workers crash or get SIGTERM | nine safety properties (no job is lost, run or filed twice, no claim is rejected, rows and queues agree), and `ImplementsLifecycle` |
| `CrashLiveness` | 1 job, 3 workers, 1 monitor | the same, twice | `AcceptedJobDecided` |
| `MonitorRestart` | 1 job, 2 workers, 2 monitors | three crashes of workers or monitors | `AcceptedJobHeld`, `ScanExclusive`, `RejectedForAnother` |
| `EveryDisruption` | 1 job, 2 workers, 1 monitor | any one disruption | `TypeOK`, `ResultComesFirst` |
| `DatabaseErrors` | 1 job, 2 workers, 1 monitor, `MaxRetry` 2 | five failed calls to PostgreSQL, or deaths of the gateway | `QueueAgreesWithRows`, `ResultAgreesWithStatus` |
| `SandboxFailures` | 1 job, 2 workers, 1 monitor | three sandboxes that fail to start | `DeadLettersAgree`, `ImplementsLifecycle`, `AcceptedJobDecided`, `DecisionAnnounced` |
| `StreamDelivery` | 2 clients, 2 chunks, retention 1 | one failed XADD, PUBLISH or replay, or a marker nobody hears | `NothingSkipped`, `ClosedMeansDecided`, `ToldInOrder`, `SocketCloses` |
| `SandboxOutput` | caps of 2 and 8 bytes, reads of up to 4, chunks of 4 | every order of output, timer, limit, kills and exit; kills that fail | `NothingLostSilently`, `TruncationIsReal`, `VerdictNamesTheKiller`, `ChunksAreTheText`, `Settles` |
| `DeadLetters` | 2 jobs, 2 deletions, 3 filings, pages of one | one failed call of each deletion | `PagesMissNothing`, `ImplementsBox` |
| `SubmissionUi` | 2 runs, 2 reads of a poll under way | the job of the first run is retried; every mishap, failed reads, silent sockets | `PageShowsOneJob`, `CompletedIsTrue`, `OutcomeStays`, `UiSettles` |

*Nothing is lost.* `AcceptedJobHeld`: from the 201 to the decision a job is in
the pending queue, in a processing list, or in the hands of a process that is
about to push or bury it. `AcceptedJobDecided`: it is decided in the end.

*Nothing happens twice.* `SingleExecution`, `ContainerNameFree`,
`TerminalIsFinal` (an outcome is never replaced, a decided job never run again),
`ClaimNeverRejected` (while only workers fail, every claim finds its row, so the branch that gives entries back
is not taken), `RejectedForAnother` (where second entries of a job come about, a claim is rejected because the job is
decided or because another worker has it), `ScanExclusive`, `OnlyDeadRecovered`. What these two say against the documentation is told below.

*The stores agree.* `QueueAgreesWithRows` (an entry can be claimed as it stands),
`ResultAgreesWithStatus`, `DeadLettersAgree`, `MarkerMeansDecided`,
`ResultComesFirst`, `DecisionAnnounced`.

*The client sees it.* `NothingSkipped` (a socket closed after its replay was sent
every published chunk the stream holds), `ToldInOrder` (the replay comes in one block, and what is
live around it; each of the two is in order and repeats nothing, though a PUBLISH may have failed, the stream may have been trimmed
and the socket was registered before the stream was read),
`ClosedMeansDecided` (the client reads the submission when its socket closes, and
never again), `SocketCloses` (also without the marker, for those who connect after the decision). Across the two, chunks may come out of order, and twice:
`design-decisions.md` says that a late client replays and then subscribes, while the code
registers the socket first, so a live chunk can overtake the replay. That is the
price of skipping none. A chunk whose PUBLISH failed is seen by replays only,
one whose XADD failed by nobody, and a socket that is `cut` may have seen anything.

*Output is accounted for.* `NothingLostSilently`: what is stored is all that was
read, or is flagged as truncated. `ExceedLimit` and `DropOutput` throw text away
without setting the flag; the property holds because one of the accumulators must
have passed its cap by then, and that needs `MaxStream >= 2 * MaxResult + MaxRead`,
the assumption of the module (1 MB, 64 KB, and the 64 KB of a pipe, each byte of which may
become three). The run takes the smallest caps that satisfy it; with one byte less
the property fails. `TruncationIsReal` is the converse,
`VerdictNamesTheKiller` says how the end is reported, `ChunksAreTheText` that chunking
neither loses text nor exceeds its limit. `Settles`: the loop of a worker waits for ever only for a
container that the `docker kill` of the timer missed.

*Dead letters.* `ImplementsBox` is the refinement to DeadLetterBox, the mapping
the identity on the variables they share, and the requests with an error of their own for `failed`. `PagesMissNothing`: paging by offset
misses no more letters than were deleted meanwhile (it may repeat some). This
client stops at a short page; one that trusts `totalPages` can miss the last letter, as
LLEN and LRANGE are two calls.

*The page.* `PageShowsOneJob` and `CompletedIsTrue` hold unless a run was hasty,
`OutcomeStays` unless replies overtook each other or a run was hasty, `UiSettles` unless there was a mishap or
the socket fell silent after it had spoken. Each exception is needed, and each is a
behaviour of the hook:

* After a hasty run, the close of the old socket or the reply to an old read
  finalizes the old job: it clears the new run's timers and puts the old result on
  the new page, and its status into the history entry of the new job.
* When the reply of a poll arrives after a later one, the page goes back from
  COMPLETED to RUNNING, with the poll already cleared: busy for ever.
* A socket closed early (1011 after a failed replay, a gateway that restarts) has
  the page read the submission once. If it is RUNNING then, nothing reads it again; the poll
  that the error event may have started is cleared by the close event right after.
  The comment at `useSubmission.ts:42` speaks only of the read that fails.
* The poll is started only if no message came for three seconds. A socket that
  delivered one line and then loses the marker leaves the page busy.
* Outside of all properties: the history entry of a job that is still on the page
  becomes `submit_error` when the *next* POST fails, and a COMPLETED one becomes FAILED when
  the read after the close fails although a poll had shown the outcome.

*Bounds.* Two jobs share queues, lists and a scan; two workers race for a
claim and a third takes over when both are gone; a budget of two to five
disruptions reaches a disruption of the recovery from another one. `ShortQueue`
keeps `EveryDisruption` finite: a heartbeat that stays lapsed has each scan copy the
same entry again. Workers, jobs and monitors are interchangeable in safety runs, hence the
symmetry; liveness runs have none. In `StreamDelivery` two chunks and a retention of one
are enough for a trim, for a chunk between XADD and PUBLISH while another is on
the channel, and for a replay that is overtaken. In `SandboxOutput` an accumulator of two bytes can be
short, full to the byte, and cut, by a read that alone is longer than it. Texts of eight bytes against chunks of
four give up to three chunks, cuts through a surrogate pair, and characters that must be given up one after another. Two deletions of one job
and a third letter make one find what the other removed; a page of one is full or empty. Two
requests and three letters let each request meet a filing, a deletion by the other and a failure of its own. Two
runs are enough for anything an earlier run does to a later one, and two reads of a poll for one that is overtaken.
Streams, containers, requests and pages come to an end, so these four runs do not
check for deadlock. The services of the other runs never stop, and those runs do.

*Fairness.* `FairSpec` gives weak fairness to each process that lives (its
next await resolves), to the interval of a heartbeat, to the expiry of the keys of dead holders
and to the end of a container its worker waits for, whose timer kills it after five seconds (if `docker kill`
works). A client need not submit; a container whose
worker is dead need not end; no disruption has to happen. A request once begun
goes on. In `LogStream` the worker, the `pmessage` handler and the handler of an
open socket go on and timers fire; nobody need connect, and a stream need not expire. Failed
calls are bounded by `MaxErrors`, and none of them is owed. In SandboxOutput timers fire and
docker answers, by doing what it was asked or by failing; the program
need not end nor write. In SubmissionUi requests are answered or rejected, timers fire, jobs are decided
(`AcceptedJobDecided`), a socket of a decided job is closed unless the marker was lost (`SocketCloses`), and
a poll that finds the outcome again and again is not refused every time (the strong fairness of `PollReply`).

### What holds under which disruption

The properties were written for what the code protects against, and they are
sensitive to the kind of disruption. Changing `Disruptions` in a configuration
reproduces the following.

| Kind | What still holds | What fails |
|---|---|---|
| worker crash, SIGTERM | everything in `CrashRecovery`, and liveness while a worker is left | `DecisionAnnounced`: a crash between COMMIT and PUBLISH leaves a decided job without a marker, and the reaper publishes none |
| spawn error | everything | |
| spawn error and worker crash | `ScanExclusive`, `OnlyDeadRecovered`, `ResultAgreesWithStatus` | `AcceptedJobHeld` (a crash after the LREM of the last attempt); `QueueAgreesWithRows`, `SingleExecution` (a crash between the LPUSH of a retry and the LREM of the old entry leaves two, the second with three workers), and with three workers and `MaxRetry` 2 `ClaimNeverRejected` |
| gateway crash | everything that is said of accepted jobs | a row whose LPUSH was never sent stays `PENDING` until a monitor starts with an empty queue |
| monitor crash | `AcceptedJobHeld`, `RejectedForAnother`, `ResultAgreesWithStatus`, `TerminalNotRequeued`, `MarkerMeansDecided`, `DeadLettersAgree`, `OnlyDeadRecovered`, `ScanExclusive` | `SingleExecution`, `QueueAgreesWithRows`, `ClaimNeverRejected`, `ContainerNameFree`, `TerminalIsFinal`, `ImplementsLifecycle`: the restart resets rows of live workers |
| monitor crash and worker crash | `AcceptedJobHeld`, `RejectedForAnother`, `ResultAgreesWithStatus`, `OnlyDeadRecovered`, `ScanExclusive` | those, and `TerminalNotRequeued` and `MarkerMeansDecided`: the reaper puts back a job that a second execution has decided meanwhile; with `MaxRetry` 0, or with a spawn error instead, `DeadLettersAgree`: it files one that the other execution then completes |
| database error | `QueueAgreesWithRows`, `ResultAgreesWithStatus`, `ScanExclusive` | the finality of an outcome (a COMMIT whose reply is lost is tried again), liveness; with a worker crash also `QueueAgreesWithRows` and `ClaimNeverRejected`, but not `RejectedForAnother` |
| lapsed heartbeat | `ScanExclusive`, `ResultComesFirst` | `AcceptedJobHeld` (DEL of a list that a live worker refilled), `OnlyDeadRecovered`, `ClaimNeverRejected` |
| expired lock | `OnlyDeadRecovered`, `ResultComesFirst`; with a worker crash `RejectedForAnother` | `ScanExclusive`, `SingleExecution`; with a worker crash `ClaimNeverRejected` |
| Redis error | `TypeOK`, `ResultComesFirst`, `ScanExclusive` | nearly everything else, `ClaimNeverRejected` and `RejectedForAnother` included; one is `ResultAgreesWithStatus`: LPUSH succeeds, LLEN fails, and the gateway marks `FAILED` a job that a worker runs |

### Disagreements with the documentation

Two runs check one property each, taken from a document, and TLC finds it violated. The
quotes are in `PROJECT.json`.

* `FindRequeuedAfterCommit` (`TerminalNotRequeued`): after COMMIT a failed LREM or
  PUBLISH falls into the catch, which sets a decided row back to `PENDING`.
* `FindJobLost` (`AcceptedJobHeld`, `MaxRetry` 0): at the last attempt the entry is removed
  before the dead letter is committed.

Three more, found in the same way with other values of `Disruptions`, have no run of their own:

* One monitor crash, `MaxRetry` 1: the restart sets the row of a job that a live
  worker is running back to `PENDING`. The comment at
  `system-monitor/src/index.ts:26-29` calls the reset safe and leaves live workers to the reaper. What is safe about it is proved as `RestartsKeepWord` (section 4).
* `SingleExecution` with three workers, two monitors, a worker crash and a lock expiry, `MaxRetry` 2: with a
  scan that outlasts its lock, two recoveries of one orphan lead to two executions at once. The comment at `reaper.ts:233-234`
  relies on the claim, but the second recovery resets the row first.
* `AcceptedJobDecided` with two database errors: a requeue that fails leaves the entry with a live worker, where
  no reaper looks. The log line at `execution-worker/src/index.ts:294` says that the reaper will retry.

And one where the code is better than its documentation says, so that the properties pass:

* *Rejected claims after a recovery.* The comment on the rejected claim (`execution-worker/src/index.ts:189-194`) says that a worker
  "can pop a recovered job from Redis before the reaper's own DB status update has committed", and
  `docs/failure-analysis/02-reaper-requeue-race-condition.md` that this goes on after the reaper was reordered: "the benchmark still occasionally
  lost a job after this change" (section 4), reordering "doesn't make it zero" (section 7), "reduces probability; it doesn't guarantee
  correctness" (section 8.3). For the code as it is this does not happen. `recoverJobsFromDeadWorker` awaits the UPDATE, a statement of its own that has
  committed when its promise resolves (`reaper.ts:198-204`), before it calls LPUSH (206), and so does `requeueWithBackoff`; a worker that pops the entry has
  it after the commit, in one database. An UPDATE that fails ends the scan before the LPUSH. A distributed transaction would be needed for both stores to change *at once*; that nobody sees
  the entry without the row needs only this order. `QueueAgreesWithRows` and `ClaimNeverRejected` show it in
  `CrashRecovery`, which is the case the documents are about, and are proved for every number of workers and crashes; their mutants forget half of the row, or let the UPDATE take effect
  too late (`MarkUnawaited`). The job the benchmark went on losing is explained by section 5 of the same document: the image ran a stale build.
* *What the branch is for.* A claim is rejected when there is a *second entry* of a job: after a restart of the monitor (reset and rehydration), an overlong scan,
  a crash in the middle of a requeue, a lapsed heartbeat, a lost reply. `RejectedForAnother` says so for crashes of workers and monitors, and is proved
  (`RejectedForAnotherSafe`): the job is decided, or another worker has an entry of it, and if that worker is dead, the reaper has still to push it. So the branch is
  needed, for another reason than its comment gives. Nor is the give-back always the "harmless extra queue hop" of section 4: if the row is `RUNNING` for a worker that is dead, a live worker
  pops, is rejected and pushes back the same entry, with no back-off, until the reaper comes.

Two Redis errors can take a decided job out of every queue: the LREM after COMMIT takes effect but its reply
is lost, the catch sets the row back to `PENDING`, and its LPUSH fails as well. The state space
with both errors takes more than four minutes, so this has no run either.

## 4. Proofs

Every invariant and action property of section 3 is a theorem; the liveness properties are not (see the end of this section).
The theorems about the platform hold for any sets of jobs, workers and monitors (finitely
many jobs), any `MaxRetry` and any number of disruptions; those about the stream for any set of
clients, any length of the output, any retention and any number of errors; those about the sandbox
for all caps that satisfy `OutputAssumption`; those about dead letters for any jobs, requests, filings,
page sizes and errors; those about the page for any number of runs and reads.

What a theorem about the platform leaves out it says as a hypothesis on the constant `Disruptions`, the set of
the kinds of failure that happen; the table in section 3 says which kind breaks what.

| Theorem | Module | Kinds of disruption it allows |
|---|---|---|
| `TypeOK`, `ResultComesFirst` | `PlatformProofs`, `SafetyProofs` | all |
| `ScanExclusive` | `SafetyProofs` | all but `lock_expiry` |
| `OnlyDeadRecovered` | `SafetyProofs` | all but `heartbeat_lapse` and `redis_error` |
| `ResultAgreesWithStatus` | `CustodyProofs` | all but `redis_error` |
| `AcceptedJobHeld` | `CustodyProofs` | the deaths of workers (crash, SIGTERM), gateways and monitors, sandboxes that fail (`OnlyProcessesFail`) |
| `RejectedForAnother` | `CustodyProofs` | the same without failing sandboxes |
| `SingleExecution`, `QueueAgreesWithRows`, `ClaimNeverRejected`, `TerminalIsFinal`, `TerminalNotRequeued`, `MarkerMeansDecided`, `ContainerNameFree`, `DeadLettersAgree`, `ImplementsLifecycle` | `ExecutionProofs` | the same without the deaths of monitors (`OnlyWorkersFail`) |
| `SingleExecution`, `QueueAgreesWithRows`, `ClaimNeverRejected`, `ContainerNameFree`, `MarkerMeansDecided`, `DeadLettersAgree` | `ExecutionProofs` (`FailedCallsKeepOrder`, `FailedCallsKeepWord`) | instead of the ends of workers: failing calls to PostgreSQL and docker, deaths of gateways, expiry of the lock (`OnlyCallsFail`) |
| `MarkerMeansDecided`, `TerminalNotRequeued`, and that no retry is spent | `ExecutionProofs` (`RestartsKeepWord`, `RestartsRequeueNothing`) | deaths of monitors and gateways, SIGTERM of workers: a rolling restart (`OnlyRestarts`) |

The rows of `AcceptedJobHeld` and `SingleExecution` (the first one) have one more hypothesis, `RetriesOrCrashes`: workers crash or sandboxes fail, not both (a SIGTERM may
come with either). `TerminalNotRequeued` is what the run
`FindRequeuedAfterCommit` violates by an error of Redis.

### The platform

* `PlatformProofs`: lemmas about LPUSH, LREM, Tail and Front (they keep a sequence over its set;
  what they leave in it), and `THEOREM TypeCorrect == Spec => []TypeOK`. `TypeOK` is
  inductive as it stands, since its worker and monitor parts have the conjuncts
  that tie control to data: a busy worker has an entry and only a busy one does;
  a worker that pushes a retry, or a monitor that recovers an entry, holds one
  that is not exhausted; a recovering monitor has a target. Without them the
  range of `retryCount` and of the entries would not be preserved. One lemma for
  each group of actions, one case for each action.
* `SafetyProofs`, `ResultAlwaysFirst`. The strengthening `OutcomeInOrder` adds where processes stand: a worker past its
  transaction, or a process about to push a dead letter, has a result row, and
  one on the path of the dead letter holds an entry without a retry left. Results
  are never deleted, which carries the marker and the dead letters.
* `SafetyProofs`, `ScanExclusiveSafe`. The
  invariant `LockHeld` says that a scanning monitor owns the lock; `SET NX` and the
  owner check of the release script preserve it.
* `SafetyProofs`, `OnlyDeadRecoveredSafe`. The invariant says that a live worker has a heartbeat (`LifeSigns`), that a
  worker without one that has an entry has ended for good, and that so has every worker a
  scan has set aside and every target (`SuspectsGone`). It needs that no identity
  is reused: an ended worker never starts again.
* `CustodyProofs`, `AcceptedJobHeldSafe`. `AcceptedJobHeld` says that a job is *somewhere*, and a step that removes a copy
  preserves that only if another copy exists. The invariant has three parts. `Shape`: a worker's list holds the
  entry it works on and no other, and what a monitor works on is a copy of the list of its target, which by
  `SuspectsGone` nobody changes any more. `Issued`: no entry names a job whose request has not come that far. `Accounted`: each accepted job is `Kept`,
  that is decided, waiting, in a list *whose entry is not spent*, carried by a worker between two
  calls, or saved by a monitor. An entry is spent when what follows removes it, which by then the code has made safe: the row is decided, or
  a copy was pushed. The proof has a lemma for what each kind of process hands on to whom (`HandsOn`, `Passes`).
* `CustodyProofs`, `ResultAgreesWithStatusSafe`. `TablesAgree`: what decides a row writes the result in the same transaction, and the two
  statements of the gateway that do not (`NoCompensation`) are behind an error of Redis.
* `CustodyProofs`, `RejectedForAnotherSafe`. A claim is rejected on a row that is not `PENDING`, so what is to be shown is who is behind a row that says `RUNNING`. `RunningHeld`:
  a worker that executes the job, or a dead one that has left its entry to a reaper that has *not written the row yet* (`LeftIt`, `RowWritten`); from the UPDATE on the row
  is no longer `RUNNING`, unless somebody else has claimed it. With the order of `MarkPending` and `PushRecovered` turned round it would not be inductive. It needs `Shape` for the copy the reaper reads, `SuspectsGone`
  for a worker that dies (no recovery of it is under way), and `RowsThere` (a submitted job has a row). TLC checked both on the instance of `MonitorRestart` first.
* `ExecutionProofs`, `OnePlaceHolds`, the invariant that most theorems of this module follow from. `Exclusive` is the converse of `Accounted`: a
  job is in at most *one* of a request, the pending queue (once), a live worker, and the list of a dead one. `RowsFollow` says for each of these places what
  the row looks like: an entry that waits has a row `PENDING` with its retry count (`QueueAgreesWithRows`), a worker that claims likewise, one that
  executes has a row `RUNNING`, one past its transaction a decided one, and what a dead worker left is what its last call made of it, or
  what the reaper has made of that. Neither is inductive alone: that a recovery or a retry writes the row of nobody else's entry needs
  `Exclusive`, and that a claim succeeds, so that no entry is given back or discarded, needs `RowsFollow`.
  `NoRestart` is where monitor deaths are excluded: the reset of a restart rewrites the rows of live workers.
* `ContainerNameFreeSafe`: `Named` adds that without crashes the worker of a container waits for it, so that nobody else meets it;
  with crashes `docker rm` removes what a dead worker left, as by `RetriesOrCrashes` it does not fail then. `DeadLettersAgreeSafe`: `LettersInOrder` adds that who is about to push a letter has
  buried its job and that nobody has filed it before; a buried job stays so by `TerminalIsFinal`.
* `FailedCallsKeepOrder`, `FailedCallsKeepWord`. What `DatabaseErrors` checks, for all constants. After a COMMIT whose reply is lost a
  decided job is in the queue again, so `RowsFollow`, `TerminalIsFinal` and the refinement are false here. The invariant `Steady` asks less of rows
  (`CallRow`: of those that wait, are claimed or are about to be pushed) and keeps `Exclusive`, as no worker ends (`AllOnDuty`): an entry
  that a failed requeue leaves in the list of a live worker is read by nobody, and by `SuspectsGone` the monitors find nothing to recover.
  `Outcomes` says that a job that was announced or filed is `Closed`: no process has it any more, so that its row stays. TLC checked `Steady`
  first, with two jobs, two workers and three failures (4.3 million states).
* `RestartsKeepWord`, `RestartsRequeueNothing`. A restart of the monitor lets a job run twice at once (section 3), and the second
  outcome replaces the first. These two say what is left, also when workers and gateways are restarted with it: a decided job stays decided and is never put
  back, its marker stays true, no retry is counted and nothing is filed as dead. By `RecoveryExcludesRetry` the monitors have nothing to recover,
  as a worker that ended by SIGTERM left its list empty, and no worker is on the path of the catch (`NothingToRetry`); so the reset is the only one that writes `PENDING`, and
  it writes it to `RUNNING` rows. With one crash of a worker both are false.
* `ImplementsLifecycleSafe`: `Init` implies `Lifecycle!Init`, and `StepImplements` maps each step to a step of the lifecycle or a
  stutter: the claim to `Claim`, the UPDATE of a retry and of the reaper to a requeue that counts, the transactions
  to a decision or to an abandonment of the last attempt. The guards of the abstract steps come from `RowsFollow`.

### The stream, the sandbox, the dead letters, the page

* `StreamProofs`, `THEOREM ClosedMeansDecidedSafe`. Two invariants: `Orderly` says where
  the worker stands when the job is decided, and that the marker reaches stream and
  channel only after that, and the channel last; `ClosesAfterDecision` that each of the
  three things that close a socket (the status, a marker replayed, a marker
  relayed) implies the decision.
* `StreamProofs`, `THEOREM NothingSkippedSafe`. `NothingSkipped` says nothing of open sockets, so
  it is not inductive. `Delivery` says of every socket past its XRANGE where a
  known chunk is: sent, in the snapshot, or on the channel; and, once
  something closes the socket, no longer on the channel. A chunk becomes
  known by its PUBLISH, which comes before the decision, when by
  `ClosesAfterDecision` no socket is closing; and behind the marker the channel
  is empty. Both invariants were model-checked on the instance of `StreamDelivery` first.
* `StreamProofs`, `THEOREM ToldInOrderSafe` and `AtMostTwiceSafe`. What a client has received is not in order; where it comes from is. `SentInTurn`: the
  stream and the channel are in order, because the worker adds and publishes each message once and behind all that was heard, and what is on
  the channel was published. `ToldByBlocks`: the places of what a client was sent split into the block the replay filled and those filled live; both
  parts are in order, the block is empty until the replay, a snapshot is in order, and what was sent live comes before all that is
  on the channel still (`Past`). That a message comes at most twice follows: once in each part.
* `OutputProofs`, `THEOREM NothingLostSilentlySafe`, `TruncationIsRealSafe` (with `LimitMarkedLast`) and
  `VerdictNamesTheKillerSafe`. One inductive invariant, `OutputInv`: the types;
  `CapsInv`, that the two outputs together stay within the stream cap, that an accumulator holds its whole output until that passes the cap
  and at least the cap from then on, that truncation is flagged exactly then, and that
  past the stream limit it is flagged already (the arithmetic of the assumption); and
  `EndInv`, which ties what ended the container to exit code, flags and kills.
* `OutputProofs`, `THEOREM EveryTextCutWell` and `ChunksAreTheTextSafe`. TLC checks splitForStream on every text of up to eight bytes; the
  theorem is about every text over the alphabet of units, of any length, lone surrogates included, and every chunk size that `ChunkAssumption` allows. The recursion is written as
  recursive functions, and the provers know no induction rule, so a fact about all arguments is proved from the least one
  that would violate it (`LeastExists`, from the well-foundedness of `<`). A recursive function is a CHOOSE: that its equation has a solution is
  a lemma of its own (`ShrinkExists`, `FlattenExists`, `SplitExists`), by the same argument: solutions for all shorter arguments agree where they overlap, and are put together. `ChunkEndProperties`
  says that the loop that gives up a tenth at a time ends at one unit or more, and with a piece that fits; `RestIsShorter` that each chunk leaves
  less to cut; `FlattenCons` that a chunk put in front comes out in front.
* `LetterProofs`, `THEOREM RoutesImplementBox == Spec => ImplementsBox`: initial states map to initial states
  and each step to a step of the box or a stutter (reads, pages). It needs the invariant that what a request found and is no
  longer in the list is a letter of its job that was filed: that is when its
  LREM of nothing is the box's `DeletedBefore`; and for the 404 that a request none of whose calls failed has found, in its one read, each letter of its job that was there
  when it came in and is there still (`SeenInv`). `THEOREM NobodyElsesLetterSafe` follows from the same one.
* `LetterProofs`, `THEOREM PagesMissNothingSafe`. `PagesInv` counts the letters the reader should have been sent and was not, among
  those that stand before the place it reads next: no more than were deleted since it began. A filing moves letters away from that side, a deletion moves at most one letter
  over the border (places are distinct, `IndexFacts`) and counts for one, and behind a page that is not full there is nothing
  (`ShortPageIsLast`, by a bijection between letters and places).
* `UiProofs`, `THEOREM PageShowsOneJobSafe` and `CompletedIsTrueSafe`. `JobsKnown` says that timers, polls, sockets and reads belong to jobs that
  exist, and that a read that found COMPLETED is never wrong later. `OneRun`: unless a run was hasty, all of them
  belong to the job on the page, and none is left while a submission is under way. `THEOREM OutcomeStaysSafe`: `InTurn`
  says that a COMPLETED reply is followed by none that says less, that the read of `finalize` is the last and leaves no timer, poll or socket, and that on a page
  that shows an outcome whatever is still to come will find one too.
* `StreamTypeCorrect`, `OutputTypeCorrect`, `LettersTypeCorrect` and `UiTypeCorrect` are the type invariants of the four.

Only model-checked: the liveness properties
(`AcceptedJobDecided`, `DecisionAnnounced`, `SocketCloses`, `Settles`, `UiSettles`), which are out of the prover's reach as
is `ENABLED`.

## 5. Not modelled, and abstractions

* The backoff, the intervals and the time-outs have no duration. What they order
  relative to other processes is free, unless a disruption is spent on it.
* `SCAN` of all keys is one step. Entries always parse. XADD, PUBLISH and EXPIRE of
  the marker are one step in Platform, and three in LogStream.
* LogStream has one execution of one job, one gateway, and a subscriber that stays
  connected but for one message: a PUBLISH that fails, the marker's too, reaches nobody. Errors of the marker's
  XADD and EXPIRE are steps of Worker. The 1008 answer to an unknown job is left out.
* A client library that resends a command after a reconnect, and so pushes twice,
  is not modelled; a failed call is reported to the caller.
* SIGTERM of the monitor exits at once and is `MonitorCrash`.
* A monitor's next interval may begin while its scan still runs; that takes an expired lock, and
  the overlapping scan is then that of another member of `Monitors`.
* Monitors start on an empty database in `Init`; a start on any other state is a restart.
* SandboxOutput: times, and the peak memory line beyond whether it was read. A data event
  that ends inside a character or inside that line is decoded in two halves; texts begin after that.
* DeadLetters: entries parse, and no two are equal. `total` is not used by the client that reads.
* SubmissionUi: a job that fails is decided like one that completes, so that FAILED on the page is a read that failed. The view of an old job (one read, shown until the
  next run), `localStorage`, and the cut of the list at ten entries are left out.
* Not modelled at all: authentication and rate limit (a header comparison and a library's
  counter), the listing of `GET /submissions` (a COUNT and a SELECT nothing acts on), metrics,
  logs, the runner scripts, the benchmarks and load tests (clients of the platform).

## 6. Plan

Done: the platform (Contracts to JobLifecycle), LogStream, SandboxOutput with Chunking,
DeadLetters, SubmissionUi, and the proofs of section 4. What is left:

1. LogStream over two executions of one job (requeued after its stream was begun).
