---------------------------- MODULE SubmissionUi ----------------------------
(***************************************************************************)
(* The browser: the hook useSubmission with its socket, fallback timer,    *)
(* poll and reads, the history list that App keeps in step with it, and a  *)
(* user who may run the next program as soon as the button allows. Every   *)
(* callback is one step; the replies it waits for are another.             *)
(***************************************************************************)
EXTENDS SequencesExt

CONSTANTS
  LastRun,     \* bound on the runs; a run and its job have the same number
  MaxReads,    \* bound on the reads a poll has under way at once
  RetriedRuns  \* bound on the retries: the runs whose job may be retried, once

ASSUME UiAssumption == LastRun \in Nat /\ MaxReads \in Nat \ {0}

Runs == 1..LastRun
None == 0

VARIABLES
  status, jobId, result, output,    \* what the page shows: jobs, for the last two
  history,                          \* status of each job in the list of recent jobs
  closeStreamRef, fallbackTimerRef, pollIntervalRef,
  timers, polls,                    \* the fallback timers and polls that run
  sawFirstMessage,                  \* runs whose socket delivered a message
  lastRun,                          \* how often run was called
  submits,                          \* the POSTs under way
  reads,                            \* the GETs under way, as the server answered
  socket, silent,                   \* each socket, and those that say no more
  jobStatus,                        \* submissions.status of each job
  retried,                          \* jobs that were taken back to PENDING
  mishaps                           \* what went against the hook so far

pageVars  == <<status, jobId, result, output, history>>
refVars   == <<closeStreamRef, fallbackTimerRef, pollIntervalRef, timers, polls>>
callVars  == <<lastRun, submits, reads>>
wireVars  == <<socket, silent, jobStatus, retried>>
vars      == <<pageVars, refVars, sawFirstMessage, callVars, wireVars, mishaps>>

JobStatuses == {"none", "PENDING", "RUNNING", "COMPLETED"}
Outcomes    == {"COMPLETED", "FAILED"}
Mishaps     == {"early_close", "overtaken_reply", "hasty_run"}

UiTypeOK ==
  /\ status \in {"idle", "submitting", "submit_error", "PENDING", "RUNNING"} \union Outcomes
  /\ jobId \in Runs \union {None} /\ result \in Runs \union {None} /\ output \subseteq Runs
  /\ history \in [Runs -> {"none", "PENDING", "submit_error"} \union Outcomes]
  /\ {closeStreamRef, fallbackTimerRef, pollIntervalRef} \subseteq Runs \union {None}
  /\ timers \subseteq Runs /\ polls \subseteq Runs /\ sawFirstMessage \subseteq Runs
  /\ lastRun \in 0..LastRun /\ submits \subseteq Runs
  /\ reads \in Seq([by : {"finalize", "poll"}, job : Runs, found : JobStatuses])
  /\ socket \in [Runs -> {"none", "open", "closing", "closed"}] /\ silent \subseteq Runs
  /\ jobStatus \in [Runs -> JobStatuses] /\ retried \subseteq Runs
  /\ mishaps \subseteq Mishaps

Init ==
  /\ status = "idle" /\ jobId = None /\ result = None /\ output = {}
  /\ history = [r \in Runs |-> "none"]
  /\ closeStreamRef = None /\ fallbackTimerRef = None /\ pollIntervalRef = None
  /\ timers = {} /\ polls = {} /\ sawFirstMessage = {}
  /\ lastRun = 0 /\ submits = {} /\ reads = <<>>
  /\ socket = [r \in Runs |-> "none"] /\ silent = {}
  /\ jobStatus = [r \in Runs |-> "none"] /\ retried = {}
  /\ mishaps = {}

Busy == status \in {"submitting", "PENDING", "RUNNING"}

\* Nothing of an earlier run is left to happen.
AtRest ==
  /\ submits = {} /\ reads = <<>> /\ timers = {} /\ polls = {}
  /\ \A r \in Runs : socket[r] \in {"none", "closed"}

(***************************************************************************)
(* Parts of the callbacks.                                                 *)
(***************************************************************************)
\* Mutant: only the timer is cleared, and a poll goes on after the outcome.
ClearTimerOnly ==
  /\ timers' = timers \ {fallbackTimerRef} /\ polls' = polls
  /\ fallbackTimerRef' = None /\ pollIntervalRef' = None

ClearTimers ==
  /\ timers' = timers \ {fallbackTimerRef} /\ polls' = polls \ {pollIntervalRef}
  /\ fallbackTimerRef' = None /\ pollIntervalRef' = None

StartFallbackPoll(r) ==
  IF pollIntervalRef # None THEN UNCHANGED <<polls, pollIntervalRef>>
  ELSE polls' = polls \union {r} /\ pollIntervalRef' = r

GetSubmission(by, r) == reads' = Append(reads, [by |-> by, job |-> r, found |-> jobStatus[r]])

\* The list of recent jobs (the ten latest, in the code).
AddEntry(r) == history' = [history EXCEPT ![r] = "PENDING"]

UpdateStatus(r, s) == history' = [history EXCEPT ![r] = s]

\* Mutant: every status is kept.
KeepEveryStatus ==
  IF jobId' # None THEN UpdateStatus(jobId', status') ELSE UNCHANGED history

\* The effect of App: the entry of the job on the page follows its status once
\* that is an outcome, or an error of the next submission.
KeepHistory ==
  IF jobId' # None /\ status' \in Outcomes \union {"submit_error"}
  THEN UpdateStatus(jobId', status') ELSE UNCHANGED history

(***************************************************************************)
(* run                                                                     *)
(***************************************************************************)
\* Mutant: the result of the job before stays on the page.
RunOverResult ==
  /\ ~Busy /\ lastRun < LastRun
  /\ lastRun' = lastRun + 1 /\ submits' = submits \union {lastRun'}
  /\ socket' = [r \in Runs |-> IF r = closeStreamRef /\ socket[r] = "open"
                               THEN "closing" ELSE socket[r]]
  /\ ClearTimers
  /\ status' = "submitting" /\ output' = {} /\ UNCHANGED result
  /\ mishaps' = IF AtRest THEN mishaps ELSE mishaps \union {"hasty_run"}
  /\ UNCHANGED <<jobId, history, closeStreamRef, sawFirstMessage, reads, silent,
                 jobStatus, retried>>

Run ==
  /\ ~Busy /\ lastRun < LastRun
  /\ lastRun' = lastRun + 1 /\ submits' = submits \union {lastRun'}
  /\ socket' = [r \in Runs |-> IF r = closeStreamRef /\ socket[r] = "open"
                               THEN "closing" ELSE socket[r]]
  /\ ClearTimers
  /\ status' = "submitting" /\ output' = {} /\ result' = None
  /\ mishaps' = IF AtRest THEN mishaps ELSE mishaps \union {"hasty_run"}
  /\ UNCHANGED <<jobId, history, closeStreamRef, sawFirstMessage, reads, silent,
                 jobStatus, retried>>

Submitted(r) ==
  /\ r \in submits
  /\ submits' = submits \ {r}
  /\ jobStatus' = [jobStatus EXCEPT ![r] = "PENDING"]
  /\ jobId' = r /\ status' = "PENDING"
  /\ AddEntry(r)
  /\ fallbackTimerRef' = r /\ timers' = timers \union {r}
  /\ closeStreamRef' = r /\ socket' = [socket EXCEPT ![r] = "open"]
  /\ UNCHANGED <<result, output, pollIntervalRef, polls, sawFirstMessage, lastRun, reads,
                 silent, retried, mishaps>>

SubmitFails(r) ==
  /\ r \in submits
  /\ submits' = submits \ {r}
  /\ status' = "submit_error"
  /\ UNCHANGED <<jobId, result, output>> /\ KeepHistory
  /\ UNCHANGED <<refVars, sawFirstMessage, lastRun, reads, wireVars, mishaps>>

(***************************************************************************)
(* The timer, the poll and the socket. A socket that was closed delivers   *)
(* no message more, and its close event is still to come.                  *)
(***************************************************************************)
\* Mutant: the poll is taken for needless while the socket is open.
TimerTrustsSocket(r) ==
  /\ r \in timers
  /\ timers' = timers \ {r}
  /\ IF r \in sawFirstMessage \/ socket[r] = "open" THEN UNCHANGED <<polls, pollIntervalRef>>
     ELSE StartFallbackPoll(r)
  /\ UNCHANGED <<pageVars, closeStreamRef, fallbackTimerRef, sawFirstMessage, callVars,
                 wireVars, mishaps>>

FallbackTimer(r) ==
  /\ r \in timers
  /\ timers' = timers \ {r}
  /\ IF r \in sawFirstMessage THEN UNCHANGED <<polls, pollIntervalRef>> ELSE StartFallbackPoll(r)
  /\ UNCHANGED <<pageVars, closeStreamRef, fallbackTimerRef, sawFirstMessage, callVars,
                 wireVars, mishaps>>

Poll(r) ==
  /\ r \in polls /\ Len(reads) < MaxReads
  /\ GetSubmission("poll", r)
  /\ UNCHANGED <<pageVars, refVars, sawFirstMessage, lastRun, submits, wireVars, mishaps>>

\* Nothing is published before a worker has the job; what it wrote before a retry
\* still comes, or is replayed.
Hears(r) ==
  /\ socket[r] = "open" /\ r \notin silent
  /\ jobStatus[r] # "PENDING" \/ r \in retried

\* A line of output, or the marker that ends the execution.
Message(r) ==
  /\ Hears(r)
  /\ sawFirstMessage' = sawFirstMessage \union {r}
  /\ timers' = timers \ {fallbackTimerRef} /\ fallbackTimerRef' = None
  /\ \/ /\ output' = output \union {r}
        /\ status' = IF status = "PENDING" THEN "RUNNING" ELSE status
     \/ UNCHANGED <<output, status>>
  /\ UNCHANGED <<jobId, result, history, closeStreamRef, pollIntervalRef, polls, callVars,
                 wireVars, mishaps>>

Finalize(r) == ClearTimers /\ GetSubmission("finalize", r)

\* The socket was closed by this side, by the gateway once the job was decided
\* (LogStream), or by an accident before that: a gateway that could not replay
\* the stream or that went away.
SocketClosed(r) ==
  /\ socket[r] \in {"open", "closing"}
  /\ socket' = [socket EXCEPT ![r] = "closed"]
  /\ mishaps' = IF jobStatus[r] = "COMPLETED" THEN mishaps ELSE mishaps \union {"early_close"}
  /\ Finalize(r)
  /\ UNCHANGED <<pageVars, closeStreamRef, sawFirstMessage, lastRun, submits, silent, jobStatus,
                 retried>>

\* The error event; the close event follows, and with it finalize.
SocketFails(r) ==
  /\ socket[r] = "open"
  /\ socket' = [socket EXCEPT ![r] = "closing"]
  /\ IF r \in sawFirstMessage THEN UNCHANGED <<polls, pollIntervalRef>> ELSE StartFallbackPoll(r)
  /\ UNCHANGED <<pageVars, closeStreamRef, fallbackTimerRef, timers, sawFirstMessage, callVars,
                 silent, jobStatus, retried, mishaps>>

\* The marker was lost on its way, and with it the reason to close the socket.
SocketFallsSilent(r) ==
  /\ socket[r] = "open" /\ r \notin silent
  /\ silent' = silent \union {r}
  /\ UNCHANGED <<pageVars, refVars, sawFirstMessage, callVars, socket, jobStatus,
                 retried, mishaps>>

(***************************************************************************)
(* The reply to a read, or its failure.                                    *)
(***************************************************************************)
Arrives(i) ==
  /\ reads' = RemoveAt(reads, i)
  /\ mishaps' = IF i = 1 THEN mishaps ELSE mishaps \union {"overtaken_reply"}
  /\ UNCHANGED <<jobId, output, closeStreamRef, sawFirstMessage, lastRun, submits, wireVars>>

\* Mutant: what is read once the socket closed is taken for the end.
ShowCompleted(read) == result' = read.job /\ status' = "COMPLETED"

Show(read) == result' = read.job /\ status' = read.found

FinalReply(i) ==
  /\ reads[i].by = "finalize" /\ Arrives(i)
  /\ \/ Show(reads[i])
     \/ status' = "FAILED" /\ UNCHANGED result
  /\ KeepHistory
  /\ UNCHANGED <<fallbackTimerRef, pollIntervalRef, timers, polls>>

PollReply(i) ==
  /\ reads[i].by = "poll" /\ Arrives(i)
  /\ \/ reads[i].found = "COMPLETED" /\ ClearTimers /\ Show(reads[i])
     \/ /\ reads[i].found # "COMPLETED"
        /\ status' = reads[i].found
        /\ UNCHANGED <<result, fallbackTimerRef, pollIntervalRef, timers, polls>>
     \/ UNCHANGED <<status, result, fallbackTimerRef, pollIntervalRef, timers, polls>>
  /\ KeepHistory

\* The platform, seen from here: jobs are started and decided.
JobAdvances(r) ==
  /\ jobStatus[r] \in {"PENDING", "RUNNING"}
  /\ jobStatus' = [jobStatus EXCEPT ![r] = IF @ = "PENDING" THEN "RUNNING" ELSE "COMPLETED"]
  /\ UNCHANGED <<pageVars, refVars, sawFirstMessage, callVars, socket, silent, retried,
                 mishaps>>

\* An attempt that failed, or whose worker died: the row goes back to PENDING.
JobRetried(r) ==
  /\ jobStatus[r] = "RUNNING" /\ r \in RetriedRuns \ retried
  /\ jobStatus' = [jobStatus EXCEPT ![r] = "PENDING"] /\ retried' = retried \union {r}
  /\ UNCHANGED <<pageVars, refVars, sawFirstMessage, callVars, socket, silent, mishaps>>

Next ==
  \/ Run
  \/ \E r \in Runs :
       \/ Submitted(r) \/ SubmitFails(r) \/ FallbackTimer(r) \/ Poll(r) \/ Message(r)
       \/ SocketClosed(r) \/ SocketFails(r) \/ SocketFallsSilent(r) \/ JobAdvances(r)
       \/ JobRetried(r)
  \/ \E i \in DOMAIN reads : FinalReply(i) \/ PollReply(i)

Spec == Init /\ [][Next]_vars

\* Requests are answered, timers fire, jobs are decided, and sockets that are
\* closing close, as does one the gateway has not lost once its job is decided.
\* A read may fail, but not for ever.
FairSpec ==
  /\ Spec
  /\ \A r \in Runs :
       /\ WF_vars(Submitted(r) \/ SubmitFails(r))
       /\ WF_vars(FallbackTimer(r)) /\ WF_vars(JobAdvances(r))
       /\ WF_vars(Poll(r))
       /\ WF_vars(SocketClosed(r) /\ (socket[r] = "closing" \/
                                      (r \notin silent /\ jobStatus[r] = "COMPLETED")))
  /\ WF_vars(reads # <<>> /\ (FinalReply(1) \/ PollReply(1)))
  /\ SF_vars(reads # <<>> /\ PollReply(1) /\ result' # result)

\* Result and output on the page are those of the job on the page, unless it was
\* run while something of an earlier run was still to come: the close of its
\* socket, or a reply.
PageShowsOneJob ==
  "hasty_run" \notin mishaps => (result # None => result = jobId) /\ output \subseteq {jobId}

\* A job that the page or the history calls COMPLETED is.
CompletedIsTrue ==
  "hasty_run" \notin mishaps =>
    /\ status = "COMPLETED" => jobStatus[jobId] = "COMPLETED"
    /\ \A r \in Runs : history[r] = "COMPLETED" => jobStatus[r] = "COMPLETED"

\* A page that shows an outcome does not go back to a status in between, where
\* nothing would move it on: no poll outlives the outcome. Replies that overtake
\* each other, and hasty runs, do this to it.
OutcomeStays ==
  [][mishaps' \subseteq {"early_close"} /\ lastRun' = lastRun /\ status \in Outcomes
       => status' \in Outcomes]_vars

\* The user gets the button back, also when the socket says nothing (the poll)
\* or reads fail. Only a socket that closes early or falls silent after it spoke,
\* or replies out of order, leave the page waiting.
UiSettles ==
  Busy ~> ~Busy \/ mishaps # {} \/ jobId \in silent \intersect sawFirstMessage
=============================================================================
