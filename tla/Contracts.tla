----------------------------- MODULE Contracts -----------------------------
(***************************************************************************)
(* The vocabulary every service shares (shared/contracts): the statuses of *)
(* a submission, the declared transition table, what travels in a queue,   *)
(* and how the category of a result fixes the status it is stored with.    *)
(***************************************************************************)
EXTENDS Naturals

CONSTANTS
  Jobs,       \* the submissions that clients may make
  MaxRetry    \* MAX_RETRY_COUNT, how often a job may be put back

ASSUME MaxRetryAssumption == MaxRetry \in Nat

\* "ABSENT" is a job with no row in the submissions table.
Statuses == {"PENDING", "RUNNING", "COMPLETED", "FAILED", "TIMEOUT"}
RowStates == Statuses \union {"ABSENT"}

TerminalStatuses == {"COMPLETED", "FAILED", "TIMEOUT"}
IsTerminalStatus(s) == s \in TerminalStatuses

AllowedTransitions ==
  [s \in Statuses |->
     CASE s = "PENDING" -> {"RUNNING"}
       [] s = "RUNNING" -> TerminalStatuses
       [] OTHER         -> {}]

IsValidTransition(from, to) == from \in Statuses /\ to \in AllowedTransitions[from]

\* Code, language, user and submission time ride along unread: what the
\* services branch on is which job an entry names and its retry count.
QueuePayload == [job: Jobs, retry: 0..MaxRetry]

(***************************************************************************)
(* Error categories. "NONE" is the null category of a clean exit; a syntax *)
(* error is a "RUNTIME_ERROR" here, since nothing but wording tells the    *)
(* two apart.                                                              *)
(***************************************************************************)
Verdicts   == {"NONE", "TIMEOUT", "RUNTIME_ERROR", "OOM"}
Categories == Verdicts \union {"WORKER_CRASH", "UNKNOWN"}

FinalStatus(category) ==
  CASE category = "NONE"    -> "COMPLETED"
    [] category = "TIMEOUT" -> "TIMEOUT"
    [] OTHER                -> "FAILED"
=============================================================================
