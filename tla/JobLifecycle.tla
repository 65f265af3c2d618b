---------------------------- MODULE JobLifecycle ----------------------------
(***************************************************************************)
(* What the platform promises of one job, whatever queues, workers and     *)
(* monitors do to keep it: claimed from PENDING, tried at most MaxRetry + 1*)
(* times, decided once. The attempt a job is at is its retry count.        *)
(***************************************************************************)
EXTENDS Contracts

VARIABLES status, retryCount

vars == <<status, retryCount>>

Init ==
  /\ status = [j \in Jobs |-> "ABSENT"]
  /\ retryCount = [j \in Jobs |-> 0]

Move(j, from, to) ==
  /\ status[j] \in from
  /\ status' = [status EXCEPT ![j] = to]

Accept(j) == Move(j, {"ABSENT"}, "PENDING") /\ UNCHANGED retryCount

\* A claim or a decision: the transitions the contracts declare.
Advance(j) ==
  /\ \E s \in Statuses : IsValidTransition(status[j], s) /\ status' = [status EXCEPT ![j] = s]
  /\ UNCHANGED retryCount

\* An attempt is spent whether its worker was lost before it claimed the job
\* or after.
TryAgain(j) ==
  /\ retryCount[j] < MaxRetry
  /\ Move(j, {"PENDING", "RUNNING"}, "PENDING")
  /\ retryCount' = [retryCount EXCEPT ![j] = @ + 1]

Abandon(j) ==
  /\ retryCount[j] = MaxRetry
  /\ Move(j, {"PENDING", "RUNNING"}, "FAILED")
  /\ UNCHANGED retryCount

Next == \E j \in Jobs : Accept(j) \/ Advance(j) \/ TryAgain(j) \/ Abandon(j)

Spec == Init /\ [][Next]_vars
=============================================================================
