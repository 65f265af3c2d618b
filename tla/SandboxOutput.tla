--------------------------- MODULE SandboxOutput ---------------------------
(***************************************************************************)
(* runInSandbox: one container, its output on the way to the log stream    *)
(* and to the stored result, the two reasons it may be killed for, and the *)
(* verdict the worker draws. Worker sees of all this one container and one *)
(* verdict.                                                                *)
(*                                                                         *)
(* A text is its length in bytes. How a text is cut into chunks is the     *)
(* matter of Chunking, and what becomes of the chunks of LogStream.        *)
(***************************************************************************)
EXTENDS Naturals

CONSTANTS
  MaxResult,    \* MAX_RESULT_OUTPUT_BYTES
  MaxStream,    \* MAX_STREAM_OUTPUT_BYTES
  MaxRead       \* the longest text one data event carries

\* 64 KB and 1 MB. A pipe is read in pieces of 64 KB, of which each byte is
\* decoded to three when it is no UTF-8.
ASSUME OutputAssumption ==
  /\ MaxResult \in Nat \ {0} /\ MaxRead \in Nat \ {0} /\ MaxStream \in Nat
  /\ MaxStream >= 2 * MaxResult + MaxRead

Outputs == {"stdout", "stderr"}
Reasons == {"timeout", "stream-output-limit"}

VARIABLES
  phase,        \* where the promise of runInSandbox stands
  container,    \* "none" until docker has started it
  exitCode,     \* code of the container that is down
  endedBy,      \* what ended it
  timerArmed,   \* timeoutTimer
  killing,      \* the docker kill of each reason
  timedOut, oomKilled, outputTruncated, streamOutputLimitExceeded,
  memoryKnown,  \* memoryUsedBytes is not null
  streamed,     \* bytes of each output that were published
  kept,         \* bytes of each accumulator
  dropped,      \* whether text arrived that was neither published nor kept
  markers,      \* OUTPUT_LIMIT_EXCEEDED chunks published
  lastChunk     \* type of the chunk published last

flags      == <<timedOut, oomKilled, outputTruncated, streamOutputLimitExceeded>>
outputVars == <<memoryKnown, streamed, kept, dropped, markers, lastChunk>>
dockerVars == <<container, exitCode, endedBy>>
vars       == <<phase, dockerVars, timerArmed, killing, flags, outputVars>>

\* Also: what is stored exceeds its cap by no more than a replaced character.
OutputTypeOK ==
  /\ phase \in {"preparing", "running", "flushing", "settled", "rejected"}
  /\ container \in {"none", "up", "down"}
  /\ exitCode \in {0, 1, 137}
  /\ endedBy \in {"nobody", "itself", "kernel"} \union Reasons
  /\ timerArmed \in BOOLEAN
  /\ killing \in [Reasons -> {"none", "issued", "landed", "failed"}]
  /\ timedOut \in BOOLEAN /\ oomKilled \in BOOLEAN
  /\ outputTruncated \in BOOLEAN /\ streamOutputLimitExceeded \in BOOLEAN
  /\ memoryKnown \in BOOLEAN /\ dropped \in BOOLEAN
  /\ streamed \in [Outputs -> 0..MaxStream]
  /\ kept \in [Outputs -> 0..(MaxResult + 2)]
  /\ markers \in Nat /\ lastChunk \in {"none", "system"} \union Outputs

Init ==
  /\ phase = "preparing" /\ container = "none"
  /\ exitCode = 0 /\ endedBy = "nobody"
  /\ timerArmed = FALSE /\ killing = [r \in Reasons |-> "none"]
  /\ timedOut = FALSE /\ oomKilled = FALSE
  /\ outputTruncated = FALSE /\ streamOutputLimitExceeded = FALSE
  /\ memoryKnown = FALSE /\ dropped = FALSE
  /\ streamed = [s \in Outputs |-> 0] /\ kept = [s \in Outputs |-> 0]
  /\ markers = 0 /\ lastChunk = "none"

\* The stale container was removed. docker run is started, and the timer.
SpawnContainer ==
  /\ phase = "preparing"
  /\ phase' = "running" /\ timerArmed' = TRUE
  /\ UNCHANGED <<dockerVars, killing, flags, outputVars>>

ContainerStarts ==
  /\ phase = "running" /\ container = "none"
  /\ container' = "up"
  /\ UNCHANGED <<phase, exitCode, endedBy, timerArmed, killing, flags, outputVars>>

\* The error event of the docker client rejects the promise.
SpawnFails ==
  /\ phase = "running" /\ container = "none"
  /\ phase' = "rejected" /\ timerArmed' = FALSE
  /\ UNCHANGED <<dockerVars, killing, flags, outputVars>>

KillContainer(reason) == killing' = [killing EXCEPT ![reason] = "issued"]

Timeout ==
  /\ timerArmed
  /\ timerArmed' = FALSE /\ timedOut' = TRUE
  /\ KillContainer("timeout")
  /\ UNCHANGED <<phase, dockerVars, oomKilled, outputTruncated,
                 streamOutputLimitExceeded, outputVars>>

\* Mutant: text that finds the accumulator full to the byte is not missed.
AppendUnlessFull(current, next) ==
  IF current >= MaxResult
  THEN [values |-> {current}, truncated |-> FALSE]
  ELSE IF next <= MaxResult - current
  THEN [values |-> {current + next}, truncated |-> FALSE]
  ELSE [values |-> MaxResult..(MaxResult + 2), truncated |-> TRUE]

\* Mutant: text that fills the accumulator to the byte is taken for too long.
AppendLess(current, next) ==
  IF current >= MaxResult
  THEN [values |-> {current}, truncated |-> next > 0]
  ELSE IF next < MaxResult - current
  THEN [values |-> {current + next}, truncated |-> FALSE]
  ELSE [values |-> MaxResult..(MaxResult + 2), truncated |-> TRUE]

\* Mutant: the text that exceeds the cap is appended whole.
AppendWhole(current, next) ==
  IF current >= MaxResult
  THEN [values |-> {current}, truncated |-> TRUE]
  ELSE [values |-> {current + next}, truncated |-> next > MaxResult - current]

\* A character cut in the middle becomes U+FFFD, three bytes for one to three.
AppendWithinCap(current, next) ==
  IF current >= MaxResult
  THEN [values |-> {current}, truncated |-> next > 0]
  ELSE IF next <= MaxResult - current
  THEN [values |-> {current + next}, truncated |-> FALSE]
  ELSE [values |-> MaxResult..(MaxResult + 2), truncated |-> TRUE]

(***************************************************************************)
(* handleOutput, for a text of n bytes after the peak memory line, if it   *)
(* had one, was taken out.                                                 *)
(***************************************************************************)
Reading == phase = "running" /\ container # "none"

\* After the limit nothing is read but to be dropped, the memory line too.
DropOutput(n) ==
  /\ Reading /\ streamOutputLimitExceeded
  /\ dropped' = (dropped \/ n > 0)
  /\ UNCHANGED <<phase, dockerVars, timerArmed, killing, flags, memoryKnown,
                 streamed, kept, markers, lastChunk>>

TooMuch(n) == streamed["stdout"] + streamed["stderr"] + n > MaxStream

\* Mutant: the kill for the limit takes the place of the timer.
ExceedAndDisarm(n, peak) ==
  /\ Reading /\ ~streamOutputLimitExceeded
  /\ n > 0 /\ TooMuch(n)
  /\ streamOutputLimitExceeded' = TRUE /\ dropped' = TRUE
  /\ memoryKnown' = (memoryKnown \/ peak)
  /\ markers' = markers + 1 /\ lastChunk' = "system"
  /\ KillContainer("stream-output-limit")
  /\ timerArmed' = FALSE
  /\ UNCHANGED <<phase, dockerVars, timedOut, oomKilled, outputTruncated, streamed, kept>>

ExceedLimit(n, peak) ==
  /\ Reading /\ ~streamOutputLimitExceeded
  /\ n > 0 /\ TooMuch(n)
  /\ streamOutputLimitExceeded' = TRUE /\ dropped' = TRUE
  /\ memoryKnown' = (memoryKnown \/ peak)
  /\ markers' = markers + 1 /\ lastChunk' = "system"
  /\ KillContainer("stream-output-limit")
  /\ UNCHANGED <<phase, dockerVars, timerArmed, timedOut, oomKilled,
                 outputTruncated, streamed, kept>>

StreamText(s, n, peak) ==
  /\ Reading /\ ~streamOutputLimitExceeded /\ ~TooMuch(n)
  /\ memoryKnown' = (memoryKnown \/ peak)
  /\ IF n = 0
     THEN UNCHANGED <<streamed, kept, lastChunk, outputTruncated>>
     ELSE LET capped == AppendWithinCap(kept[s], n)
          IN  /\ streamed' = [streamed EXCEPT ![s] = @ + n]
              /\ lastChunk' = s
              /\ \E value \in capped.values : kept' = [kept EXCEPT ![s] = value]
              /\ outputTruncated' = (outputTruncated \/ capped.truncated)
  /\ UNCHANGED <<phase, dockerVars, timerArmed, killing, timedOut, oomKilled,
                 streamOutputLimitExceeded, dropped, markers>>

HandleOutput ==
  \E s \in Outputs, n \in 0..MaxRead, peak \in BOOLEAN :
    DropOutput(n) \/ ExceedLimit(n, peak) \/ StreamText(s, n, peak)

(***************************************************************************)
(* The container ends by itself, by the kernel's OOM killer, or by one of  *)
(* the two docker kills, which may come too early, too late or not at all. *)
(***************************************************************************)
Ends(by, code) ==
  /\ container = "up"
  /\ container' = "down" /\ exitCode' = code /\ endedBy' = by
  /\ UNCHANGED <<phase, timerArmed, flags, outputVars>>

ContainerExits ==
  /\ \/ \E code \in {0, 1, 137} : Ends("itself", code)
     \/ Ends("kernel", 137)
  /\ UNCHANGED killing

KillLands(reason) ==
  /\ killing[reason] = "issued"
  /\ Ends(reason, 137)
  /\ killing' = [killing EXCEPT ![reason] = "landed"]

\* docker kill did not start or found no container: a line in the log.
KillFails(reason) ==
  /\ killing[reason] = "issued"
  /\ killing' = [killing EXCEPT ![reason] = "failed"]
  /\ UNCHANGED <<phase, dockerVars, timerArmed, flags, outputVars>>

\* The close event, after the last output was read.
Close ==
  /\ phase = "running" /\ container = "down"
  /\ phase' = "flushing" /\ timerArmed' = FALSE
  /\ oomKilled' = (exitCode = 137 /\ ~timedOut /\ ~streamOutputLimitExceeded)
  /\ UNCHANGED <<dockerVars, killing, timedOut, outputTruncated,
                 streamOutputLimitExceeded, outputVars>>

\* The publish queue is empty and the promise resolves.
Resolve ==
  /\ phase = "flushing"
  /\ phase' = "settled"
  /\ UNCHANGED <<dockerVars, timerArmed, killing, flags, outputVars>>

\* Mutant: who ended the container is read off the exit code alone.
VerdictByCode ==
  IF exitCode = 137 THEN "OOM" ELSE IF exitCode # 0 THEN "RUNTIME_ERROR"
  ELSE IF timedOut THEN "TIMEOUT" ELSE "NONE"

\* What the worker stores, in the order it asks.
Verdict ==
  CASE timedOut                                -> "TIMEOUT"
    [] ~timedOut /\ streamOutputLimitExceeded  -> "RUNTIME_ERROR"
    [] ~timedOut /\ ~streamOutputLimitExceeded ->
         IF oomKilled THEN "OOM" ELSE IF exitCode # 0 THEN "RUNTIME_ERROR" ELSE "NONE"

KillEnds(reason) == KillLands(reason) \/ KillFails(reason)
Begin == SpawnContainer \/ ContainerStarts \/ SpawnFails

Next ==
  \/ Begin \/ Timeout \/ HandleOutput \/ ContainerExits \/ Close \/ Resolve
  \/ \E reason \in Reasons : KillEnds(reason)

Spec == Init /\ [][Next]_vars

\* Timers fire and docker answers. The program need not end.
FairSpec ==
  /\ Spec
  /\ WF_vars(Begin) /\ WF_vars(Timeout) /\ WF_vars(Close) /\ WF_vars(Resolve)
  /\ \A reason \in Reasons : WF_vars(KillEnds(reason))

\* A result that is not marked as truncated holds all the text that was read,
\* also when the program was killed for its output: that path never sets the
\* flag and relies on the caps being far enough apart.
NothingLostSilently == ~outputTruncated => kept = streamed /\ ~dropped

\* The flag is never set for a result that is whole.
TruncationIsReal == outputTruncated => \E s \in Outputs : streamed[s] > MaxResult

\* The log of a program that wrote too much says so, once, at its very end: what
\* handleOutput reads after it killed the container is not streamed. Proved in
\* OutputProofs.
LimitMarkedLast ==
  /\ markers = IF streamOutputLimitExceeded THEN 1 ELSE 0
  /\ streamOutputLimitExceeded => lastChunk = "system"

\* Whatever order exit, kills and timer come in, a program that the timer killed
\* timed out, one killed for its output is no success and no victim of the
\* kernel, and a success ended by itself and kept within the limit.
VerdictNamesTheKiller ==
  phase = "settled" =>
    /\ endedBy = "timeout" => Verdict = "TIMEOUT"
    /\ endedBy = "stream-output-limit" => Verdict \in {"TIMEOUT", "RUNTIME_ERROR"}
    /\ Verdict = "OOM" => endedBy \notin Reasons
    /\ Verdict = "NONE" => /\ endedBy = "itself" /\ exitCode = 0
                           /\ ~streamOutputLimitExceeded

\* A worker waits for ever only on a container that the timer's docker kill
\* missed; when the kill for the limit is lost, the timer is the second chance.
Settles ==
  phase = "running" ~> (phase \in {"settled", "rejected"} \/ killing["timeout"] = "failed")
=============================================================================
