---------------------------- MODULE DeadLetterBox ----------------------------
(***************************************************************************)
(* What the dead letter routes promise: a letter stays until a deletion    *)
(* that names its job takes it, a deletion takes one letter, and only a    *)
(* request with a failed call is told of a letter it found that there is   *)
(* none. Deletions are atomic here; DeadLetters shows the calls they are   *)
(* made of.                                                                *)
(***************************************************************************)
EXTENDS Naturals, Sequences

CONSTANTS
  Jobs,
  Operators,    \* the DELETE requests
  LossyRedis    \* whether calls to Redis may fail

VARIABLES
  filed,    \* the job of every letter ever filed, oldest first
  letters,  \* which of them are in the queue
  asked,    \* the job each request names
  askedAt,  \* the number of letters filed before it came in
  failed,   \* the requests one of whose calls failed
  answer    \* what it was answered

vars == <<filed, letters, asked, askedAt, failed, answer>>

Waiting(o) == asked[o] \in Jobs /\ answer[o] = "none"

LettersOf(job) == {n \in letters : filed[n] = job}

Init ==
  /\ filed = <<>> /\ letters = {}
  /\ asked = [o \in Operators |-> "nothing"]
  /\ askedAt = [o \in Operators |-> 0] /\ failed = {}
  /\ answer = [o \in Operators |-> "none"]

File(job) ==
  /\ filed' = Append(filed, job)
  /\ letters' = letters \union {Len(filed) + 1}
  /\ UNCHANGED <<asked, askedAt, failed, answer>>

Ask(o, job) ==
  /\ asked[o] = "nothing"
  /\ asked' = [asked EXCEPT ![o] = job]
  /\ askedAt' = [askedAt EXCEPT ![o] = Len(filed)]
  /\ UNCHANGED <<filed, letters, failed, answer>>

Respond(o, reply) ==
  /\ Waiting(o)
  /\ answer' = [answer EXCEPT ![o] = reply]
  /\ UNCHANGED <<filed, asked, askedAt>>

Delete(o) ==
  /\ Respond(o, "deleted")
  /\ \E n \in LettersOf(asked[o]) : letters' = letters \ {n}
  /\ UNCHANGED failed

\* Another deletion, of the same job, was faster.
DeletedBefore(o) ==
  /\ Respond(o, "deleted")
  /\ \E n \in DOMAIN filed \ letters : filed[n] = asked[o]
  /\ UNCHANGED <<letters, failed>>

\* What there was when the request came in has been deleted.
NotFound(o) ==
  /\ Respond(o, "not_found")
  /\ o \in failed \/ \A n \in LettersOf(asked[o]) : n > askedAt[o]
  /\ UNCHANGED <<letters, failed>>

Fail(o) ==
  /\ LossyRedis /\ Respond(o, "error")
  /\ failed' = failed \union {o}
  /\ UNCHANGED letters

\* A deletion that is not acknowledged: the letter may be gone, and the request
\* does not know it.
LoseReply(o) ==
  /\ LossyRedis /\ Waiting(o)
  /\ failed' = failed \union {o}
  /\ letters' = letters \/ \E n \in LettersOf(asked[o]) : letters' = letters \ {n}
  /\ UNCHANGED <<filed, asked, askedAt, answer>>

Next ==
  \/ \E job \in Jobs : File(job) \/ (\E o \in Operators : Ask(o, job))
  \/ \E o \in Operators :
       Delete(o) \/ DeletedBefore(o) \/ NotFound(o) \/ Fail(o) \/ LoseReply(o)

Spec == Init /\ [][Next]_vars
=============================================================================
