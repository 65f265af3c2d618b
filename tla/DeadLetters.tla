----------------------------- MODULE DeadLetters -----------------------------
(***************************************************************************)
(* The dead letter routes of the gateway, while workers and monitors go on *)
(* filing: DELETE /dlq/:jobId, which reads the whole list and removes one  *)
(* entry by value, and a client that goes through GET /dlq page by page.   *)
(*                                                                         *)
(* Every entry carries the time of its filing, so that no two are equal:   *)
(* an entry is the number of its filing, and the list the set of those not *)
(* removed, newest first. The filings themselves are part of Store.        *)
(***************************************************************************)
EXTENDS Naturals, Sequences, FiniteSets

CONSTANTS
  Jobs,         \* the jobs that may be filed
  Operators,    \* the DELETE requests
  Limit,        \* entries on a page
  LastLetter,   \* bound on the filings
  MaxErrors     \* bound on the calls to Redis that fail one request

ASSUME LetterAssumption ==
  /\ Limit \in Nat \ {0} /\ LastLetter \in Nat /\ MaxErrors \in Nat
  /\ "nothing" \notin Jobs

VARIABLES
  filed, letters,     \* as in DeadLetterBox
  asked, askedAt, answer,
  hasRead,    \* whether a request has read the list
  rest,       \* the entries of its job that it found and has not tried
  errors,     \* calls to Redis that failed, by request
  page,       \* pages the reader was sent; it is done when one is short
  reading,
  before,     \* letters, and number of filings, when it asked for the first
  seen        \* what it was sent

queueVars   == <<filed, letters>>
requestVars == <<asked, askedAt, answer, hasRead, rest>>
readerVars  == <<page, reading, before, seen>>
vars        == <<queueVars, requestVars, errors, readerVars>>

LettersTypeOK ==
  /\ filed \in Seq(Jobs) /\ letters \subseteq DOMAIN filed
  /\ asked \in [Operators -> Jobs \union {"nothing"}] /\ askedAt \in [Operators -> Nat]
  /\ answer \in [Operators -> {"none", "deleted", "not_found", "error"}]
  /\ hasRead \in [Operators -> BOOLEAN] /\ rest \in [Operators -> SUBSET Nat]
  /\ errors \in [Operators -> 0..MaxErrors]
  /\ page \in Nat /\ reading \in BOOLEAN
  /\ before \in [letters : SUBSET Nat, filings : Nat]
  /\ seen \subseteq DOMAIN filed

Init ==
  /\ filed = <<>> /\ letters = {}
  /\ asked = [o \in Operators |-> "nothing"] /\ askedAt = [o \in Operators |-> 0]
  /\ answer = [o \in Operators |-> "none"]
  /\ hasRead = [o \in Operators |-> FALSE] /\ rest = [o \in Operators |-> {}]
  /\ errors = [o \in Operators |-> 0]
  /\ page = 0 /\ reading = FALSE /\ seen = {}
  /\ before = [letters |-> {}, filings |-> 0]

NoError  == UNCHANGED errors
Error(o) == errors[o] < MaxErrors /\ errors' = [errors EXCEPT ![o] = @ + 1]

\* Mutant: the letter is pushed once more, for fear that the reply was lost.
FileTwice(job) ==
  /\ Len(filed) < LastLetter
  /\ filed' = Append(filed, job)
  /\ letters' = letters \union {Len(filed) + 1, Len(filed) + 2}
  /\ NoError
  /\ UNCHANGED <<requestVars, readerVars>>

\* LPUSH by sendToDLQ of a worker or of the reaper.
File(job) ==
  /\ Len(filed) < LastLetter
  /\ filed' = Append(filed, job)
  /\ letters' = letters \union {Len(filed) + 1}
  /\ NoError
  /\ UNCHANGED <<requestVars, readerVars>>

(***************************************************************************)
(* DELETE /dlq/:jobId                                                      *)
(***************************************************************************)
Ask(o, job) ==
  /\ asked[o] = "nothing"
  /\ asked' = [asked EXCEPT ![o] = job] /\ askedAt' = [askedAt EXCEPT ![o] = Len(filed)]
  /\ NoError
  /\ UNCHANGED <<queueVars, answer, hasRead, rest, readerVars>>

Waiting(o) == asked[o] # "nothing" /\ answer[o] = "none"
Respond(o, reply) == answer' = [answer EXCEPT ![o] = reply]

LettersOf(job) == {n \in letters : filed[n] = job}

Index(n) == Cardinality({m \in letters : m > n})

\* Mutant: the range ends before the last entry.
ReadAllButLast(o) ==
  /\ Waiting(o) /\ ~hasRead[o]
  /\ hasRead' = [hasRead EXCEPT ![o] = TRUE]
  /\ NoError
  /\ rest' = [rest EXCEPT ![o] = {n \in LettersOf(asked[o]) : \E m \in letters : m < n}]
  /\ UNCHANGED <<queueVars, asked, askedAt, answer, readerVars>>

\* LRANGE 0 -1. Of what it returns the loop tries the entries of its job.
ReadAll(o) ==
  /\ Waiting(o) /\ ~hasRead[o]
  /\ hasRead' = [hasRead EXCEPT ![o] = TRUE]
  /\ \/ /\ NoError
        /\ rest' = [rest EXCEPT ![o] = LettersOf(asked[o])]
        /\ UNCHANGED answer
     \/ Error(o) /\ Respond(o, "error") /\ UNCHANGED rest
  /\ UNCHANGED <<queueVars, asked, askedAt, readerVars>>

\* LREM by value, newest first. What it returns is not looked at. The catch around
\* it is meant for entries that do not parse: after an LREM that fails the loop
\* goes on to the next entry.
RemoveEntry(o) ==
  /\ Waiting(o) /\ hasRead[o]
  /\ \E n \in rest[o] :
       /\ \A m \in rest[o] : m <= n
       /\ \/ /\ NoError /\ Respond(o, "deleted") /\ UNCHANGED rest
             /\ letters' = letters \ {n}
          \/ /\ Error(o) /\ rest' = [rest EXCEPT ![o] = @ \ {n}] /\ UNCHANGED answer
             /\ (letters' = letters \ {n} \/ UNCHANGED letters)
  /\ UNCHANGED <<filed, asked, askedAt, hasRead, readerVars>>

NotFound(o) ==
  /\ Waiting(o) /\ hasRead[o] /\ rest[o] = {}
  /\ Respond(o, "not_found")
  /\ NoError
  /\ UNCHANGED <<queueVars, asked, askedAt, hasRead, rest, readerVars>>

(***************************************************************************)
(* GET /dlq, by a client that asks for page after page until one is short. *)
(* The total is read before the page, in a step of its own, and says       *)
(* nothing certain about it: this client does not use it.                  *)
(***************************************************************************)
StartReading ==
  /\ page = 0 /\ ~reading
  /\ reading' = TRUE
  /\ before' = [letters |-> letters, filings |-> Len(filed)]
  /\ NoError
  /\ UNCHANGED <<queueVars, requestVars, page, seen>>

\* Mutant: LRANGE takes its end to be exclusive.
ShortPage == {n \in letters : Index(n) \in (page * Limit)..(page * Limit + Limit - 2)}

\* LRANGE start (start + limit - 1), newest first.
PageItems == {n \in letters : Index(n) \in (page * Limit)..(page * Limit + Limit - 1)}

ReadPage ==
  /\ reading
  /\ page' = page + 1
  /\ seen' = seen \union PageItems
  /\ reading' = (Cardinality(PageItems) = Limit)
  /\ NoError
  /\ UNCHANGED <<queueVars, requestVars, before>>

Next ==
  \/ \E job \in Jobs : File(job) \/ (\E o \in Operators : Ask(o, job))
  \/ \E o \in Operators : ReadAll(o) \/ RemoveEntry(o) \/ NotFound(o)
  \/ StartReading \/ ReadPage

Spec == Init /\ [][Next]_vars

\* The routes do what DeadLetterBox promises.
Box == INSTANCE DeadLetterBox
         WITH failed <- {o \in Operators : errors[o] > 0}, LossyRedis <- MaxErrors > 0
ImplementsBox == Box!Spec

\* Paging by offset through a list that grows at its head repeats entries; it
\* misses no more of them than were deleted meanwhile.
PagesMissNothing ==
  page > 0 /\ ~reading =>
    LET goneBefore == 1..before.filings \ before.letters
        goneSince  == (DOMAIN filed \ letters) \ goneBefore
    IN  Cardinality((before.letters \intersect letters) \ seen) <= Cardinality(goneSince)

\* A job that no one asked to delete keeps its letters: DELETE takes entries of
\* its job only. Proved in LetterProofs.
NobodyElsesLetter ==
  \A n \in DOMAIN filed \ letters : \E o \in Operators : asked[o] = filed[n]
=============================================================================
