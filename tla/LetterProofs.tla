---------------------------- MODULE LetterProofs ----------------------------
(***************************************************************************)
(* Proofs about DeadLetters: the routes implement DeadLetterBox, for any   *)
(* number of jobs, letters and deletions under way at once.                *)
(***************************************************************************)
EXTENDS DeadLetters, FiniteSetTheorems, TLAPS

\* What a request has read was filed for the job it names, removed since or not.
RestInv ==
  \A o \in Operators :
    /\ hasRead[o] => asked[o] \in Jobs
    /\ \A n \in rest[o] : n \in DOMAIN filed /\ filed[n] = asked[o] /\ hasRead[o]

\* As long as no call of a request has failed, it has seen each letter of its job
\* that was there when it came in and still is.
SeenInv ==
  \A o \in Operators :
    /\ askedAt[o] <= Len(filed)
    /\ hasRead[o] /\ errors[o] = 0 =>
         \A n \in LettersOf(asked[o]) : n > askedAt[o] \/ n \in rest[o]

LetterInv == LettersTypeOK /\ RestInv

\* A filing leaves the numbers and the jobs of earlier ones alone.
LEMMA FilingAppends ==
  ASSUME NEW job \in Jobs, filed \in Seq(Jobs), filed' = Append(filed, job)
  PROVE  /\ filed' \in Seq(Jobs)
         /\ DOMAIN filed' = DOMAIN filed \union {Len(filed) + 1}
         /\ Len(filed) + 1 \notin DOMAIN filed
         /\ \A n \in DOMAIN filed : filed'[n] = filed[n]
         /\ filed'[Len(filed) + 1] = job
         /\ DOMAIN filed \subseteq Nat /\ DOMAIN filed' \subseteq Nat
OBVIOUS

LEMMA LetterInit == Init => LetterInv
<1> SUFFICES ASSUME Init  PROVE LetterInv
  OBVIOUS
<1>1. hasRead \in [Operators -> BOOLEAN] /\ reading \in BOOLEAN
  BY Zenon DEF Init
<1>2. errors \in [Operators -> 0..MaxErrors]
  BY LetterAssumption DEF Init
<1>3. LettersTypeOK
  BY <1>1, <1>2 DEF Init, LettersTypeOK
<1>4. RestInv
  BY DEF Init, RestInv
<1> QED  BY <1>3, <1>4 DEF LetterInv

LEMMA LetterStep == LetterInv /\ [Next]_vars => LetterInv'
<1> SUFFICES ASSUME LetterInv, [Next]_vars  PROVE LetterInv'
  OBVIOUS
<1> USE DEF LetterInv
<1>1. ASSUME NEW job \in Jobs, File(job)  PROVE LetterInv'
  <2>1. /\ filed' \in Seq(Jobs)
        /\ DOMAIN filed' = DOMAIN filed \union {Len(filed) + 1}
        /\ \A n \in DOMAIN filed : filed'[n] = filed[n]
    BY <1>1, FilingAppends DEF File, LettersTypeOK
  <2>2. LettersTypeOK'
    BY <1>1, <2>1 DEF File, LettersTypeOK, NoError, requestVars, readerVars
  <2>3. RestInv'
    BY <1>1, <2>1 DEF File, RestInv, requestVars
  <2> QED  BY <2>2, <2>3
<1>2. ASSUME NEW o \in Operators, NEW job \in Jobs, Ask(o, job)  PROVE LetterInv'
  <2>1. LettersTypeOK'
    <3>1. Len(filed) \in Nat
      BY DEF LettersTypeOK
    <3> QED  BY <1>2, <3>1 DEF Ask, LettersTypeOK, NoError, queueVars, readerVars
  <2>2. ~hasRead[o]
    BY <1>2, LetterAssumption DEF Ask, RestInv
  <2>3. RestInv'
    BY <1>2, <2>2 DEF Ask, LettersTypeOK, RestInv, queueVars
  <2> QED  BY <2>1, <2>3
<1>3. ASSUME NEW o \in Operators, ReadAll(o)  PROVE LetterInv'
  <2>1. asked[o] \in Jobs /\ LettersOf(asked[o]) \subseteq DOMAIN filed /\ DOMAIN filed \subseteq Nat
    BY <1>3 DEF ReadAll, Waiting, LettersOf, LettersTypeOK
  <2>2. LettersOf(asked[o]) \in SUBSET Nat
    BY <2>1
  <2>3. rest' \in [Operators -> SUBSET Nat] /\ answer' \in [Operators ->
                    {"none", "deleted", "not_found", "error"}]
    BY <1>3, <2>2 DEF ReadAll, Respond, LettersTypeOK
  <2>4. /\ NoError \/ Error(o)
        /\ hasRead' = [hasRead EXCEPT ![o] = TRUE]
        /\ UNCHANGED <<filed, letters, asked, askedAt, page, reading, before, seen>>
    BY <1>3 DEF ReadAll, queueVars, readerVars
  <2>5. errors' \in [Operators -> 0..MaxErrors]
    BY <2>4, LetterAssumption DEF NoError, Error, LettersTypeOK
  <2>6. LettersTypeOK'
    BY <2>3, <2>4, <2>5 DEF LettersTypeOK
  <2>7. rest' = [rest EXCEPT ![o] = LettersOf(asked[o])] \/ rest' = rest
    BY <1>3 DEF ReadAll
  <2>8. RestInv'
    BY <2>1, <2>4, <2>7 DEF LettersOf, LettersTypeOK, RestInv
  <2> QED  BY <2>6, <2>8
<1>4. ASSUME NEW o \in Operators, RemoveEntry(o)  PROVE LetterInv'
  <2>1. /\ UNCHANGED <<filed, asked, askedAt, hasRead, page, reading, before, seen>>
        /\ letters' \subseteq letters
        /\ answer' \in [Operators -> {"none", "deleted", "not_found", "error"}]
    BY <1>4 DEF RemoveEntry, Respond, LettersTypeOK, readerVars
  <2>2. errors' \in [Operators -> 0..MaxErrors]
    <3>1. errors' = errors \/ (errors[o] < MaxErrors /\ errors' = [errors EXCEPT ![o] = @ + 1])
      BY <1>4 DEF RemoveEntry, NoError, Error
    <3>2. errors \in [Operators -> 0..MaxErrors] /\ MaxErrors \in Nat /\ errors[o] \in 0..MaxErrors
      BY LetterAssumption DEF LettersTypeOK
    <3>3. CASE errors[o] < MaxErrors /\ errors' = [errors EXCEPT ![o] = @ + 1]
      <4>1. errors[o] + 1 \in 0..MaxErrors
        BY <3>2, <3>3
      <4> QED  BY <3>2, <3>3, <4>1
    <3> QED  BY <3>1, <3>2, <3>3
  <2>3. rest' \in [Operators -> SUBSET Nat] /\ \A p \in Operators : rest'[p] \subseteq rest[p]
    <3>1. rest \in [Operators -> SUBSET Nat]
      BY DEF LettersTypeOK
    <3>2. rest' = rest \/ \E n \in rest[o] : rest' = [rest EXCEPT ![o] = @ \ {n}]
      BY <1>4 DEF RemoveEntry
    <3> QED  BY <3>1, <3>2
  <2>4. LettersTypeOK'
    BY <2>1, <2>2, <2>3 DEF LettersTypeOK
  <2>5. RestInv'
    BY <2>1, <2>3 DEF RestInv
  <2> QED  BY <2>4, <2>5
<1>5. ASSUME NEW o \in Operators, NotFound(o)  PROVE LetterInv'
  BY <1>5 DEF NotFound, Respond, LettersTypeOK, RestInv, NoError, queueVars, readerVars
<1>6. CASE StartReading
  BY <1>6 DEF StartReading, LettersTypeOK, RestInv, NoError, queueVars, requestVars
<1>7. CASE ReadPage
  BY <1>7 DEF ReadPage, PageItems, LettersTypeOK, RestInv, NoError, queueVars, requestVars
<1>8. CASE UNCHANGED vars
  BY <1>8 DEF vars, queueVars, requestVars, readerVars, LettersTypeOK, RestInv
<1> QED  BY <1>1, <1>2, <1>3, <1>4, <1>5, <1>6, <1>7, <1>8 DEF Next

LEMMA LetterInvAlways == Spec => []LetterInv
BY LetterInit, LetterStep, PTL DEF Spec

LEMMA SeenStep == LetterInv /\ SeenInv /\ [Next]_vars => SeenInv'
<1> SUFFICES ASSUME LetterInv, SeenInv, [Next]_vars  PROVE SeenInv'
  OBVIOUS
<1> USE DEF LetterInv
<1>0. Len(filed) \in Nat /\ \A n \in letters : n \in DOMAIN filed /\ n \in 1..Len(filed)
  BY DEF LettersTypeOK
<1>1. ASSUME NEW job \in Jobs, File(job)  PROVE SeenInv'
  <2>1. /\ \A n \in DOMAIN filed : filed'[n] = filed[n]
        /\ Len(filed') = Len(filed) + 1 /\ letters' = letters \union {Len(filed) + 1}
        /\ UNCHANGED <<asked, askedAt, hasRead, rest, errors>>
    BY <1>1, FilingAppends DEF File, NoError, requestVars, LettersTypeOK
  <2>2. ASSUME NEW o \in Operators  PROVE askedAt[o] \in Nat /\ askedAt[o] <= Len(filed)
    BY DEF SeenInv, LettersTypeOK
  <2>3. \A o \in Operators : LettersOf(asked[o])' \subseteq LettersOf(asked[o]) \union {Len(filed) + 1}
    BY <1>0, <2>1 DEF LettersOf
  <2> QED  BY <1>0, <2>1, <2>2, <2>3 DEF SeenInv
<1>2. ASSUME NEW o \in Operators, NEW job \in Jobs, Ask(o, job)  PROVE SeenInv'
  <2>1. ~hasRead[o]
    BY <1>2, LetterAssumption DEF Ask, RestInv
  <2> QED  BY <1>0, <1>2, <2>1 DEF Ask, SeenInv, LettersTypeOK, LettersOf, NoError, queueVars
<1>3. ASSUME NEW o \in Operators, ReadAll(o)  PROVE SeenInv'
  <2>1. /\ UNCHANGED <<filed, letters, asked, askedAt>>
        /\ \A p \in Operators \ {o} : hasRead'[p] = hasRead[p] /\ rest'[p] = rest[p]
                                    /\ errors'[p] = errors[p]
        /\ rest'[o] = LettersOf(asked[o]) \/ errors'[o] # 0
    BY <1>3 DEF ReadAll, NoError, Error, LettersTypeOK, queueVars
  <2> QED  BY <2>1 DEF SeenInv, LettersOf
<1>4. ASSUME NEW o \in Operators, RemoveEntry(o)  PROVE SeenInv'
  <2>1. /\ UNCHANGED <<filed, asked, askedAt, hasRead>> /\ letters' \subseteq letters
        /\ \A p \in Operators \ {o} : rest'[p] = rest[p] /\ errors'[p] = errors[p]
        /\ (rest'[o] = rest[o] /\ errors'[o] = errors[o]) \/ errors'[o] # 0
    BY <1>4 DEF RemoveEntry, NoError, Error, LettersTypeOK
  <2> QED  BY <2>1 DEF SeenInv, LettersOf
<1>5. ASSUME UNCHANGED <<filed, letters, asked, askedAt, hasRead, rest, errors>>  PROVE SeenInv'
  BY <1>5 DEF SeenInv, LettersOf
<1>6. ASSUME NEW o \in Operators, NotFound(o)  PROVE SeenInv'
  BY <1>5, <1>6 DEF NotFound, NoError, queueVars
<1>7. CASE StartReading \/ ReadPage \/ UNCHANGED vars
  BY <1>5, <1>7 DEF StartReading, ReadPage, NoError, vars, queueVars, requestVars
<1> QED  BY <1>1, <1>2, <1>3, <1>4, <1>6, <1>7 DEF Next

LEMMA SeenAlways == Spec => []SeenInv
<1>1. Init => SeenInv
  BY DEF Init, SeenInv
<1> QED  BY <1>1, SeenStep, LetterInvAlways, PTL DEF Spec

(***************************************************************************)
(* The refinement. Reading the list is a stutter; the LREM is where the    *)
(* deletion happens, or finds that another one was faster.                 *)
(***************************************************************************)
Failed == {o \in Operators : errors[o] > 0}

LEMMA BoxInit == Init => Box!Init
BY DEF Init, Box!Init

\* A failed call of a request is one of its own, and shows that calls may fail.
LEMMA FailureCounts ==
  ASSUME LettersTypeOK, NEW o \in Operators
  PROVE  /\ NoError => Failed' = Failed
         /\ Error(o) => Failed' = Failed \union {o} /\ MaxErrors > 0
<1>1. ASSUME Error(o)  PROVE Failed' = Failed \union {o} /\ MaxErrors > 0
  BY <1>1, LetterAssumption DEF Error, Failed, LettersTypeOK
<1> QED  BY <1>1 DEF NoError, Failed

LEMMA BoxStep == LetterInv /\ SeenInv /\ [Next]_vars => [Box!Next]_Box!vars
<1> SUFFICES ASSUME LetterInv, SeenInv, [Next]_vars  PROVE [Box!Next]_Box!vars
  OBVIOUS
<1> USE DEF LetterInv
<1>0. \A o \in Operators : /\ NoError => Failed' = Failed
                           /\ Error(o) => Failed' = Failed \union {o} /\ MaxErrors > 0
  BY FailureCounts
<1>1. ASSUME NEW job \in Jobs, File(job)  PROVE Box!Next
  BY <1>1 DEF File, NoError, Box!Next, Box!File, requestVars
<1>2. ASSUME NEW o \in Operators, NEW job \in Jobs, Ask(o, job)  PROVE Box!Next
  BY <1>2 DEF Ask, NoError, Box!Next, Box!Ask, queueVars
<1>3. ASSUME NEW o \in Operators, Waiting(o)  PROVE Box!Waiting(o)
  BY <1>3 DEF Waiting, Box!Waiting, LettersTypeOK
<1>4. ASSUME NEW o \in Operators, ReadAll(o)  PROVE Box!Next \/ UNCHANGED Box!vars
  <2>1. CASE NoError /\ UNCHANGED answer
    BY <1>4, <2>1 DEF ReadAll, NoError, Box!vars, queueVars
  <2>2. CASE Error(o) /\ Respond(o, "error")
    <3>1. MaxErrors > 0 /\ Failed' = Failed \union {o}
      BY <1>0, <2>2
    <3>2. Box!Fail(o)
      BY <1>3, <1>4, <2>2, <3>1 DEF ReadAll, Respond, Box!Fail, Box!Respond, queueVars, Failed
    <3> QED  BY <3>2 DEF Box!Next
  <2> QED  BY <1>4, <2>1, <2>2 DEF ReadAll
<1>5. ASSUME NEW o \in Operators, RemoveEntry(o)  PROVE Box!Next \/ UNCHANGED Box!vars
  <2>1. PICK n \in rest[o] :
          \/ /\ Respond(o, "deleted") /\ NoError
             /\ letters' = letters \ {n}
          \/ /\ Error(o) /\ UNCHANGED answer
             /\ (letters' = letters \ {n} \/ UNCHANGED letters)
    BY <1>5 DEF RemoveEntry
  <2>2. n \in DOMAIN filed /\ filed[n] = asked[o] /\ Box!Waiting(o)
    BY <1>3, <1>5 DEF RemoveEntry, RestInv
  <2>3. UNCHANGED <<filed, asked, askedAt>>
    BY <1>5 DEF RemoveEntry
  <2>4. CASE Respond(o, "deleted") /\ NoError /\ letters' = letters \ {n} /\ n \in letters
    <3>1. n \in Box!LettersOf(asked[o])
      BY <2>2, <2>4 DEF Box!LettersOf
    <3>2. Box!Delete(o)
      BY <2>2, <2>3, <2>4, <3>1 DEF Respond, NoError, Box!Delete, Box!Respond
    <3> QED  BY <3>2 DEF Box!Next
  <2>5. CASE Respond(o, "deleted") /\ NoError /\ letters' = letters \ {n} /\ n \notin letters
    <3>1. Box!DeletedBefore(o)
      BY <2>2, <2>3, <2>5 DEF Respond, NoError, Box!DeletedBefore, Box!Respond
    <3> QED  BY <3>1 DEF Box!Next
  <2>6. CASE Error(o) /\ UNCHANGED answer /\ (letters' = letters \ {n} \/ UNCHANGED letters)
    <3>1. MaxErrors > 0 /\ Failed' = Failed \union {o}
      BY <1>0, <2>6
    <3>2. n \in letters => n \in Box!LettersOf(asked[o])
      BY <2>2 DEF Box!LettersOf
    <3>3. Box!LoseReply(o)
      BY <2>2, <2>3, <2>6, <3>1, <3>2 DEF Box!LoseReply, Failed
    <3> QED  BY <3>3 DEF Box!Next
  <2> QED  BY <2>1, <2>4, <2>5, <2>6
<1>6. ASSUME NEW o \in Operators, NotFound(o)  PROVE Box!Next
  <2>1. errors[o] = 0 => \A n \in Box!LettersOf(asked[o]) : n > askedAt[o]
    BY <1>6 DEF NotFound, SeenInv, LettersOf, Box!LettersOf
  <2>2. errors[o] = 0 \/ o \in Failed
    BY DEF Failed, LettersTypeOK
  <2>3. Box!NotFound(o)
    BY <1>3, <1>6, <2>1, <2>2 DEF NotFound, Respond, NoError, Failed, Box!NotFound, Box!Respond, queueVars
  <2> QED  BY <2>3 DEF Box!Next
<1>7. CASE StartReading \/ ReadPage \/ UNCHANGED vars
  BY <1>7 DEF StartReading, ReadPage, NoError, vars, queueVars, requestVars, Box!vars
<1> QED  BY <1>1, <1>2, <1>4, <1>5, <1>6, <1>7 DEF Next

\* DELETE /dlq/:jobId, a read and a removal by value that other requests and
\* filings come between, does what one atomic deletion would; a request none of
\* whose calls failed answers 404 only when all it could have found was deleted.
THEOREM RoutesImplementBox == Spec => ImplementsBox
BY BoxInit, BoxStep, LetterInvAlways, SeenAlways, PTL DEF Spec, ImplementsBox, Box!Spec

\* Nobody's letter is lost but one whose job some request named.
THEOREM NobodyElsesLetterSafe == Spec => []NobodyElsesLetter
<1>1. Init => NobodyElsesLetter
  BY DEF Init, NobodyElsesLetter
<1>2. LetterInv /\ NobodyElsesLetter /\ [Next]_vars => NobodyElsesLetter'
  <2> SUFFICES ASSUME LetterInv, NobodyElsesLetter, [Next]_vars  PROVE NobodyElsesLetter'
    OBVIOUS
  <2>1. ASSUME NEW job \in Jobs, File(job)  PROVE NobodyElsesLetter'
    <3>1. /\ DOMAIN filed' = DOMAIN filed \union {Len(filed) + 1}
          /\ \A n \in DOMAIN filed : filed'[n] = filed[n]
      BY <2>1, FilingAppends DEF File, LetterInv, LettersTypeOK
    <3> QED  BY <2>1, <3>1 DEF File, NobodyElsesLetter, requestVars
  <2>2. ASSUME NEW o \in Operators, NEW job \in Jobs, Ask(o, job)  PROVE NobodyElsesLetter'
    <3>1. \A p \in Operators : asked[p] \in Jobs => asked'[p] = asked[p]
      BY <2>2, LetterAssumption DEF Ask, LetterInv, LettersTypeOK
    <3>2. \A n \in DOMAIN filed : filed[n] \in Jobs
      BY DEF LetterInv, LettersTypeOK
    <3> QED  BY <2>2, <3>1, <3>2 DEF Ask, NobodyElsesLetter, queueVars
  <2>3. ASSUME NEW o \in Operators, RemoveEntry(o)  PROVE NobodyElsesLetter'
    <3>1. PICK n \in rest[o] : letters' = letters \ {n} \/ UNCHANGED letters
      BY <2>3 DEF RemoveEntry
    <3>2. filed[n] = asked[o]
      BY DEF LetterInv, RestInv
    <3> QED  BY <2>3, <3>1, <3>2 DEF RemoveEntry, NobodyElsesLetter
  <2>4. ASSUME UNCHANGED <<filed, letters, asked>>  PROVE NobodyElsesLetter'
    BY <2>4 DEF NobodyElsesLetter
  <2>5. ASSUME NEW o \in Operators, ReadAll(o) \/ NotFound(o)  PROVE NobodyElsesLetter'
    BY <2>4, <2>5 DEF ReadAll, NotFound, queueVars
  <2>6. CASE StartReading \/ ReadPage \/ UNCHANGED vars
    BY <2>4, <2>6 DEF StartReading, ReadPage, vars, queueVars, requestVars
  <2> QED  BY <2>1, <2>2, <2>3, <2>5, <2>6 DEF Next
<1> QED  BY <1>1, <1>2, LetterInvAlways, PTL DEF Spec

\* Every reachable state of the routes is well typed: what they remove and what
\* a reader was sent are entries that were filed.
THEOREM LettersTypeCorrect == Spec => []LettersTypeOK
<1>1. LetterInv => LettersTypeOK
  BY DEF LetterInv
<1> QED  BY <1>1, LetterInvAlways, PTL

(***************************************************************************)
(* Paging. A deletion moves the entries behind it one place towards the    *)
(* head: at most one of them slips over the border between what the reader *)
(* was sent and what it will ask for. A filing moves entries the other     *)
(* way, where they are only sent again.                                    *)
(***************************************************************************)
GoneBefore == 1..before.filings \ before.letters
GoneSince  == (DOMAIN filed \ letters) \ GoneBefore

\* Entries the reader should have been sent, and those of them that stand before
\* the place from which it reads next.
Unsent == (before.letters \intersect letters) \ seen
Missed == {n \in Unsent : Index(n) < page * Limit}

PagesInv ==
  /\ before.letters \subseteq 1..before.filings /\ before.filings <= Len(filed)
  /\ letters \intersect GoneBefore = {}
  /\ reading => Cardinality(Missed) <= Cardinality(GoneSince)
  /\ page > 0 /\ ~reading => Cardinality(Unsent) <= Cardinality(GoneSince)

\* An entry has as many before it as its place says, and entries are in order.
LEMMA IndexFacts ==
  ASSUME LettersTypeOK
  PROVE  /\ IsFiniteSet(letters) /\ IsFiniteSet(DOMAIN filed) /\ DOMAIN filed \subseteq Nat
         /\ Cardinality(letters) \in Nat
         /\ \A n \in Nat : Index(n) \in Nat /\ IsFiniteSet({m \in letters : m > n})
         /\ \A n \in letters : Index(n) < Cardinality(letters)
         /\ \A n, m \in letters : n < m => Index(m) < Index(n)
<1>1. IsFiniteSet(DOMAIN filed) /\ DOMAIN filed \subseteq Nat /\ letters \subseteq DOMAIN filed
  <2>1. filed \in Seq(Jobs) /\ Len(filed) \in Nat /\ DOMAIN filed = 1..Len(filed)
    BY DEF LettersTypeOK
  <2>2. IsFiniteSet(1..Len(filed))
    BY <2>1, FS_Interval
  <2> QED  BY <2>1, <2>2 DEF LettersTypeOK
<1>2. IsFiniteSet(letters) /\ Cardinality(letters) \in Nat
  BY <1>1, FS_Subset, FS_CardinalityType
<1>3. ASSUME NEW n \in Nat
      PROVE  /\ IsFiniteSet({m \in letters : m > n}) /\ Index(n) \in Nat
             /\ Index(n) = Cardinality({m \in letters : m > n})
  <2> DEFINE above == {m \in letters : m > n}
  <2>1. above \in SUBSET letters
    OBVIOUS
  <2> HIDE DEF above
  <2>2. IsFiniteSet(above) /\ Cardinality(above) \in Nat
    BY <1>2, <2>1, FS_Subset, FS_CardinalityType
  <2> QED  BY <2>2 DEF Index, above
<1>4. ASSUME NEW n \in letters  PROVE Index(n) < Cardinality(letters)
  <2> DEFINE above == {m \in letters : m > n}
  <2>1. above \in SUBSET letters /\ n \notin above /\ n \in Nat
    BY <1>1
  <2> HIDE DEF above
  <2>2. Cardinality(above) <= Cardinality(letters) /\ Cardinality(above) # Cardinality(letters)
    BY <1>2, <2>1, FS_Subset
  <2>3. Index(n) = Cardinality(above) /\ Index(n) \in Nat
    BY <1>3, <2>1 DEF above
  <2> QED  BY <1>2, <2>2, <2>3
<1>5. ASSUME NEW n \in letters, NEW m \in letters, n < m  PROVE Index(m) < Index(n)
  <2> DEFINE aboveN == {l \in letters : l > n}
             aboveM == {l \in letters : l > m}
  <2>1. n \in Nat /\ m \in Nat /\ \A l \in letters : l \in Nat
    BY <1>1
  <2>2. aboveM \in SUBSET aboveN /\ m \in aboveN /\ m \notin aboveM
    <3>1. \A l \in letters : l > m => l > n
      BY <1>5, <2>1
    <3>2. m > n /\ ~(m > m)
      BY <1>5, <2>1
    <3> QED  BY <3>1, <3>2
  <2>3. /\ Index(n) = Cardinality(aboveN) /\ Index(n) \in Nat /\ IsFiniteSet(aboveN)
        /\ Index(m) = Cardinality(aboveM) /\ Index(m) \in Nat
    BY <1>3, <2>1
  <2> HIDE DEF aboveN, aboveM
  <2>4. Cardinality(aboveM) <= Cardinality(aboveN) /\ Cardinality(aboveM) # Cardinality(aboveN)
    BY <2>2, <2>3, FS_Subset
  <2> QED  BY <2>3, <2>4
<1> QED  BY <1>1, <1>2, <1>3, <1>4, <1>5

\* A page that is not full is the last: no entry stands behind it.
LEMMA ShortPageIsLast ==
  ASSUME LettersTypeOK, Cardinality(PageItems) # Limit, NEW n \in letters
  PROVE  Index(n) < page * Limit + Limit
<1>1. PICK start \in Nat : start = page * Limit
  BY LetterAssumption DEF LettersTypeOK
<1>2. PICK size \in Nat : size = Cardinality(letters)
  BY IndexFacts
<1> DEFINE place == [m \in letters |-> Index(m)]
           onPage == start..(start + Limit - 1)
<1>3. Limit \in Nat \ {0}
  BY LetterAssumption
<1>4. \A m \in letters : m \in Nat /\ Index(m) \in Nat /\ Index(m) < size
  BY <1>2, IndexFacts DEF LettersTypeOK
<1>5. place \in Injection(letters, 0..(size - 1))
  <2>1. place \in [letters -> 0..(size - 1)]
    BY <1>2, <1>4
  <2>2. \A m, k \in letters : Index(m) = Index(k) => m = k
    <3> SUFFICES ASSUME NEW m \in letters, NEW k \in letters, Index(m) = Index(k), m # k
                 PROVE  FALSE
      OBVIOUS
    <3>1. m < k \/ k < m
      BY <1>4
    <3> QED  BY <1>4, <3>1, IndexFacts
  <2> QED  BY <2>1, <2>2 DEF Injection, IsInjective
<1>6. place \in Surjection(letters, 0..(size - 1))
  <2>1. IsFiniteSet(0..(size - 1)) /\ Cardinality(0..(size - 1)) = size
    <3>1. 0 \in Int /\ size - 1 \in Int /\ (size - 1) - 0 + 1 = size /\ (0 > size - 1 => size = 0)
      BY <1>2
    <3> QED  BY <3>1, FS_Interval
  <2> QED  BY <1>2, <1>5, <2>1, FS_Injection
<1>7. SUFFICES ASSUME Index(n) >= start + Limit  PROVE Cardinality(PageItems) = Limit
  BY <1>1, <1>3, <1>4
<1>8. \A i \in onPage : i \in 0..(size - 1)
  BY <1>3, <1>4, <1>7
<1>9. PageItems = {m \in letters : Index(m) \in onPage}
  BY <1>1 DEF PageItems
<1> DEFINE shown == [m \in PageItems |-> Index(m)]
<1>10. shown \in Bijection(PageItems, onPage)
  <2>1. shown \in [PageItems -> onPage]
    BY <1>9
  <2>2. \A m, k \in PageItems : shown[m] = shown[k] => m = k
    BY <1>5, <1>9 DEF Injection, IsInjective
  <2>3. \A i \in onPage : \E m \in PageItems : shown[m] = i
    BY <1>6, <1>8, <1>9 DEF Surjection
  <2> QED  BY <2>1, <2>2, <2>3 DEF Bijection, Injection, Surjection, IsInjective
<1>11. Cardinality(onPage) = Limit /\ IsFiniteSet(onPage)
  BY <1>3, FS_Interval
<1>12. Cardinality(PageItems) = Cardinality(onPage)
  <2>1. IsFiniteSet(PageItems)
    BY <1>9, IndexFacts, FS_Subset
  <2> QED  BY <1>10, <2>1, FS_Bijection DEF ExistsBijection
<1> QED  BY <1>11, <1>12

LEMMA FiniteParts ==
  ASSUME LettersTypeOK, PagesInv
  PROVE  /\ IsFiniteSet(Unsent) /\ Cardinality(Unsent) \in Nat
         /\ IsFiniteSet(Missed) /\ Cardinality(Missed) \in Nat
         /\ IsFiniteSet(GoneSince) /\ Cardinality(GoneSince) \in Nat
         /\ Missed \subseteq Unsent /\ Unsent \subseteq letters
<1>1. Missed \subseteq Unsent /\ Unsent \subseteq letters /\ GoneSince \subseteq DOMAIN filed
  BY DEF Missed, Unsent, GoneSince
<1>2. IsFiniteSet(letters) /\ IsFiniteSet(DOMAIN filed)
  BY IndexFacts
<1>3. IsFiniteSet(Unsent) /\ IsFiniteSet(GoneSince)
  BY <1>1, <1>2, FS_Subset
<1>4. IsFiniteSet(Missed)
  BY <1>1, <1>3, FS_Subset
<1> QED  BY <1>1, <1>3, <1>4, FS_CardinalityType

\* A filing sends nobody's entry to the far side of the border.
LEMMA FilePages ==
  ASSUME LetterInv, PagesInv, NEW job \in Jobs, File(job)
  PROVE  PagesInv'
<1> USE DEF LetterInv
<1>1. /\ DOMAIN filed' = DOMAIN filed \union {Len(filed) + 1}
      /\ Len(filed) + 1 \notin DOMAIN filed /\ Len(filed') = Len(filed) + 1
      /\ letters' = letters \union {Len(filed) + 1}
      /\ Len(filed) \in Nat /\ DOMAIN filed = 1..Len(filed)
      /\ UNCHANGED <<before, page, reading, seen>>
  BY FilingAppends DEF File, readerVars, LettersTypeOK
<1>2. before.filings \in Nat
  BY DEF LettersTypeOK
<1>3. Len(filed) + 1 \notin before.letters /\ Len(filed) + 1 \notin GoneBefore
  BY <1>1, <1>2 DEF PagesInv, GoneBefore
<1>4. /\ UNCHANGED <<GoneBefore, Unsent>> /\ GoneSince' = GoneSince
      /\ (letters \intersect GoneBefore = {})'
  BY <1>1, <1>3 DEF GoneBefore, GoneSince, Unsent, PagesInv
<1>5. IsFiniteSet(letters')
  BY <1>1, IndexFacts, FS_AddElement
<1>6. ASSUME NEW n \in letters  PROVE Index(n)' \in Nat /\ Index(n) <= Index(n)'
  <2>1. /\ {m \in letters : m > n} \in SUBSET {m \in letters' : m > n}
        /\ {m \in letters' : m > n} \in SUBSET letters'
    BY <1>1
  <2>2. IsFiniteSet({m \in letters' : m > n})
    BY <1>5, <2>1, FS_Subset
  <2> QED  BY <2>1, <2>2, FS_Subset, FS_CardinalityType DEF Index
<1>7. Missed' \in SUBSET Missed
  <2>1. \A n \in letters : n \in Nat /\ Index(n) \in Nat
    BY IndexFacts DEF LettersTypeOK
  <2>2. page * Limit \in Nat
    BY LetterAssumption DEF LettersTypeOK
  <2>3. \A n \in letters : Index(n)' < page * Limit => Index(n) < page * Limit
    BY <1>6, <2>1, <2>2
  <2> QED  BY <1>1, <1>4, <2>3, FiniteParts DEF Missed
<1>8. reading' => Cardinality(Missed') <= Cardinality(GoneSince')
  <2>1. Cardinality(Missed') <= Cardinality(Missed) /\ IsFiniteSet(Missed')
    BY <1>7, FiniteParts, FS_Subset
  <2>2. Cardinality(Missed') \in Nat
    BY <2>1, FS_CardinalityType
  <2> QED  BY <1>1, <1>4, <2>1, <2>2, FiniteParts DEF PagesInv
<1>9. before'.letters \subseteq 1..before'.filings /\ before'.filings <= Len(filed')
  BY <1>1, <1>2 DEF PagesInv
<1> QED  BY <1>1, <1>4, <1>8, <1>9 DEF PagesInv

\* A deletion brings at most one entry over the border, and counts for one.
LEMMA RemovalPages ==
  ASSUME LetterInv, PagesInv, NEW k \in letters, letters' = letters \ {k},
         UNCHANGED <<filed, before, page, reading, seen>>
  PROVE  PagesInv'
<1> USE DEF LetterInv
<1>1. UNCHANGED GoneBefore /\ GoneSince' = GoneSince \union {k} /\ k \notin GoneSince
      /\ Unsent' = Unsent \ {k}
  BY DEF GoneBefore, GoneSince, Unsent, PagesInv, LettersTypeOK
<1>2. /\ Cardinality(GoneSince') = Cardinality(GoneSince) + 1
      /\ Cardinality(GoneSince) \in Nat /\ Cardinality(Missed) \in Nat
      /\ Cardinality(Unsent) \in Nat
  BY <1>1, FiniteParts, FS_AddElement
<1>3. ASSUME NEW n \in letters
      PROVE  Index(n) \in Nat /\ Index(n)' \in {Index(n), Index(n) - 1}
  <2> DEFINE above == {m \in letters : m > n}
  <2>1. {m \in letters' : m > n} = above \ {k}
    OBVIOUS
  <2>2. n \in Nat
    BY IndexFacts DEF LettersTypeOK
  <2>3. IsFiniteSet(above) /\ Index(n) \in Nat
    BY <2>2, IndexFacts
  <2> HIDE DEF above
  <2>4. Cardinality(above \ {k}) \in {Cardinality(above), Cardinality(above) - 1}
    BY <2>3, FS_RemoveElement
  <2>5. Index(n) = Cardinality(above) /\ Index(n)' = Cardinality(above \ {k})
    BY <2>1 DEF Index, above
  <2> QED  BY <2>3, <2>4, <2>5
<1>4. PICK border \in Nat : border = page * Limit
  BY LetterAssumption DEF LettersTypeOK
<1>5. \A n \in letters : Index(n)' < border => Index(n) < border \/ Index(n) = border
  BY <1>3, <1>4
<1>6. \E x : Missed' \subseteq Missed \union {x}
  <2>1. \A n \in Missed' : n \in Unsent /\ n \in letters /\ Index(n)' < border
    BY <1>1, <1>4, FiniteParts DEF Missed
  <2>2. \A n \in Missed' : n \in Missed \/ (n \in letters /\ Index(n) = border)
    BY <1>4, <1>5, <2>1 DEF Missed
  <2>3. \A n, m \in letters : Index(n) = border /\ Index(m) = border => n = m
    <3> SUFFICES ASSUME NEW n \in letters, NEW m \in letters, Index(n) = border, Index(m) = border,
                        n # m
                 PROVE  FALSE
      OBVIOUS
    <3>1. n < m \/ m < n
      BY IndexFacts DEF LettersTypeOK
    <3>2. Index(m) < Index(n) \/ Index(n) < Index(m)
      BY <3>1, IndexFacts
    <3> QED  BY <3>2, <1>4
  <2>4. CASE \E x \in letters : Index(x) = border
    BY <2>2, <2>3, <2>4
  <2>5. CASE ~\E x \in letters : Index(x) = border
    BY <2>2, <2>5
  <2> QED  BY <2>4, <2>5
<1>7. Cardinality(Missed') \in Nat /\ Cardinality(Missed') <= Cardinality(Missed) + 1
  <2>1. PICK x : Missed' \subseteq Missed \union {x}
    BY <1>6
  <2>2. /\ IsFiniteSet(Missed \union {x})
        /\ Cardinality(Missed \union {x}) <= Cardinality(Missed) + 1
        /\ Cardinality(Missed \union {x}) \in Nat
    <3>1. IsFiniteSet(Missed)
      BY FiniteParts
    <3>2. /\ IsFiniteSet(Missed \union {x})
          /\ Cardinality(Missed \union {x}) =
               IF x \in Missed THEN Cardinality(Missed) ELSE Cardinality(Missed) + 1
      BY <3>1, FS_AddElement
    <3> QED  BY <1>2, <3>2
  <2>3. IsFiniteSet(Missed') /\ Cardinality(Missed') <= Cardinality(Missed \union {x})
    BY <2>1, <2>2, FS_Subset
  <2> QED  BY <1>2, <2>2, <2>3, FS_CardinalityType
<1>8. Cardinality(Unsent') \in Nat /\ Cardinality(Unsent') <= Cardinality(Unsent)
  <2>1. IsFiniteSet(Unsent) /\ Unsent' \in SUBSET Unsent
    BY <1>1, FiniteParts
  <2> QED  BY <2>1, FS_Subset, FS_CardinalityType
<1>9. reading' => Cardinality(Missed') <= Cardinality(GoneSince')
  BY <1>2, <1>7 DEF PagesInv
<1>10. page' > 0 /\ ~reading' => Cardinality(Unsent') <= Cardinality(GoneSince')
  BY <1>2, <1>8 DEF PagesInv
<1> QED  BY <1>1, <1>9, <1>10 DEF PagesInv

\* Nothing is missed that stood on the page; after a short one, nothing at all.
LEMMA ReadingPages ==
  ASSUME LetterInv, PagesInv, ReadPage
  PROVE  PagesInv'
<1> USE DEF LetterInv
<1>1. /\ UNCHANGED <<filed, letters, before>> /\ reading
      /\ page' = page + 1 /\ seen' = seen \union PageItems
      /\ reading' = (Cardinality(PageItems) = Limit)
  BY DEF ReadPage, queueVars
<1>2. UNCHANGED <<GoneBefore, GoneSince>> /\ Unsent' = Unsent \ PageItems
  BY <1>1 DEF GoneBefore, GoneSince, Unsent
<1>3. PICK border \in Nat : border = page * Limit
  BY LetterAssumption DEF LettersTypeOK
<1>4. /\ page' * Limit = border + Limit /\ Limit \in Nat
      /\ \A n \in letters : Index(n) \in Nat /\ Index(n)' = Index(n)
  <2>1. page \in Nat /\ Limit \in Nat
    BY LetterAssumption DEF LettersTypeOK
  <2>2. page' * Limit = page * Limit + Limit
    BY <1>1, <2>1
  <2>3. \A n \in letters : Index(n) \in Nat
    BY IndexFacts DEF LettersTypeOK
  <2> QED  BY <1>1, <1>3, <2>1, <2>2, <2>3 DEF Index
<1>5. ASSUME NEW n \in Unsent \ PageItems, Index(n) < border + Limit  PROVE n \in Missed
  <2>1. n \in letters /\ Index(n) \in Nat
    BY <1>4, FiniteParts
  <2>2. Index(n) < border
    BY <1>3, <1>4, <1>5, <2>1 DEF PageItems
  <2> QED  BY <1>3, <1>5, <2>2 DEF Missed
<1>6. Missed' \in SUBSET Missed
  BY <1>1, <1>2, <1>4, <1>5, FiniteParts DEF Missed
<1>7. ~reading' => Unsent' \in SUBSET Missed
  BY <1>1, <1>2, <1>3, <1>5, FiniteParts, ShortPageIsLast
<1>8. ASSUME NEW S \in SUBSET Missed  PROVE Cardinality(S) <= Cardinality(GoneSince)
  <2>1. Cardinality(S) \in Nat /\ Cardinality(S) <= Cardinality(Missed)
    BY FiniteParts, FS_Subset, FS_CardinalityType
  <2> QED  BY <1>1, <2>1, FiniteParts DEF PagesInv
<1> QED  BY <1>1, <1>2, <1>6, <1>7, <1>8 DEF PagesInv

LEMMA PagesStep == LetterInv /\ PagesInv /\ [Next]_vars => PagesInv'
<1> SUFFICES ASSUME LetterInv, PagesInv, [Next]_vars  PROVE PagesInv'
  OBVIOUS
<1>1. ASSUME UNCHANGED <<queueVars, readerVars>>  PROVE PagesInv'
  BY <1>1 DEF queueVars, readerVars, PagesInv, GoneBefore, GoneSince, Unsent, Missed, Index
<1>2. ASSUME NEW o \in Operators, RemoveEntry(o)  PROVE PagesInv'
  <2>1. /\ UNCHANGED <<filed, before, page, reading, seen>>
        /\ \E k \in rest[o] : letters' = letters \ {k} \/ letters' = letters
    BY <1>2 DEF RemoveEntry, readerVars
  <2>2. CASE letters' = letters
    BY <1>1, <2>1, <2>2 DEF queueVars, readerVars
  <2>3. CASE \E k \in letters : letters' = letters \ {k}
    BY <2>1, <2>3, RemovalPages
  <2> QED  BY <2>1, <2>2, <2>3
<1>3. CASE StartReading
  <2>1. /\ UNCHANGED <<filed, letters, page, seen>> /\ page = 0 /\ reading'
        /\ before' = [letters |-> letters, filings |-> Len(filed)]
    BY <1>3 DEF StartReading, queueVars
  <2>2. letters \subseteq 1..Len(filed) /\ Len(filed) \in Nat
    BY DEF LetterInv, LettersTypeOK
  <2>3. Missed' = {}
    <3>1. \A n \in letters : Index(n)' = Index(n) /\ Index(n) \in Nat
      BY <2>1, IndexFacts DEF Index, LetterInv, LettersTypeOK
    <3>2. page' * Limit = 0
      BY <2>1, LetterAssumption
    <3>3. Unsent' \subseteq letters
      BY <2>1 DEF Unsent
    <3> QED  BY <3>1, <3>2, <3>3 DEF Missed
  <2>4. GoneSince' = {}
    BY <2>1, <2>2 DEF GoneSince, GoneBefore, LetterInv, LettersTypeOK
  <2>5. (letters \intersect GoneBefore = {})'
    BY <2>1 DEF GoneBefore
  <2> QED  BY <2>1, <2>2, <2>3, <2>4, <2>5, FS_EmptySet DEF PagesInv
<1>4. ASSUME NEW o \in Operators, ReadAll(o) \/ NotFound(o)  PROVE PagesInv'
  BY <1>1, <1>4 DEF ReadAll, NotFound
<1>5. ASSUME NEW o \in Operators, NEW job \in Jobs, Ask(o, job)  PROVE PagesInv'
  BY <1>1, <1>5 DEF Ask
<1>6. CASE UNCHANGED vars
  BY <1>1, <1>6 DEF vars
<1> QED  BY <1>2, <1>3, <1>4, <1>5, <1>6, FilePages, ReadingPages DEF Next

\* PagesMissNothing: a client that goes through the list by offset, while entries
\* are filed and deleted, misses at most as many entries as were deleted under it.
THEOREM PagesMissNothingSafe == Spec => []PagesMissNothing
<1>1. Init => PagesInv
  <2> SUFFICES ASSUME Init  PROVE PagesInv
    OBVIOUS
  <2>1. Len(filed) = 0 /\ letters = {} /\ page = 0 /\ ~reading
        /\ before.letters = {} /\ before.filings = 0
    BY DEF Init
  <2> QED  BY <2>1 DEF PagesInv
<1>2. PagesInv => PagesMissNothing
  BY DEF PagesInv, PagesMissNothing, Unsent, GoneSince, GoneBefore
<1> QED  BY <1>1, <1>2, PagesStep, LetterInvAlways, PTL DEF Spec
=============================================================================
