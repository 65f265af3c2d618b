------------------------------ MODULE UiProofs ------------------------------
(***************************************************************************)
(* Theorems about the page of one user, for any number of runs and reads   *)
(* under way.                                                              *)
(***************************************************************************)
EXTENDS SubmissionUi, SequenceTheorems, TLAPS

ReadRow == [by : {"finalize", "poll"}, job : Runs, found : JobStatuses]

\* RemoveAt closes the gap: what is left keeps its order.
LEMMA RemoveAtFacts ==
  ASSUME NEW S, NEW s \in Seq(S), NEW i \in 1..Len(s)
  PROVE  /\ RemoveAt(s, i) \in Seq(S) /\ Len(RemoveAt(s, i)) = Len(s) - 1
         /\ \A k \in 1..(Len(s) - 1) : RemoveAt(s, i)[k] = IF k < i THEN s[k] ELSE s[k + 1]
<1> DEFINE a == SubSeq(s, 1, i - 1)
           b == SubSeq(s, i + 1, Len(s))
<1>1. /\ a \in Seq(S) /\ Len(a) = i - 1 /\ \A k \in 1..(i - 1) : a[k] = s[k]
      /\ b \in Seq(S) /\ Len(b) = Len(s) - i /\ \A k \in 1..(Len(s) - i) : b[k] = s[i + k]
  BY LenProperties
<1>2. RemoveAt(s, i) = a \o b
  BY DEF RemoveAt
<1> HIDE DEF a, b
<1>3. /\ a \o b \in Seq(S) /\ Len(a \o b) = Len(s) - 1
      /\ \A k \in 1..(Len(s) - 1) : (a \o b)[k] = IF k <= i - 1 THEN a[k] ELSE b[k - (i - 1)]
  <2>1. /\ a \o b \in Seq(S) /\ Len(a \o b) = Len(a) + Len(b)
        /\ \A k \in 1..(Len(a) + Len(b)) :
             (a \o b)[k] = IF k <= Len(a) THEN a[k] ELSE b[k - Len(a)]
    BY <1>1, ConcatProperties
  <2>2. Len(a) + Len(b) = Len(s) - 1
    BY <1>1, LenProperties
  <2> QED  BY <1>1, <2>1, <2>2
<1>4. ASSUME NEW k \in 1..(Len(s) - 1)  PROVE (a \o b)[k] = IF k < i THEN s[k] ELSE s[k + 1]
  <2>1. CASE k < i
    BY <1>1, <1>3, <2>1, LenProperties
  <2>2. CASE ~(k < i)
    <3>1. k - (i - 1) \in 1..(Len(s) - i) /\ i + (k - (i - 1)) = k + 1
      BY <2>2, LenProperties
    <3> QED  BY <1>1, <1>3, <2>2, <3>1, LenProperties
  <2> QED  BY <2>1, <2>2
<1> QED  BY <1>2, <1>3, <1>4

(***************************************************************************)
(* Jobs and their reads. A job that something goes on for was submitted,   *)
(* and what a read has found was true.                                     *)
(***************************************************************************)
Known(r) == jobStatus[r] # "none"

JobsKnown ==
  /\ \A r \in Runs : Known(r) => r \notin submits
  /\ \A r \in Runs : Known(r) \/ r \in submits => r <= lastRun
  /\ \A r \in timers \union polls : Known(r)
  /\ \A r \in Runs : socket[r] # "none" => Known(r)
  /\ \A i \in DOMAIN reads : Known(reads[i].job) /\ reads[i].found # "none"
  /\ \A i \in DOMAIN reads : reads[i].found = "COMPLETED" => jobStatus[reads[i].job] = "COMPLETED"

UiBase == UiTypeOK /\ JobsKnown

LEMMA ReadsAreRows ==
  ASSUME UiTypeOK
  PROVE  /\ reads \in Seq(ReadRow) /\ DOMAIN reads = 1..Len(reads) /\ Len(reads) \in Nat
         /\ \A i \in DOMAIN reads : reads[i] \in ReadRow
<1>1. reads \in Seq(ReadRow)
  BY DEF UiTypeOK, ReadRow
<1> QED  BY <1>1, ElementOfSeq, LenProperties

\* What a read asks for, and what is left of the reads when one is answered.
LEMMA ReadAsked ==
  ASSUME UiTypeOK, NEW by \in {"finalize", "poll"}, NEW r \in Runs, GetSubmission(by, r)
  PROVE  /\ reads' \in Seq(ReadRow) /\ Len(reads') = Len(reads) + 1
         /\ DOMAIN reads' = DOMAIN reads \union {Len(reads) + 1}
         /\ \A i \in DOMAIN reads : reads'[i] = reads[i]
         /\ reads'[Len(reads) + 1] = [by |-> by, job |-> r, found |-> jobStatus[r]]
<1>1. [by |-> by, job |-> r, found |-> jobStatus[r]] \in ReadRow /\ reads \in Seq(ReadRow)
  BY DEF UiTypeOK, ReadRow
<1> QED  BY <1>1 DEF GetSubmission

LEMMA ReadArrives ==
  ASSUME UiTypeOK, NEW i \in DOMAIN reads, Arrives(i)
  PROVE  /\ reads[i] \in ReadRow
         /\ reads' \in Seq(ReadRow) /\ Len(reads') = Len(reads) - 1 /\ DOMAIN reads = 1..Len(reads)
         /\ DOMAIN reads' = 1..(Len(reads) - 1)
         /\ \A k \in DOMAIN reads' : /\ k \in DOMAIN reads /\ k + 1 \in DOMAIN reads
                                     /\ reads'[k] = reads[k] \/ reads'[k] = reads[k + 1]
                                     /\ i = 1 => reads'[k] = reads[k + 1]
<1>1. reads \in Seq(ReadRow) /\ DOMAIN reads = 1..Len(reads) /\ Len(reads) \in Nat
  BY DEF UiTypeOK, ReadRow
<1>2. /\ reads' \in Seq(ReadRow) /\ Len(reads') = Len(reads) - 1
      /\ \A k \in 1..(Len(reads) - 1) : reads'[k] = IF k < i THEN reads[k] ELSE reads[k + 1]
  BY <1>1, RemoveAtFacts DEF Arrives
<1> QED  BY <1>1, <1>2

LEMMA InitBase == Init => UiBase
<1> SUFFICES ASSUME Init  PROVE UiBase
  OBVIOUS
<1>1. reads = <<>> /\ DOMAIN reads = {} /\ reads \in Seq(ReadRow)
  BY DEF Init
<1>2. UiTypeOK
  BY <1>1, UiAssumption DEF Init, UiTypeOK, ReadRow, Outcomes, Mishaps, JobStatuses
<1>3. JobsKnown
  BY <1>1 DEF Init, JobsKnown, Known
<1> QED  BY <1>2, <1>3 DEF UiBase

LEMMA BaseStep == UiBase /\ [Next]_vars => UiBase'
<1> SUFFICES ASSUME UiBase, [Next]_vars  PROVE UiBase'
  OBVIOUS
<1> USE DEF pageVars, refVars, callVars, wireVars, UiBase
<1>0. Runs \subseteq Nat /\ None \notin Runs /\ lastRun \in Nat
  BY UiAssumption DEF Runs, None, UiTypeOK
<1>1. CASE Run
  <2>1. lastRun + 1 \in Runs /\ lastRun' = lastRun + 1 /\ lastRun' \in 0..LastRun
    BY <1>1, <1>0, UiAssumption DEF Run, Runs, UiTypeOK
  <2>2. UiTypeOK'
    BY <1>1, <2>1 DEF Run, ClearTimers, UiTypeOK, Mishaps
  <2>3. JobsKnown'
    BY <1>0, <1>1, <2>1 DEF Run, ClearTimers, UiTypeOK, JobsKnown, Known
  <2> QED  BY <2>2, <2>3
<1>2. ASSUME NEW r \in Runs, Submitted(r)  PROVE UiBase'
  <2>1. UiTypeOK'
    BY <1>2 DEF Submitted, AddEntry, UiTypeOK, JobStatuses
  <2>2. JobsKnown'
    <3>1. /\ \A i \in DOMAIN reads : reads[i].job # r
          /\ \A k \in Runs : Known(k) => Known(k)'
      BY <1>2 DEF Submitted, JobsKnown, Known, UiTypeOK
    <3> QED  BY <1>2, <3>1 DEF Submitted, UiTypeOK, JobsKnown, Known
  <2> QED  BY <2>1, <2>2
<1>3. ASSUME NEW r \in Runs, SubmitFails(r)  PROVE UiBase'
  <2>1. UiTypeOK'
    BY <1>3 DEF SubmitFails, KeepHistory, UpdateStatus, UiTypeOK
  <2>2. JobsKnown'
    BY <1>3 DEF SubmitFails, JobsKnown, Known
  <2> QED  BY <2>1, <2>2
<1>4. ASSUME NEW r \in Runs, FallbackTimer(r)  PROVE UiBase'
  <2>1. UiTypeOK'
    BY <1>4 DEF FallbackTimer, StartFallbackPoll, UiTypeOK
  <2>2. JobsKnown'
    BY <1>4 DEF FallbackTimer, StartFallbackPoll, JobsKnown, Known
  <2> QED  BY <2>1, <2>2
<1>5. ASSUME NEW r \in Runs, Poll(r)  PROVE UiBase'
  <2>1. /\ reads' \in Seq(ReadRow) /\ DOMAIN reads' = DOMAIN reads \union {Len(reads) + 1}
        /\ \A i \in DOMAIN reads : reads'[i] = reads[i]
        /\ reads'[Len(reads) + 1] = [by |-> "poll", job |-> r, found |-> jobStatus[r]]
    BY <1>5, ReadAsked DEF Poll
  <2>2. UiTypeOK'
    BY <1>5, <2>1 DEF Poll, UiTypeOK, ReadRow
  <2>3. JobsKnown'
    BY <1>5, <2>1 DEF Poll, JobsKnown, Known
  <2> QED  BY <2>2, <2>3
<1>6. ASSUME NEW r \in Runs, Message(r)  PROVE UiBase'
  <2>1. UiTypeOK'
    BY <1>6 DEF Message, UiTypeOK
  <2>2. JobsKnown'
    BY <1>6 DEF Message, JobsKnown, Known
  <2> QED  BY <2>1, <2>2
<1>7. ASSUME NEW r \in Runs, SocketClosed(r)  PROVE UiBase'
  <2>1. /\ reads' \in Seq(ReadRow) /\ DOMAIN reads' = DOMAIN reads \union {Len(reads) + 1}
        /\ \A i \in DOMAIN reads : reads'[i] = reads[i]
        /\ reads'[Len(reads) + 1] = [by |-> "finalize", job |-> r, found |-> jobStatus[r]]
    BY <1>7, ReadAsked DEF SocketClosed, Finalize
  <2>2. UiTypeOK'
    BY <1>7, <2>1 DEF SocketClosed, Finalize, ClearTimers, UiTypeOK, ReadRow, Mishaps
  <2>3. Known(r)
    BY <1>7 DEF SocketClosed, JobsKnown
  <2>4. JobsKnown'
    BY <1>7, <2>1, <2>3 DEF SocketClosed, Finalize, ClearTimers, JobsKnown, Known, UiTypeOK
  <2> QED  BY <2>2, <2>4
<1>8. ASSUME NEW r \in Runs, SocketFails(r)  PROVE UiBase'
  <2>1. UiTypeOK'
    BY <1>8 DEF SocketFails, StartFallbackPoll, UiTypeOK
  <2>2. JobsKnown'
    BY <1>8 DEF SocketFails, StartFallbackPoll, JobsKnown, Known, UiTypeOK
  <2> QED  BY <2>1, <2>2
<1>9. ASSUME NEW r \in Runs, SocketFallsSilent(r)  PROVE UiBase'
  BY <1>9 DEF SocketFallsSilent, JobsKnown, Known, UiTypeOK
<1>10. ASSUME NEW r \in Runs, JobAdvances(r) \/ JobRetried(r)  PROVE UiBase'
  <2>1. UiTypeOK'
    BY <1>10 DEF JobAdvances, JobRetried, UiTypeOK, JobStatuses
  <2>2. \A k \in Runs : /\ Known(k)' <=> Known(k)
                        /\ jobStatus[k] = "COMPLETED" => jobStatus'[k] = "COMPLETED"
    BY <1>10 DEF JobAdvances, JobRetried, UiTypeOK, Known
  <2>3. \A i \in DOMAIN reads : reads[i].job \in Runs
    BY ReadsAreRows DEF ReadRow
  <2>4. JobsKnown'
    BY <1>10, <2>2, <2>3 DEF JobAdvances, JobRetried, JobsKnown, UiTypeOK
  <2> QED  BY <2>1, <2>4
<1>11. ASSUME NEW i \in DOMAIN reads, FinalReply(i) \/ PollReply(i)  PROVE UiBase'
  <2>1. /\ reads[i] \in ReadRow /\ reads' \in Seq(ReadRow)
        /\ \A k \in DOMAIN reads' : /\ k \in DOMAIN reads /\ k + 1 \in DOMAIN reads
                                    /\ reads'[k] = reads[k] \/ reads'[k] = reads[k + 1]
    BY <1>11, ReadArrives DEF FinalReply, PollReply
  <2>2. reads[i].job \in Runs /\ reads[i].found \in {"PENDING", "RUNNING", "COMPLETED"}
    BY <2>1 DEF ReadRow, JobsKnown, JobStatuses
  <2>3. /\ UNCHANGED <<jobId, output, closeStreamRef, sawFirstMessage, lastRun, submits, wireVars>>
        /\ mishaps' \in {mishaps, mishaps \union {"overtaken_reply"}}
        /\ status' \in {status, "FAILED", reads[i].found} /\ result' \in {result, reads[i].job}
        /\ UNCHANGED <<fallbackTimerRef, pollIntervalRef, timers, polls>> \/ ClearTimers
        /\ KeepHistory
    BY <1>11 DEF FinalReply, PollReply, Arrives, Show
  <2>4. UiTypeOK'
    BY <2>1, <2>2, <2>3 DEF ClearTimers, KeepHistory, UpdateStatus, UiTypeOK, ReadRow, Outcomes,
                            Mishaps
  <2>5. JobsKnown'
    BY <2>1, <2>3 DEF ClearTimers, JobsKnown, Known
  <2> QED  BY <2>4, <2>5
<1>12. CASE UNCHANGED vars
  BY <1>12 DEF vars, UiTypeOK, JobsKnown, Known
<1> QED  BY <1>1, <1>2, <1>3, <1>4, <1>5, <1>6, <1>7, <1>8, <1>9, <1>10, <1>11, <1>12 DEF Next

LEMMA BaseAlways == Spec => []UiBase
BY InitBase, BaseStep, PTL DEF Spec

\* The types of the page, of the timers and polls of the hook, of the sockets
\* and of the reads under way: no reply shows a status that a page has not.
THEOREM UiTypeCorrect == Spec => []UiTypeOK
BY BaseAlways, PTL DEF UiBase

(***************************************************************************)
(* One run at a time. As long as no run was hasty, whatever is under way   *)
(* is for the job on the page, and nothing is while a submission is.       *)
(***************************************************************************)
Live(r)       == socket[r] \in {"open", "closing"}
NothingOnWay  == reads = <<>> /\ timers = {} /\ polls = {} /\ \A r \in Runs : ~Live(r)

OneRun ==
  /\ submits \subseteq {lastRun}
  /\ submits # {} => NothingOnWay /\ result = None /\ output = {} /\ status = "submitting"
  /\ timers \union polls \subseteq {jobId}
  /\ \A r \in Runs : Live(r) => r = jobId
  /\ \A i \in DOMAIN reads : reads[i].job = jobId
  /\ result # None => result = jobId
  /\ output \subseteq {jobId}

\* What the page and the history call completed is.
CallsTrue ==
  /\ status = "COMPLETED" => jobId \in Runs /\ jobStatus[jobId] = "COMPLETED"
  /\ \A r \in Runs : history[r] = "COMPLETED" => jobStatus[r] = "COMPLETED"

OnePage == "hasty_run" \notin mishaps => OneRun /\ CallsTrue

\* A run that is not hasty starts when nothing is under way.
LEMMA RunAtRest ==
  ASSUME UiBase, Run, "hasty_run" \notin mishaps'
  PROVE  AtRest /\ NothingOnWay /\ submits = {} /\ "hasty_run" \notin mishaps
<1>1. AtRest
  BY DEF Run
<1>2. \A r \in Runs : ~Live(r)
  BY <1>1 DEF AtRest, Live
<1> QED  BY <1>1, <1>2 DEF AtRest, NothingOnWay, Run

LEMMA HistoryTrue ==
  ASSUME UiTypeOK, CallsTrue, KeepHistory,
         \A r \in Runs : jobStatus[r] = "COMPLETED" => jobStatus'[r] = "COMPLETED",
         status' = "COMPLETED" => jobId' \in Runs /\ jobStatus'[jobId'] = "COMPLETED"
  PROVE  CallsTrue'
<1>1. history \in [Runs -> {"none", "PENDING", "submit_error"} \union Outcomes]
  BY DEF UiTypeOK
<1>2. ASSUME NEW r \in Runs, history'[r] = "COMPLETED"  PROVE jobStatus'[r] = "COMPLETED"
  <2>1. CASE history' = history
    BY <1>2, <2>1 DEF CallsTrue
  <2>2. CASE history' = [history EXCEPT ![jobId'] = status']
    <3>1. history'[r] = history[r] \/ (r = jobId' /\ history'[r] = status')
      BY <1>1, <2>2
    <3> QED  BY <1>2, <3>1 DEF CallsTrue
  <2> QED  BY <2>1, <2>2 DEF KeepHistory, UpdateStatus
<1> QED  BY <1>2 DEF CallsTrue

LEMMA PageStep ==
  ASSUME UiBase, OnePage, [Next]_vars
  PROVE  OnePage'
<1> USE DEF pageVars, refVars, callVars, wireVars
<1> SUFFICES ASSUME "hasty_run" \notin mishaps'  PROVE OneRun' /\ CallsTrue'
  BY DEF OnePage
<1>0. /\ Runs \subseteq Nat /\ None \notin Runs /\ UiTypeOK /\ JobsKnown
      /\ reads \in Seq(ReadRow) /\ DOMAIN reads = 1..Len(reads) /\ Len(reads) \in Nat
      /\ \A i \in DOMAIN reads : reads[i] \in ReadRow
      /\ socket \in [Runs -> {"none", "open", "closing", "closed"}]
      /\ jobStatus \in [Runs -> JobStatuses]
      /\ history \in [Runs -> {"none", "PENDING", "submit_error"} \union Outcomes]
  <2>1. UiTypeOK /\ JobsKnown
    BY DEF UiBase
  <2>2. Runs \subseteq Nat /\ None \notin Runs
    BY UiAssumption DEF Runs, None
  <2> QED  BY <2>1, <2>2, ReadsAreRows DEF UiTypeOK
<1>a. "hasty_run" \notin mishaps
  BY DEF Next, Run, Submitted, SubmitFails, FallbackTimer, Poll, Message, SocketClosed, SocketFails,
         SocketFallsSilent, JobAdvances, JobRetried, FinalReply, PollReply, Arrives, vars
<1>b. OneRun /\ CallsTrue
  BY <1>a DEF OnePage
<1>1. CASE Run
  <2>1. NothingOnWay /\ submits = {}
    BY <1>1, RunAtRest
  <2>2. \A r \in Runs : ~Live(r)'
    BY <1>0, <1>1, <2>1 DEF Run, NothingOnWay, Live
  <2>3. reads' = <<>> /\ timers' = {} /\ polls' = {} /\ DOMAIN reads' = {}
    BY <1>1, <2>1 DEF Run, NothingOnWay, ClearTimers
  <2>4. /\ submits' = {lastRun'} /\ result' = None /\ output' = {} /\ status' = "submitting"
        /\ NothingOnWay'
    BY <1>1, <2>1, <2>2, <2>3 DEF Run, NothingOnWay
  <2>5. OneRun'
    BY <2>2, <2>3, <2>4 DEF OneRun
  <2>6. CallsTrue'
    BY <1>b, <1>1 DEF Run, CallsTrue
  <2> QED  BY <2>5, <2>6
<1>2. ASSUME NEW r \in Runs, Submitted(r)  PROVE OneRun' /\ CallsTrue'
  <2>1. NothingOnWay /\ result = None /\ output = {} /\ DOMAIN reads = {}
    BY <1>b, <1>2 DEF Submitted, OneRun, NothingOnWay
  <2>2. \A k \in Runs : Live(k)' => k = r
    BY <1>0, <1>2, <2>1 DEF Submitted, NothingOnWay, Live
  <2>3. submits' = {}
    BY <1>b, <1>2 DEF Submitted, OneRun
  <2>4. OneRun'
    BY <1>2, <2>1, <2>2, <2>3 DEF Submitted, OneRun, NothingOnWay
  <2>5. CallsTrue'
    BY <1>0, <1>b, <1>2 DEF Submitted, AddEntry, CallsTrue
  <2> QED  BY <2>4, <2>5
<1>3. ASSUME NEW r \in Runs, SubmitFails(r)  PROVE OneRun' /\ CallsTrue'
  <2>1. submits' = {}
    BY <1>b, <1>3 DEF SubmitFails, OneRun
  <2>2. OneRun'
    BY <1>b, <1>3, <2>1 DEF SubmitFails, OneRun, Live
  <2>3. CallsTrue'
    BY <1>0, <1>b, <1>3, HistoryTrue DEF SubmitFails
  <2> QED  BY <2>2, <2>3
<1>4. ASSUME NEW r \in Runs, FallbackTimer(r)  PROVE OneRun' /\ CallsTrue'
  BY <1>b, <1>4 DEF FallbackTimer, StartFallbackPoll, OneRun, CallsTrue, Live, NothingOnWay
<1>5. ASSUME NEW r \in Runs, Poll(r)  PROVE OneRun' /\ CallsTrue'
  <2>1. /\ DOMAIN reads' = DOMAIN reads \union {Len(reads) + 1}
        /\ \A i \in DOMAIN reads : reads'[i] = reads[i]
        /\ reads'[Len(reads) + 1] = [by |-> "poll", job |-> r, found |-> jobStatus[r]]
    BY <1>0, <1>5, ReadAsked DEF Poll
  <2> QED  BY <1>b, <1>5, <2>1 DEF Poll, OneRun, CallsTrue, Live, NothingOnWay
<1>6. ASSUME NEW r \in Runs, Message(r)  PROVE OneRun' /\ CallsTrue'
  <2>1. Live(r) /\ r = jobId /\ submits = {}
    BY <1>b, <1>6 DEF Message, Hears, Live, OneRun, NothingOnWay
  <2> QED  BY <1>b, <1>6, <2>1 DEF Message, OneRun, CallsTrue, Live
<1>7. ASSUME NEW r \in Runs, SocketClosed(r)  PROVE OneRun' /\ CallsTrue'
  <2>1. Live(r) /\ r = jobId /\ submits = {}
    BY <1>b, <1>7 DEF SocketClosed, Live, OneRun, NothingOnWay
  <2>2. /\ DOMAIN reads' = DOMAIN reads \union {Len(reads) + 1}
        /\ \A i \in DOMAIN reads : reads'[i] = reads[i]
        /\ reads'[Len(reads) + 1] = [by |-> "finalize", job |-> r, found |-> jobStatus[r]]
    BY <1>0, <1>7, ReadAsked DEF SocketClosed, Finalize
  <2>3. \A k \in Runs : Live(k)' => Live(k)
    BY <1>0, <1>7 DEF SocketClosed, Live
  <2> QED  BY <1>b, <1>7, <2>1, <2>2, <2>3 DEF SocketClosed, Finalize, ClearTimers, OneRun, CallsTrue
<1>8. ASSUME NEW r \in Runs, SocketFails(r)  PROVE OneRun' /\ CallsTrue'
  <2>1. Live(r) /\ r = jobId /\ submits = {}
    BY <1>b, <1>8 DEF SocketFails, Live, OneRun, NothingOnWay
  <2>2. \A k \in Runs : Live(k)' => Live(k)
    BY <1>0, <1>8 DEF SocketFails, Live
  <2> QED  BY <1>b, <1>8, <2>1, <2>2 DEF SocketFails, StartFallbackPoll, OneRun, CallsTrue
<1>9. ASSUME NEW r \in Runs, SocketFallsSilent(r)  PROVE OneRun' /\ CallsTrue'
  BY <1>b, <1>9 DEF SocketFallsSilent, OneRun, CallsTrue, Live, NothingOnWay
<1>10. ASSUME NEW r \in Runs, JobAdvances(r) \/ JobRetried(r)  PROVE OneRun' /\ CallsTrue'
  <2>1. \A k \in Runs : jobStatus[k] = "COMPLETED" => jobStatus'[k] = "COMPLETED"
    BY <1>0, <1>10 DEF JobAdvances, JobRetried
  <2> QED  BY <1>b, <1>10, <2>1 DEF JobAdvances, JobRetried, OneRun, CallsTrue, Live, NothingOnWay
<1>11. ASSUME NEW i \in DOMAIN reads, FinalReply(i) \/ PollReply(i)  PROVE OneRun' /\ CallsTrue'
  <2>1. \A k \in DOMAIN reads' : /\ k \in DOMAIN reads /\ k + 1 \in DOMAIN reads
                                 /\ reads'[k] = reads[k] \/ reads'[k] = reads[k + 1]
    BY <1>0, <1>11, ReadArrives DEF FinalReply, PollReply
  <2>2. /\ reads # <<>> /\ submits = {} /\ reads[i].job = jobId /\ jobId \in Runs
        /\ reads[i].found = "COMPLETED" => jobStatus[jobId] = "COMPLETED"
    BY <1>0, <1>b DEF OneRun, NothingOnWay, JobsKnown, ReadRow
  <2>3. /\ UNCHANGED <<jobId, output, lastRun, submits, socket, jobStatus>>
        /\ status' \in {status, "FAILED", reads[i].found} /\ result' \in {result, reads[i].job}
        /\ UNCHANGED <<timers, polls>> \/ ClearTimers
        /\ KeepHistory
    BY <1>11 DEF FinalReply, PollReply, Arrives, Show
  <2>4. OneRun'
    BY <1>b, <2>1, <2>2, <2>3 DEF OneRun, ClearTimers, Live
  <2>5. CallsTrue'
    <3>1. status' = "COMPLETED" => jobStatus'[jobId'] = "COMPLETED" /\ jobId' \in Runs
      BY <1>b, <2>2, <2>3 DEF CallsTrue
    <3> QED  BY <1>0, <1>b, <2>3, <3>1, HistoryTrue
  <2> QED  BY <2>4, <2>5
<1>12. CASE UNCHANGED vars
  BY <1>b, <1>12 DEF vars, OneRun, CallsTrue, Live, NothingOnWay
<1> QED  BY <1>1, <1>2, <1>3, <1>4, <1>5, <1>6, <1>7, <1>8, <1>9, <1>10, <1>11, <1>12 DEF Next

LEMMA PageAlways == Spec => []OnePage
<1>1. Init => OnePage
  BY DEF Init, OnePage, OneRun, CallsTrue, Live, NothingOnWay
<1> QED  BY <1>1, PageStep, BaseAlways, PTL DEF Spec

\* PageShowsOneJob: what the page shows is of the job it names, whatever the
\* network does, when every run waits for what the one before had under way.
THEOREM PageShowsOneJobSafe == Spec => []PageShowsOneJob
<1>1. OnePage => PageShowsOneJob
  BY DEF OnePage, OneRun, PageShowsOneJob
<1> QED  BY <1>1, PageAlways, PTL

\* CompletedIsTrue: no early close, lost marker or overtaken reply makes the
\* page or the list of recent jobs claim an outcome the job has not.
THEOREM CompletedIsTrueSafe == Spec => []CompletedIsTrue
<1>1. OnePage => CompletedIsTrue
  BY DEF OnePage, CallsTrue, CompletedIsTrue
<1> QED  BY <1>1, PageAlways, PTL

(***************************************************************************)
(* The end of a run. Replies come in the order of their reads, the read    *)
(* that the close of the socket asks for is the last one, and after an     *)
(* outcome every read still under way, or to come, finds one.              *)
(***************************************************************************)
AllCompleted ==
  /\ jobId \in Runs /\ jobStatus[jobId] = "COMPLETED"
  /\ \A i \in DOMAIN reads : reads[i].found = "COMPLETED"

InTurn ==
  /\ polls \subseteq {pollIntervalRef} /\ timers \subseteq {fallbackTimerRef}
  /\ \A i, k \in DOMAIN reads :
       i < k /\ reads[i].found = "COMPLETED" => reads[k].found = "COMPLETED"
  /\ \A i \in DOMAIN reads :
       reads[i].by = "finalize" =>
         i = Len(reads) /\ polls = {} /\ timers = {} /\ \A r \in Runs : ~Live(r)
  /\ status \in Outcomes => AllCompleted \/ NothingOnWay

Unmixed == mishaps \subseteq {"early_close"}

LEMMA TurnStep ==
  ASSUME UiBase, OneRun, InTurn, [Next]_vars, Unmixed'
  PROVE  InTurn' /\ (lastRun' = lastRun /\ status \in Outcomes => status' \in Outcomes)
<1> USE DEF pageVars, refVars, callVars, wireVars
<1>0. /\ None \notin Runs /\ UiTypeOK /\ JobsKnown /\ timers \subseteq Runs /\ polls \subseteq Runs
      /\ reads \in Seq(ReadRow) /\ DOMAIN reads = 1..Len(reads) /\ Len(reads) \in Nat
      /\ \A i \in DOMAIN reads : reads[i] \in ReadRow
      /\ socket \in [Runs -> {"none", "open", "closing", "closed"}]
      /\ jobStatus \in [Runs -> JobStatuses]
  <2>1. UiTypeOK /\ JobsKnown
    BY DEF UiBase
  <2>2. None \notin Runs
    BY UiAssumption DEF Runs, None
  <2> QED  BY <2>1, <2>2, ReadsAreRows DEF UiTypeOK
<1>1. CASE Run
  <2>1. NothingOnWay
    BY <1>1, RunAtRest DEF Unmixed
  <2>2. /\ reads' = <<>> /\ timers' = {} /\ polls' = {} /\ DOMAIN reads' = {}
        /\ status' = "submitting" /\ lastRun' # lastRun
    BY <1>0, <1>1, <2>1 DEF Run, NothingOnWay, ClearTimers, UiTypeOK
  <2> QED  BY <2>2 DEF InTurn, Outcomes
<1>2. ASSUME NEW r \in Runs, Submitted(r) \/ SubmitFails(r)
      PROVE  InTurn' /\ (status \in Outcomes => status' \in Outcomes)
  <2>1. NothingOnWay /\ DOMAIN reads = {} /\ status = "submitting"
    BY <1>2 DEF Submitted, SubmitFails, OneRun, NothingOnWay
  <2>2. /\ UNCHANGED <<reads, polls, pollIntervalRef>> /\ status' \in {"PENDING", "submit_error"}
        /\ timers' \subseteq {fallbackTimerRef'}
    BY <1>2, <2>1 DEF Submitted, SubmitFails, NothingOnWay
  <2> QED  BY <2>1, <2>2 DEF InTurn, NothingOnWay, Outcomes
<1>3. ASSUME NEW r \in Runs, FallbackTimer(r)
      PROVE  InTurn' /\ (status \in Outcomes => status' \in Outcomes)
  BY <1>0, <1>3 DEF FallbackTimer, StartFallbackPoll, InTurn, NothingOnWay, AllCompleted
<1>4. ASSUME NEW r \in Runs, Poll(r)
      PROVE  InTurn' /\ (status \in Outcomes => status' \in Outcomes)
  <2>1. /\ DOMAIN reads' = DOMAIN reads \union {Len(reads) + 1}
        /\ \A i \in DOMAIN reads : reads'[i] = reads[i]
        /\ reads'[Len(reads) + 1] = [by |-> "poll", job |-> r, found |-> jobStatus[r]]
    BY <1>0, <1>4, ReadAsked DEF Poll
  <2>2. r = jobId /\ \A i \in DOMAIN reads : reads[i].found = "COMPLETED" => jobStatus[r] = "COMPLETED"
    BY <1>0, <1>4 DEF Poll, OneRun, JobsKnown
  <2>3. /\ \A i \in DOMAIN reads : i \in Nat /\ i <= Len(reads) /\ reads[i].by # "finalize"
        /\ ~NothingOnWay
    BY <1>0, <1>4 DEF Poll, InTurn, NothingOnWay
  <2>4. \A i \in DOMAIN reads' : reads'[i].by # "finalize"
    BY <2>1, <2>3
  <2>5. \A i, k \in DOMAIN reads' :
          i < k /\ reads'[i].found = "COMPLETED" => reads'[k].found = "COMPLETED"
    <3> SUFFICES ASSUME NEW i \in DOMAIN reads', NEW k \in DOMAIN reads', i < k,
                        reads'[i].found = "COMPLETED"
                 PROVE  reads'[k].found = "COMPLETED"
      OBVIOUS
    <3>1. i \in DOMAIN reads /\ reads[i].found = "COMPLETED"
      BY <1>0, <2>1
    <3>2. CASE k \in DOMAIN reads
      BY <2>1, <3>1, <3>2 DEF InTurn
    <3>3. CASE k = Len(reads) + 1
      BY <2>1, <2>2, <3>1, <3>3
    <3> QED  BY <2>1, <3>2, <3>3
  <2>6. AllCompleted => AllCompleted'
    BY <1>4, <2>1, <2>2 DEF Poll, AllCompleted
  <2> QED  BY <1>4, <2>3, <2>4, <2>5, <2>6 DEF Poll, InTurn
<1>5. ASSUME NEW r \in Runs, Message(r)
      PROVE  InTurn' /\ (status \in Outcomes => status' \in Outcomes)
  <2>1. Live(r)
    BY <1>5 DEF Message, Hears, Live
  <2>2. (status' = status) \/ (status' \notin Outcomes /\ status \notin Outcomes)
    BY <1>5 DEF Message, Outcomes
  <2>3. /\ timers' \subseteq {}
        /\ UNCHANGED <<reads, polls, pollIntervalRef, jobId, socket, jobStatus>>
    BY <1>5 DEF Message, InTurn
  <2> QED  BY <2>1, <2>2, <2>3 DEF InTurn, NothingOnWay, AllCompleted, Live
<1>6. ASSUME NEW r \in Runs, SocketClosed(r)
      PROVE  InTurn' /\ (status \in Outcomes => status' \in Outcomes)
  <2>1. Live(r) /\ r = jobId
    BY <1>6 DEF SocketClosed, Live, OneRun
  <2>2. /\ DOMAIN reads' = DOMAIN reads \union {Len(reads) + 1} /\ Len(reads') = Len(reads) + 1
        /\ \A i \in DOMAIN reads : reads'[i] = reads[i]
        /\ reads'[Len(reads) + 1] = [by |-> "finalize", job |-> r, found |-> jobStatus[r]]
    BY <1>0, <1>6, ReadAsked DEF SocketClosed, Finalize
  <2>3. polls' = {} /\ timers' = {} /\ UNCHANGED <<jobId, status, jobStatus>>
    BY <1>6 DEF SocketClosed, Finalize, ClearTimers, InTurn
  <2>4. \A k \in Runs : ~Live(k)'
    BY <1>0, <1>6, <2>1 DEF SocketClosed, Live, OneRun
  <2>5. /\ \A i \in DOMAIN reads : i \in Nat /\ i <= Len(reads) /\ reads[i].by # "finalize"
        /\ \A i \in DOMAIN reads : reads[i].found = "COMPLETED" => jobStatus[r] = "COMPLETED"
        /\ ~NothingOnWay
    BY <1>0, <2>1 DEF InTurn, NothingOnWay, OneRun, JobsKnown
  <2>6. \A i, k \in DOMAIN reads' :
          i < k /\ reads'[i].found = "COMPLETED" => reads'[k].found = "COMPLETED"
    <3> SUFFICES ASSUME NEW i \in DOMAIN reads', NEW k \in DOMAIN reads', i < k,
                        reads'[i].found = "COMPLETED"
                 PROVE  reads'[k].found = "COMPLETED"
      OBVIOUS
    <3>1. i \in DOMAIN reads /\ reads[i].found = "COMPLETED"
      BY <1>0, <2>2
    <3>2. CASE k \in DOMAIN reads
      BY <2>2, <3>1, <3>2 DEF InTurn
    <3>3. CASE k = Len(reads) + 1
      BY <2>2, <2>5, <3>1, <3>3
    <3> QED  BY <2>2, <3>2, <3>3
  <2>7. \A i \in DOMAIN reads' : reads'[i].by = "finalize" => i = Len(reads')
    BY <2>2, <2>5
  <2>8. AllCompleted => AllCompleted'
    BY <2>1, <2>2, <2>3 DEF AllCompleted
  <2> QED  BY <2>3, <2>4, <2>5, <2>6, <2>7, <2>8 DEF InTurn
<1>7. ASSUME NEW r \in Runs, SocketFails(r)
      PROVE  InTurn' /\ (status \in Outcomes => status' \in Outcomes)
  <2>1. Live(r) /\ polls' \subseteq {pollIntervalRef'}
    BY <1>0, <1>7 DEF SocketFails, StartFallbackPoll, Live, InTurn
  <2>2. UNCHANGED <<reads, status, timers, fallbackTimerRef, jobId, jobStatus>>
    BY <1>7 DEF SocketFails
  <2> QED  BY <2>1, <2>2 DEF InTurn, NothingOnWay, AllCompleted
<1>8. ASSUME NEW r \in Runs, SocketFallsSilent(r)
      PROVE  InTurn' /\ (status \in Outcomes => status' \in Outcomes)
  BY <1>8 DEF SocketFallsSilent, InTurn, NothingOnWay, AllCompleted, Live
<1>9. ASSUME NEW r \in Runs, JobAdvances(r) \/ JobRetried(r)
      PROVE  InTurn' /\ (status \in Outcomes => status' \in Outcomes)
  <2>1. jobId \in Runs /\ jobStatus[jobId] = "COMPLETED" => jobStatus'[jobId] = "COMPLETED"
    BY <1>0, <1>9 DEF JobAdvances, JobRetried
  <2> QED  BY <1>9, <2>1 DEF JobAdvances, JobRetried, InTurn, NothingOnWay, AllCompleted, Live
<1>10. ASSUME NEW i \in DOMAIN reads, FinalReply(i) \/ PollReply(i)
       PROVE  InTurn' /\ (status \in Outcomes => status' \in Outcomes)
  <2>0. i = 1
    BY <1>10 DEF FinalReply, PollReply, Arrives, Unmixed
  <2>1. /\ Len(reads') = Len(reads) - 1 /\ DOMAIN reads' = 1..(Len(reads) - 1)
        /\ reads' \in Seq(ReadRow)
        /\ \A k \in DOMAIN reads' : k + 1 \in DOMAIN reads /\ reads'[k] = reads[k + 1]
    BY <1>0, <1>10, <2>0, ReadArrives DEF FinalReply, PollReply
  <2>2. UNCHANGED <<jobId, socket, jobStatus>> /\ reads # <<>> /\ ~NothingOnWay
    BY <1>0, <1>10 DEF FinalReply, PollReply, Arrives, NothingOnWay
  <2>3. /\ polls' \subseteq {pollIntervalRef'} /\ polls' \subseteq polls
        /\ timers' \subseteq {fallbackTimerRef'} /\ timers' \subseteq timers
    BY <1>10 DEF FinalReply, PollReply, ClearTimers, InTurn
  <2>4. \A k, l \in DOMAIN reads' :
          k < l /\ reads'[k].found = "COMPLETED" => reads'[l].found = "COMPLETED"
    BY <1>0, <2>1 DEF InTurn
  <2>5. \A k \in DOMAIN reads' : reads'[k].by = "finalize" =>
          k = Len(reads') /\ polls' = {} /\ timers' = {} /\ \A r \in Runs : ~Live(r)'
    <3> SUFFICES ASSUME NEW k \in DOMAIN reads', reads'[k].by = "finalize"
                 PROVE  k = Len(reads') /\ polls' = {} /\ timers' = {} /\ \A r \in Runs : ~Live(r)'
      OBVIOUS
    <3>1. /\ k + 1 = Len(reads) /\ polls = {} /\ timers = {} /\ \A r \in Runs : ~Live(r)
      BY <2>1 DEF InTurn
    <3> QED  BY <1>0, <2>1, <2>2, <2>3, <3>1 DEF Live
  <2>6. CASE FinalReply(i)
    <3>1. /\ Len(reads) = 1 /\ polls = {} /\ timers = {} /\ \A r \in Runs : ~Live(r)
      BY <2>0, <2>6 DEF FinalReply, InTurn
    <3>2. reads' = <<>>
      BY <2>1, <3>1
    <3>3. NothingOnWay'
      BY <2>2, <2>3, <3>1, <3>2 DEF NothingOnWay, Live
    <3>4. status \in Outcomes => status' \in Outcomes
      BY <2>2, <2>6 DEF FinalReply, Show, InTurn, AllCompleted, Outcomes
    <3> QED  BY <2>3, <2>4, <2>5, <3>3, <3>4 DEF InTurn
  <2>7. CASE PollReply(i)
    <3>1. ASSUME reads[i].found = "COMPLETED"  PROVE AllCompleted'
      <4>1. jobId \in Runs /\ jobStatus[jobId] = "COMPLETED"
        BY <1>0, <3>1 DEF OneRun, JobsKnown, ReadRow
      <4>2. \A k \in DOMAIN reads' : reads'[k].found = "COMPLETED"
        BY <1>0, <2>0, <2>1, <3>1 DEF InTurn
      <4> QED  BY <2>2, <4>1, <4>2 DEF AllCompleted
    <3>2. status \in Outcomes => reads[i].found = "COMPLETED"
      BY <2>2 DEF InTurn, AllCompleted
    <3>3. \/ status' = status
          \/ reads[i].found = "COMPLETED" /\ status' = "COMPLETED"
          \/ reads[i].found # "COMPLETED" /\ status' = reads[i].found
      BY <2>7 DEF PollReply, Show
    <3>4. reads[i].found \in {"PENDING", "RUNNING", "COMPLETED"}
      BY <1>0 DEF ReadRow, JobsKnown, JobStatuses
    <3>5. (status \in Outcomes => status' \in Outcomes) /\ (status' \in Outcomes => AllCompleted')
      BY <3>1, <3>2, <3>3, <3>4 DEF Outcomes
    <3> QED  BY <2>3, <2>4, <2>5, <3>5 DEF InTurn
  <2> QED  BY <1>10, <2>6, <2>7
<1>11. CASE UNCHANGED vars
  BY <1>11 DEF vars, InTurn, NothingOnWay, AllCompleted, Live
<1> QED  BY <1>1, <1>2, <1>3, <1>4, <1>5, <1>6, <1>7, <1>8, <1>9, <1>10, <1>11 DEF Next

\* OutcomeStays: after an outcome the page never falls back to PENDING or
\* RUNNING, since the poll and the timer were cleared with it and the reads that
\* are left were asked for later. Replies that overtake each other are excluded,
\* and so are runs that did not wait: the page does fall back then.
THEOREM OutcomeStaysSafe == Spec => OutcomeStays
<1> DEFINE TurnInv == Unmixed => InTurn
<1>1. Init => TurnInv
  BY DEF Init, InTurn, Outcomes
<1>2. UiBase /\ OnePage /\ TurnInv /\ [Next]_vars /\ Unmixed' => Unmixed /\ OneRun /\ InTurn
  <2> SUFFICES ASSUME UiBase, OnePage, TurnInv, [Next]_vars, Unmixed'
               PROVE  Unmixed /\ OneRun /\ InTurn
    OBVIOUS
  <2>1. mishaps \subseteq mishaps'
    BY DEF Next, Run, Submitted, SubmitFails, FallbackTimer, Poll, Message, SocketClosed, SocketFails,
           SocketFallsSilent, JobAdvances, JobRetried, FinalReply, PollReply, Arrives, vars
  <2>2. Unmixed /\ "hasty_run" \notin mishaps
    BY <2>1 DEF Unmixed
  <2> QED  BY <2>2 DEF OnePage
<1>3. UiBase /\ OnePage /\ TurnInv /\ [Next]_vars => TurnInv'
  BY <1>2, TurnStep
<1>4. UiBase /\ OnePage /\ TurnInv /\ [Next]_vars =>
        [mishaps' \subseteq {"early_close"} /\ lastRun' = lastRun /\ status \in Outcomes
           => status' \in Outcomes]_vars
  BY <1>2, TurnStep DEF Unmixed
<1> QED  BY <1>1, <1>3, <1>4, PageAlways, BaseAlways, PTL DEF Spec, OutcomeStays
=============================================================================
