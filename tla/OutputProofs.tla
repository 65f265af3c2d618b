---------------------------- MODULE OutputProofs ----------------------------
(***************************************************************************)
(* Proofs about SandboxOutput, for caps of any size that are as far apart  *)
(* as OutputAssumption says, and for outputs of any length; and about      *)
(* splitForStream, for texts of any length.                                *)
(***************************************************************************)
EXTENDS MCSandbox, SequenceTheorems, FiniteSetTheorems, NaturalsInduction,
        WellFoundedInduction, TLAPS

\* The two caps. A program killed for its output has written more than both
\* accumulators hold, so that one of them was cut.
CapsInv ==
  /\ streamed["stdout"] + streamed["stderr"] <= MaxStream
  /\ ~outputTruncated => kept = streamed
  /\ \A s \in Outputs : streamed[s] > MaxResult => outputTruncated
  /\ TruncationIsReal
  /\ dropped => streamOutputLimitExceeded
  /\ streamOutputLimitExceeded => outputTruncated
  /\ LimitMarkedLast

\* The ways to an end. A kill leaves its flag behind before it can land, and no
\* flag changes once the container is known to be down.
EndInv ==
  /\ killing["timeout"] # "none" => timedOut
  /\ killing["stream-output-limit"] # "none" => streamOutputLimitExceeded
  /\ endedBy = "timeout" => timedOut
  /\ endedBy = "stream-output-limit" => streamOutputLimitExceeded
  /\ (container = "down") <=> (endedBy # "nobody")
  /\ endedBy \notin {"nobody", "itself"} => exitCode = 137
  /\ timerArmed => phase = "running"
  /\ phase \in {"flushing", "settled"} =>
       /\ container = "down"
       /\ oomKilled <=> (exitCode = 137 /\ ~timedOut /\ ~streamOutputLimitExceeded)

OutputInv == OutputTypeOK /\ CapsInv /\ EndInv

\* Appending keeps what fits, and says so when it does not.
LEMMA AppendWithinCapProperties ==
  ASSUME NEW current \in 0..(MaxResult + 2), NEW next \in Nat \ {0}
  PROVE  LET capped == AppendWithinCap(current, next)
         IN  /\ capped.values \subseteq 0..(MaxResult + 2)
             /\ capped.truncated \in BOOLEAN
             /\ ~capped.truncated => /\ capped.values = {current + next}
                                     /\ current + next <= MaxResult
             /\ capped.truncated => current + next > MaxResult
<1> DEFINE capped == AppendWithinCap(current, next)
<1>1. CASE current >= MaxResult
  <2>1. capped = [values |-> {current}, truncated |-> next > 0]
    BY <1>1 DEF AppendWithinCap
  <2>2. capped.values = {current} /\ capped.truncated = (next > 0)
    BY <2>1
  <2> HIDE DEF capped
  <2>3. (next > 0) = TRUE
    OBVIOUS
  <2>4. capped.truncated = TRUE
    BY <2>2, <2>3, Zenon
  <2> QED  BY <1>1, <2>2, <2>4, OutputAssumption DEF capped
<1>2. CASE current < MaxResult /\ next <= MaxResult - current
  <2>1. capped = [values |-> {current + next}, truncated |-> FALSE]
    BY <1>2, OutputAssumption DEF AppendWithinCap
  <2> QED  BY <1>2, <2>1, OutputAssumption
<1>3. CASE current < MaxResult /\ next > MaxResult - current
  <2>1. capped = [values |-> MaxResult..(MaxResult + 2), truncated |-> TRUE]
    BY <1>3, OutputAssumption DEF AppendWithinCap
  <2> QED  BY <1>3, <2>1, OutputAssumption
<1> QED  BY <1>1, <1>2, <1>3, OutputAssumption

LEMMA OutputInit == Init => OutputInv
<1> SUFFICES ASSUME Init  PROVE OutputInv
  OBVIOUS
<1>1. 0 \in 0..MaxStream /\ 0 \in 0..(MaxResult + 2)
  BY OutputAssumption
<1>2. OutputTypeOK
  BY <1>1 DEF Init, OutputTypeOK
<1>3. CapsInv
  BY OutputAssumption DEF Init, CapsInv, TruncationIsReal, LimitMarkedLast, Outputs
<1>4. EndInv
  BY DEF Init, EndInv, Reasons
<1> QED  BY <1>2, <1>3, <1>4 DEF OutputInv

\* The steps that touch no output.
LEMMA CapsKept ==
  CapsInv /\ UNCHANGED <<outputTruncated, streamOutputLimitExceeded, outputVars>> => CapsInv'
BY DEF CapsInv, TruncationIsReal, LimitMarkedLast, outputVars

LEMMA BeginStep == OutputInv /\ Begin => OutputInv'
<1> SUFFICES ASSUME OutputInv, Begin  PROVE OutputInv'
  OBVIOUS
<1>1. CapsInv'
  BY CapsKept DEF OutputInv, Begin, SpawnContainer, ContainerStarts, SpawnFails, flags, outputVars
<1>2. timerArmed' \in BOOLEAN
  BY Zenon DEF OutputInv, OutputTypeOK, Begin, SpawnContainer, ContainerStarts, SpawnFails
<1>3. OutputTypeOK'
  BY <1>2 DEF OutputInv, OutputTypeOK, Begin, SpawnContainer, ContainerStarts, SpawnFails,
     flags, outputVars, dockerVars
<1>4. EndInv'
  BY DEF OutputInv, OutputTypeOK, EndInv, Begin, SpawnContainer, ContainerStarts, SpawnFails,
     flags, outputVars, dockerVars
<1> QED  BY <1>1, <1>3, <1>4 DEF OutputInv

LEMMA TimeoutStep == OutputInv /\ Timeout => OutputInv'
<1> SUFFICES ASSUME OutputInv, Timeout  PROVE OutputInv'
  OBVIOUS
<1>1. CapsInv'
  BY CapsKept DEF OutputInv, Timeout
<1>2. timerArmed' \in BOOLEAN /\ timedOut' \in BOOLEAN
  BY Zenon DEF Timeout
<1>3. OutputTypeOK'
  BY <1>2 DEF OutputInv, OutputTypeOK, Timeout, KillContainer, outputVars, dockerVars, Reasons
<1>4. EndInv'
  BY DEF OutputInv, OutputTypeOK, EndInv, Timeout, KillContainer, outputVars, dockerVars, Reasons
<1> QED  BY <1>1, <1>3, <1>4 DEF OutputInv

LEMMA DropStep ==
  ASSUME OutputInv, NEW n \in 0..MaxRead, DropOutput(n)
  PROVE  OutputInv'
BY DEF OutputInv, OutputTypeOK, CapsInv, EndInv, DropOutput, Reading, TruncationIsReal,
   LimitMarkedLast, flags, dockerVars

\* More than MaxStream in all is more than MaxResult in one of the outputs.
LEMMA ExceedStep ==
  ASSUME OutputInv, NEW n \in 0..MaxRead, NEW peak \in BOOLEAN, ExceedLimit(n, peak)
  PROVE  OutputInv'
<1> USE DEF OutputInv, ExceedLimit, KillContainer
<1>1. streamed["stdout"] \in Nat /\ streamed["stderr"] \in Nat
  BY DEF OutputTypeOK, Outputs
<1>2. streamed["stdout"] > MaxResult \/ streamed["stderr"] > MaxResult
  BY <1>1, OutputAssumption DEF TooMuch
<1>3. outputTruncated
  BY <1>2 DEF CapsInv, Outputs
<1>4. markers = 0
  BY DEF CapsInv, LimitMarkedLast
<1>5. OutputTypeOK'
  BY <1>4 DEF OutputTypeOK, dockerVars, Reasons
<1>6. CapsInv'
  BY <1>3, <1>4 DEF CapsInv, TruncationIsReal, LimitMarkedLast
<1>7. EndInv'
  BY DEF EndInv, OutputTypeOK, Reading, dockerVars, Reasons
<1> QED  BY <1>5, <1>6, <1>7

LEMMA StreamStep ==
  ASSUME OutputInv, NEW s \in Outputs, NEW n \in 0..MaxRead, NEW peak \in BOOLEAN,
         StreamText(s, n, peak)
  PROVE  OutputInv'
<1>1. EndInv'
  BY DEF OutputInv, EndInv, StreamText, Reading, dockerVars
<1>2. CASE n = 0
  BY <1>1, <1>2 DEF OutputInv, OutputTypeOK, CapsInv, StreamText, TruncationIsReal,
     LimitMarkedLast, dockerVars
<1>3. CASE n # 0
  <2> DEFINE capped == AppendWithinCap(kept[s], n)
  <2>1. n \in Nat \ {0} /\ kept[s] \in 0..(MaxResult + 2) /\ streamed[s] \in 0..MaxStream
    BY <1>3, OutputAssumption DEF OutputInv, OutputTypeOK
  <2>2. /\ capped.values \subseteq 0..(MaxResult + 2)
        /\ capped.truncated \in BOOLEAN
        /\ ~capped.truncated => capped.values = {kept[s] + n} /\ kept[s] + n <= MaxResult
        /\ capped.truncated => kept[s] + n > MaxResult
    BY <2>1, AppendWithinCapProperties
  <2>3. /\ streamed' = [streamed EXCEPT ![s] = @ + n]
        /\ lastChunk' = s
        /\ \E value \in capped.values : kept' = [kept EXCEPT ![s] = value]
        /\ outputTruncated' = (outputTruncated \/ capped.truncated)
        /\ ~streamOutputLimitExceeded /\ ~TooMuch(n)
        /\ memoryKnown' = (memoryKnown \/ peak)
        /\ UNCHANGED <<phase, dockerVars, timerArmed, killing, timedOut, oomKilled,
                       streamOutputLimitExceeded, dropped, markers>>
    BY <1>3 DEF StreamText
  <2> HIDE DEF capped
  <2>4. streamed'["stdout"] + streamed'["stderr"] <= MaxStream
    BY <2>1, <2>3, OutputAssumption DEF OutputInv, OutputTypeOK, TooMuch, Outputs
  <2>5. OutputTypeOK'
    <3>1. streamed' \in [Outputs -> 0..MaxStream]
      BY <2>1, <2>3, <2>4, OutputAssumption DEF OutputInv, OutputTypeOK, TooMuch, Outputs
    <3>2. kept' \in [Outputs -> 0..(MaxResult + 2)]
      BY <2>2, <2>3 DEF OutputInv, OutputTypeOK
    <3> QED  BY <2>2, <2>3, <3>1, <3>2 DEF OutputInv, OutputTypeOK, dockerVars
  <2>6. ASSUME ~outputTruncated'
        PROVE  kept' = streamed' /\ \A t \in Outputs : streamed'[t] <= MaxResult
    <3>1. ~outputTruncated /\ ~capped.truncated
      BY <2>2, <2>3, <2>6
    <3>2. kept = streamed /\ \A t \in Outputs : streamed[t] <= MaxResult
      BY <3>1, OutputAssumption DEF OutputInv, OutputTypeOK, CapsInv
    <3>3. kept' = [kept EXCEPT ![s] = kept[s] + n] /\ kept[s] + n <= MaxResult
      BY <2>2, <2>3, <3>1
    <3>4. streamed' = kept'
      BY <2>3, <3>2, <3>3
    <3> QED  BY <3>2, <3>3, <3>4 DEF OutputInv, OutputTypeOK
  <2>7. \A t \in Outputs : streamed'[t] > MaxResult => outputTruncated'
    <3>1. \A t \in Outputs : streamed'[t] \in Nat
      BY <2>5, OutputAssumption DEF OutputTypeOK
    <3> QED  BY <2>6, <3>1, OutputAssumption
  <2>8. TruncationIsReal'
    <3>1. CASE outputTruncated
      <4>1. PICK t \in Outputs : streamed[t] > MaxResult
        BY <3>1 DEF OutputInv, CapsInv, TruncationIsReal
      <4>2. streamed'[t] > MaxResult
        BY <2>1, <2>3, <4>1, OutputAssumption DEF OutputInv, OutputTypeOK
      <4> QED  BY <4>2 DEF TruncationIsReal
    <3>2. CASE ~outputTruncated
      <4>1. kept[s] = streamed[s]
        BY <3>2 DEF OutputInv, CapsInv
      <4> QED  BY <2>1, <2>2, <2>3, <3>2, <4>1 DEF TruncationIsReal, OutputInv, OutputTypeOK
    <3> QED  BY <3>1, <3>2
  <2>9. CapsInv'
    BY <2>3, <2>4, <2>6, <2>7, <2>8 DEF OutputInv, CapsInv, LimitMarkedLast
  <2> QED  BY <1>1, <2>5, <2>9 DEF OutputInv
<1> QED  BY <1>2, <1>3

LEMMA EndStep ==
  OutputInv /\ (ContainerExits \/ (\E r \in Reasons : KillEnds(r)) \/ Close \/ Resolve) => OutputInv'
<1> SUFFICES ASSUME OutputInv,
                    ContainerExits \/ (\E r \in Reasons : KillEnds(r)) \/ Close \/ Resolve
             PROVE  OutputInv'
  OBVIOUS
<1>1. CapsInv'
  BY CapsKept DEF OutputInv, ContainerExits, KillEnds, KillLands, KillFails, Ends, Close, Resolve,
     flags
<1>2. CASE ContainerExits
  BY <1>1, <1>2 DEF OutputInv, OutputTypeOK, EndInv, ContainerExits, Ends, flags, outputVars, Reasons
<1>3. CASE \E r \in Reasons : KillEnds(r)
  <2>1. PICK r \in Reasons : KillEnds(r)
    BY <1>3
  <2>2. CASE KillLands(r)
    BY <1>1, <2>2 DEF OutputInv, OutputTypeOK, EndInv, KillLands, Ends, flags, outputVars, Reasons
  <2>3. CASE KillFails(r)
    BY <1>1, <2>3 DEF OutputInv, OutputTypeOK, EndInv, KillFails, flags, outputVars, dockerVars, Reasons
  <2> QED  BY <2>1, <2>2, <2>3 DEF KillEnds
<1>4. CASE Close
  <2>1. timerArmed' \in BOOLEAN /\ oomKilled' \in BOOLEAN
    BY <1>4, Zenon DEF Close
  <2>2. OutputTypeOK'
    BY <1>4, <2>1 DEF OutputInv, OutputTypeOK, Close, outputVars, dockerVars
  <2>3. EndInv'
    BY <1>4 DEF OutputInv, OutputTypeOK, EndInv, Close, outputVars, dockerVars
  <2> QED  BY <1>1, <2>2, <2>3 DEF OutputInv
<1>5. CASE Resolve
  BY <1>1, <1>5 DEF OutputInv, OutputTypeOK, EndInv, Resolve, flags, outputVars, dockerVars
<1> QED  BY <1>2, <1>3, <1>4, <1>5

LEMMA OutputInvStep == OutputInv /\ [Next]_vars => OutputInv'
<1> SUFFICES ASSUME OutputInv, [Next]_vars  PROVE OutputInv'
  OBVIOUS
<1>1. CASE HandleOutput
  BY <1>1, DropStep, ExceedStep, StreamStep DEF HandleOutput
<1>2. CASE UNCHANGED vars
  BY <1>2 DEF OutputInv, OutputTypeOK, CapsInv, EndInv, TruncationIsReal, LimitMarkedLast, vars,
     flags, outputVars, dockerVars
<1> QED  BY <1>1, <1>2, BeginStep, TimeoutStep, EndStep DEF Next

LEMMA OutputInvAlways == Spec => []OutputInv
BY OutputInit, OutputInvStep, PTL DEF Spec

\* A result without outputTruncated is whole, however the program ended, as long
\* as the stream cap is at least twice the result cap and one read apart.
THEOREM NothingLostSilentlySafe == Spec => []NothingLostSilently
<1>1. OutputInv => NothingLostSilently
  BY DEF OutputInv, CapsInv, NothingLostSilently
<1> QED  BY <1>1, OutputInvAlways, PTL

\* The flag is set for results that are cut, and the log of a program that wrote
\* too much ends with its one marker.
THEOREM TruncationIsRealSafe == Spec => [](TruncationIsReal /\ LimitMarkedLast)
<1>1. OutputInv => TruncationIsReal /\ LimitMarkedLast
  BY DEF OutputInv, CapsInv
<1> QED  BY <1>1, OutputInvAlways, PTL

\* The verdict is true to what ended the container, in every order of exit,
\* kills and timer.
THEOREM VerdictNamesTheKillerSafe == Spec => []VerdictNamesTheKiller
<1>1. OutputInv => VerdictNamesTheKiller
  BY DEF OutputInv, OutputTypeOK, EndInv, VerdictNamesTheKiller, Verdict, Reasons
<1> QED  BY <1>1, OutputInvAlways, PTL

\* Every reachable state of an execution is well typed, whatever arrives after
\* the container is down.
THEOREM OutputTypeCorrect == Spec => []OutputTypeOK
<1>1. OutputInv => OutputTypeOK
  BY DEF OutputInv
<1> QED  BY <1>1, OutputInvAlways, PTL

(***************************************************************************)
(* splitForStream. Its loops are recursive functions, and a fact about all *)
(* their arguments is proved from the least argument that would violate    *)
(* it. A recursive function is a CHOOSE, so each one needs a lemma first   *)
(* that its equation has a solution at all.                                *)
(***************************************************************************)
LEMMA LeastExists ==
  ASSUME NEW I, I \subseteq Nat, I # {}
  PROVE  \E i \in I : \A k \in I : i <= k
<1> DEFINE R == {p \in Nat \X Nat : p[1] < p[2]}
<1>1. IsWellFoundedOn(R, Nat)
  BY NatLessThanWellFounded, Zenon DEF OpToRel
<1>2. PICK x \in I : \A y \in I : ~ (<<y, x>> \in R)
  <2> HIDE DEF R
  <2> QED  BY <1>1, WFMin, Zenon
<1>3. ASSUME NEW y \in I  PROVE x <= y
  <2>1. ~ (<<y, x>> \in R)
    BY <1>2
  <2>2. <<y, x>> \in Nat \X Nat /\ <<y, x>>[1] = y /\ <<y, x>>[2] = x
    OBVIOUS
  <2>3. ~ (y < x)
    BY <2>1, <2>2, Zenon
  <2> QED  BY <2>3
<1> QED  BY <1>3

\* A text has at most three bytes for each unit.
LEMMA ByteLengthBound ==
  ASSUME NEW text \in Seq(Units)
  PROVE  ByteLength(text) \in Int /\ ByteLength(text) <= 3 * Len(text)
<1> DEFINE pairs == {i \in DOMAIN text : /\ text[i] = "high" /\ i < Len(text)
                                         /\ text[i + 1] = "low"}
           ascii == {i \in DOMAIN text : text[i] = "ascii"}
<1>1. IsFiniteSet(DOMAIN text) /\ Len(text) \in Nat
  BY LenProperties, FS_Interval
<1>2. Cardinality(pairs) \in Nat /\ Cardinality(ascii) \in Nat
  <2>1. pairs \subseteq DOMAIN text /\ ascii \subseteq DOMAIN text
    OBVIOUS
  <2>2. IsFiniteSet(pairs) /\ IsFiniteSet(ascii)
    BY <1>1, <2>1, FS_Subset
  <2> QED  BY <2>2, FS_CardinalityType
<1>3. ByteLength(text) = 3 * Len(text) - 2 * Cardinality(ascii) - 2 * Cardinality(pairs)
  BY DEF ByteLength
<1> HIDE DEF pairs, ascii
<1> QED  BY <1>1, <1>2, <1>3

\* A tenth less is less, but not nothing.
LEMMA TenthLess ==
  ASSUME NEW end \in Nat, end > 1
  PROVE  (9 * end) \div 10 \in 1..(end - 1)
OBVIOUS

LEMMA ShrinkExists ==
  ASSUME NEW text
  PROVE  \E f : f = [end \in 0..MaxChunk |->
                       IF end > 1 /\ ByteLength(SubSeq(text, 1, end)) > MaxChunk
                       THEN f[(9 * end) \div 10] ELSE end]
<1> DEFINE TooLong(end) == end > 1 /\ ByteLength(SubSeq(text, 1, end)) > MaxChunk
           Solves(f, n) == f = [end \in 0..n |-> IF TooLong(end) THEN f[(9 * end) \div 10] ELSE end]
           Unsolved     == {n \in Nat : ~ \E f : Solves(f, n)}
<1>1. ASSUME NEW n \in Nat, \A k \in 0..(n - 1) : \E f : Solves(f, k)
      PROVE  \E f : Solves(f, n)
  <2>1. CASE n = 0
    <3> DEFINE f == [end \in 0..0 |-> 0]
    <3>1. \A end \in 0..0 : end = 0 /\ ~TooLong(end)
      OBVIOUS
    <3>2. Solves(f, 0)
      BY <3>1
    <3> QED  BY <2>1, <3>2
  <2>2. CASE n > 0
    <3>1. PICK g : Solves(g, n - 1)
      BY <1>1, <2>2
    <3> HIDE DEF TooLong
    <3> DEFINE f == [end \in 0..n |-> IF TooLong(end) THEN g[(9 * end) \div 10] ELSE end]
    <3>2. \A end \in 0..(n - 1) : g[end] = f[end]
      <4> SUFFICES ASSUME NEW end \in 0..(n - 1)  PROVE g[end] = f[end]
        OBVIOUS
      <4>1. end \in 0..n
        OBVIOUS
      <4>2. g[end] = IF TooLong(end) THEN g[(9 * end) \div 10] ELSE end
        BY <3>1
      <4>3. f[end] = IF TooLong(end) THEN g[(9 * end) \div 10] ELSE end
        BY <4>1
      <4> QED  BY <4>2, <4>3
    <3>3. \A end \in 0..n : TooLong(end) => g[(9 * end) \div 10] = f[(9 * end) \div 10]
      <4> SUFFICES ASSUME NEW end \in 0..n, TooLong(end)
                   PROVE  g[(9 * end) \div 10] = f[(9 * end) \div 10]
        OBVIOUS
      <4>1. (9 * end) \div 10 \in 1..(end - 1)
        BY TenthLess DEF TooLong
      <4>2. (9 * end) \div 10 \in 0..(n - 1)
        BY <4>1
      <4> QED  BY <3>2, <4>2
    <3>4. Solves(f, n)
      BY <3>3
    <3> QED  BY <3>4
  <2> QED  BY <2>1, <2>2
<1> HIDE DEF Solves
<1>2. Unsolved = {}
  <2> SUFFICES ASSUME Unsolved # {}  PROVE FALSE
    OBVIOUS
  <2>1. PICK n \in Unsolved : \A k \in Unsolved : n <= k
    BY LeastExists
  <2>2. \A k \in 0..(n - 1) : \E f : Solves(f, k)
    BY <2>1
  <2> QED  BY <1>1, <2>1, <2>2
<1>3. \E f : Solves(f, MaxChunk)
  BY <1>2, ChunkAssumption
<1> QED  BY <1>3 DEF Solves

LEMMA ChunkEndProperties ==
  ASSUME NEW text \in Seq(Units), text # <<>>
  PROVE  /\ ChunkEnd(text) \in 1..Len(text)
         /\ ByteLength(SubSeq(text, 1, ChunkEnd(text))) <= MaxChunk
<1> DEFINE TooLong(end) == end > 1 /\ ByteLength(SubSeq(text, 1, end)) > MaxChunk
           shrink == CHOOSE f : f = [end \in 0..MaxChunk |-> IF TooLong(end) THEN f[(9 * end) \div 10] ELSE end]
           first  == IF Len(text) < MaxChunk THEN Len(text) ELSE MaxChunk
<1>1. ChunkEnd(text) = shrink[first]
  BY DEF ChunkEnd
<1>2. shrink = [end \in 0..MaxChunk |-> IF TooLong(end) THEN shrink[(9 * end) \div 10] ELSE end]
  BY ShrinkExists, Zenon
<1> HIDE DEF shrink
<1> DEFINE Good(end) == /\ shrink[end] \in 1..end
                        /\ ~TooLong(shrink[end])
           Bad == {end \in 1..MaxChunk : ~Good(end)}
<1>3. Bad = {}
  <2> SUFFICES ASSUME Bad # {}  PROVE FALSE
    OBVIOUS
  <2>1. PICK end \in Bad : \A k \in Bad : end <= k
    <3>1. Bad \subseteq Nat
      BY ChunkAssumption
    <3> HIDE DEF Bad
    <3> QED  BY <3>1, LeastExists
  <2>2. CASE TooLong(end)
    <3>1. (9 * end) \div 10 \in 1..(end - 1)
      BY <2>2, TenthLess, ChunkAssumption
    <3>2. shrink[end] = shrink[(9 * end) \div 10]
      BY <1>2, <2>2, ChunkAssumption
    <3> HIDE DEF TooLong
    <3>3. PICK less \in 1..(end - 1) : less = (9 * end) \div 10
      BY <3>1
    <3>4. Good(less)
      BY <2>1, <3>3, ChunkAssumption
    <3> QED  BY <2>1, <3>2, <3>3, <3>4, ChunkAssumption
  <2>3. CASE ~TooLong(end)
    <3> HIDE DEF TooLong
    <3>1. shrink[end] = end
      BY <1>2, <2>3, ChunkAssumption
    <3> QED  BY <2>1, <2>3, <3>1, ChunkAssumption
  <2> QED  BY <2>2, <2>3
<1>4. first \in 1..MaxChunk /\ first <= Len(text) /\ Len(text) \in Nat
  BY EmptySeq, ChunkAssumption
<1>5. ChunkEnd(text) \in 1..Len(text) /\ ~TooLong(ChunkEnd(text))
  <2> HIDE DEF TooLong, first
  <2>1. Good(first)
    BY <1>3, <1>4
  <2> QED  BY <1>1, <1>4, <2>1, ChunkAssumption
<1>6. PICK chunk \in Seq(Units) : /\ chunk = SubSeq(text, 1, ChunkEnd(text))
                                  /\ Len(chunk) = ChunkEnd(text)
  <2>1. PICK end \in 1..Len(text) : end = ChunkEnd(text)
    BY <1>5
  <2>2. \A i \in 1..end : text[i] \in Units
    BY <2>1, <1>4, ElementOfSeq
  <2>3. end \in Nat
    BY <2>1, <1>4
  <2>4. SubSeq(text, 1, end) \in Seq(Units) /\ Len(SubSeq(text, 1, end)) = end
    BY <2>1, <2>2, <2>3, SubSeqProperties
  <2> QED  BY <2>1, <2>4
<1>7. ByteLength(chunk) \in Int /\ ByteLength(chunk) <= 3 * Len(chunk)
  BY ByteLengthBound
<1> QED  BY <1>5, <1>6, <1>7, ChunkAssumption

LEMMA FlattenExists ==
  ASSUME NEW seqs, Len(seqs) \in Nat
  PROVE  \E f : f = [i \in 1..Len(seqs) |-> IF i = 1 THEN seqs[i] ELSE f[i - 1] \o seqs[i]]
<1> DEFINE Glue(flat, i) == flat \o seqs[i]
           Solves(f, n) == f = [i \in 1..n |-> IF i = 1 THEN seqs[i] ELSE Glue(f[i - 1], i)]
           Unsolved     == {n \in Nat : ~ \E f : Solves(f, n)}
<1> HIDE DEF Glue, Solves
<1>1. ASSUME NEW n \in Nat, \A k \in 0..(n - 1) : \E f : Solves(f, k)
      PROVE  \E f : Solves(f, n)
  <2>1. CASE n = 0
    <3>1. Solves([i \in 1..0 |-> 0], 0)
      BY DEF Solves
    <3> QED  BY <2>1, <3>1
  <2>2. CASE n > 0
    <3>1. PICK g : Solves(g, n - 1)
      BY <1>1, <2>2
    <3> DEFINE f == [i \in 1..n |-> IF i = 1 THEN seqs[i] ELSE Glue(g[i - 1], i)]
    <3>2. \A i \in 1..(n - 1) : g[i] = f[i]
      BY <3>1 DEF Solves
    <3>3. \A i \in 1..n : i # 1 => i - 1 \in 1..(n - 1)
      OBVIOUS
    <3>4. \A i \in 1..n : i # 1 => g[i - 1] = f[i - 1]
      BY <3>2, <3>3
    <3>5. Solves(f, n)
      BY <3>4 DEF Solves
    <3> QED  BY <3>5
  <2> QED  BY <2>1, <2>2
<1>2. Unsolved = {}
  <2> SUFFICES ASSUME Unsolved # {}  PROVE FALSE
    OBVIOUS
  <2>1. PICK n \in Unsolved : \A k \in Unsolved : n <= k
    BY LeastExists
  <2>2. \A k \in 0..(n - 1) : \E f : Solves(f, k)
    BY <2>1
  <2> QED  BY <1>1, <2>1, <2>2
<1>3. PICK f : Solves(f, Len(seqs))
  BY <1>2
<1>4. f = [i \in 1..Len(seqs) |-> IF i = 1 THEN seqs[i] ELSE f[i - 1] \o seqs[i]]
  BY <1>3 DEF Solves, Glue
<1> QED  BY <1>4

\* What the library's FlattenSeq computes: the pieces so far, one after another.
LEMMA FlattenSteps ==
  ASSUME NEW S, NEW seqs \in Seq(Seq(S)), seqs # <<>>
  PROVE  \E f \in [1..Len(seqs) -> Seq(S)] :
           /\ FlattenSeq(seqs) = f[Len(seqs)]
           /\ f[1] = seqs[1]
           /\ \A i \in 2..Len(seqs) : f[i] = f[i - 1] \o seqs[i]
<1> DEFINE f == CHOOSE f : f = [i \in 1..Len(seqs) |-> IF i = 1 THEN seqs[i] ELSE f[i - 1] \o seqs[i]]
<1>1. Len(seqs) \in Nat \ {0} /\ \A i \in 1..Len(seqs) : seqs[i] \in Seq(S)
  BY EmptySeq, ElementOfSeq
<1>2. FlattenSeq(seqs) = f[Len(seqs)]
  BY <1>1 DEF FlattenSeq
<1>3. f = [i \in 1..Len(seqs) |-> IF i = 1 THEN seqs[i] ELSE f[i - 1] \o seqs[i]]
  BY <1>1, FlattenExists, Zenon
<1> HIDE DEF f
<1>4. f[1] = seqs[1] /\ \A i \in 2..Len(seqs) : f[i] = f[i - 1] \o seqs[i]
  <2> DEFINE Glue(flat, i) == flat \o seqs[i]
  <2>1. f = [i \in 1..Len(seqs) |-> IF i = 1 THEN seqs[i] ELSE Glue(f[i - 1], i)]
    BY <1>3
  <2> HIDE DEF Glue
  <2>2. f[1] = seqs[1]
    BY <1>1, <2>1
  <2>3. ASSUME NEW i \in 2..Len(seqs)  PROVE f[i] = Glue(f[i - 1], i)
    <3>1. i \in 1..Len(seqs) /\ i # 1
      BY <1>1
    <3> QED  BY <2>1, <3>1, Zenon
  <2> QED  BY <2>2, <2>3 DEF Glue
<1> DEFINE Bad == {i \in 1..Len(seqs) : f[i] \notin Seq(S)}
<1>5. Bad = {}
  <2> SUFFICES ASSUME Bad # {}  PROVE FALSE
    OBVIOUS
  <2>1. PICK i \in Bad : \A k \in Bad : i <= k
    <3>1. Bad \subseteq Nat
      OBVIOUS
    <3> HIDE DEF Bad
    <3> QED  BY <3>1, LeastExists
  <2>2. i # 1
    BY <1>1, <1>4, <2>1
  <2>3. i - 1 \in 1..Len(seqs) /\ i \in 2..Len(seqs)
    BY <2>1, <2>2
  <2>4. f[i - 1] \in Seq(S) /\ seqs[i] \in Seq(S)
    BY <1>1, <2>1, <2>3
  <2>5. f[i - 1] \o seqs[i] \in Seq(S)
    BY <2>4, ConcatProperties
  <2> QED  BY <1>4, <2>1, <2>3, <2>5
<1> QED  BY <1>2, <1>3, <1>4, <1>5

LEMMA FlattenType ==
  ASSUME NEW S, NEW seqs \in Seq(Seq(S))
  PROVE  FlattenSeq(seqs) \in Seq(S)
<1>1. CASE seqs = <<>>
  BY <1>1, EmptySeq DEF FlattenSeq
<1>2. CASE seqs # <<>>
  <2>1. PICK f \in [1..Len(seqs) -> Seq(S)] : FlattenSeq(seqs) = f[Len(seqs)]
    BY <1>2, FlattenSteps
  <2>2. Len(seqs) \in 1..Len(seqs)
    BY <1>2, EmptySeq
  <2> QED  BY <2>1, <2>2
<1> QED  BY <1>1, <1>2

LEMMA AppendedInTurn ==
  ASSUME NEW S
  PROVE  \A s, t, u \in Seq(S) : (s \o t) \o u = s \o (t \o u)
<1> TAKE s, t, u \in Seq(S)
<1> QED  BY ConcatAssociative

LEMMA OnePiece ==
  ASSUME NEW S, NEW piece \in S
  PROVE  <<piece>> \in Seq(S) /\ Len(<<piece>>) = 1 /\ <<piece>>[1] = piece
OBVIOUS

\* A piece put in front comes out in front.
LEMMA FlattenCons ==
  ASSUME NEW S, NEW piece \in Seq(S), NEW seqs \in Seq(Seq(S))
  PROVE  FlattenSeq(<<piece>> \o seqs) = piece \o FlattenSeq(seqs)
<1> DEFINE more == <<piece>> \o seqs
           n    == Len(seqs)
<1>0. \A s, t, u \in Seq(S) : (s \o t) \o u = s \o (t \o u)
  BY AppendedInTurn
<1>1. <<piece>> \in Seq(Seq(S)) /\ Len(<<piece>>) = 1 /\ <<piece>>[1] = piece
  BY OnePiece
<1>2. /\ more \in Seq(Seq(S)) /\ n \in Nat /\ Len(more) = n + 1
      /\ more[1] = piece
      /\ \A i \in 1..n : more[i + 1] = seqs[i]
  BY <1>1, ConcatProperties, LenProperties
<1>3. more # <<>> /\ more \in Seq(Seq(S))
  BY <1>2
<1> HIDE DEF more
<1>4. PICK g \in [1..Len(more) -> Seq(S)] :
           /\ FlattenSeq(more) = g[Len(more)]
           /\ g[1] = more[1]
           /\ \A i \in 2..Len(more) : g[i] = g[i - 1] \o more[i]
  BY <1>3, FlattenSteps
<1>5. CASE seqs = <<>>
  <2>1. FlattenSeq(more) = piece
    BY <1>2, <1>4, <1>5
  <2>2. FlattenSeq(seqs) = <<>>
    BY <1>5 DEF FlattenSeq
  <2> QED  BY <2>1, <2>2, ConcatEmptySeq DEF more
<1>6. CASE seqs # <<>>
  <2>1. PICK f \in [1..n -> Seq(S)] :
           /\ FlattenSeq(seqs) = f[n]
           /\ f[1] = seqs[1]
           /\ \A i \in 2..n : f[i] = f[i - 1] \o seqs[i]
    BY <1>6, FlattenSteps
  <2>2. n \in Nat \ {0} /\ \A i \in 1..n : seqs[i] \in Seq(S)
    BY <1>6, EmptySeq, ElementOfSeq
  <2> DEFINE Glued(i) == g[i + 1] = piece \o f[i]
             Bad == {i \in 1..n : ~Glued(i)}
  <2> HIDE DEF Glued
  <2>3. Bad = {}
    <3> SUFFICES ASSUME Bad # {}  PROVE FALSE
      OBVIOUS
    <3>1. PICK i \in Bad : \A k \in Bad : i <= k
      <4>1. Bad \subseteq Nat
        OBVIOUS
      <4> HIDE DEF Bad
      <4> QED  BY <4>1, LeastExists
    <3>2. i \in 1..n /\ i + 1 \in 2..Len(more) /\ (i + 1) - 1 = i
      BY <1>2, <3>1
    <3>3. g[i + 1] = g[i] \o seqs[i]
      BY <1>2, <1>4, <3>2
    <3>4. CASE i = 1
      <4>1. g[1] = piece /\ f[1] = seqs[1]
        BY <1>2, <1>4, <2>1
      <4> QED  BY <3>1, <3>3, <3>4, <4>1 DEF Glued
    <3>5. CASE i # 1
      <4>1. i \in 2..n /\ i - 1 \in 1..n /\ (i - 1) + 1 = i
        BY <3>2, <3>5
      <4>2. g[i] = piece \o f[i - 1]
        <5>1. PICK k \in 1..n : k = i - 1 /\ k + 1 = i /\ k < i
          BY <4>1
        <5>2. Glued(k)
          BY <3>1, <5>1
        <5>3. g[k + 1] = piece \o f[k]
          BY <5>2 DEF Glued
        <5> QED  BY <5>1, <5>3
      <4>3. f[i] = f[i - 1] \o seqs[i]
        BY <2>1, <4>1
      <4>4. f[i - 1] \in Seq(S) /\ seqs[i] \in Seq(S)
        BY <2>1, <2>2, <3>2, <4>1
      <4>5. (piece \o f[i - 1]) \o seqs[i] = piece \o (f[i - 1] \o seqs[i])
        <5> QED  BY <4>4, <1>0, Zenon
      <4> QED  BY <3>1, <3>3, <4>2, <4>3, <4>5 DEF Glued
    <3> QED  BY <3>4, <3>5
  <2>4. g[n + 1] = piece \o f[n]
    <3>1. n \in 1..n
      BY <2>2
    <3>2. Glued(n)
      BY <2>3, <3>1, Zenon
    <3> QED  BY <3>2 DEF Glued
  <2> QED  BY <1>2, <1>4, <2>1, <2>4 DEF more
<1> QED  BY <1>5, <1>6

\* What is left of a text behind its first chunk is a shorter text.
LEMMA RestIsShorter ==
  ASSUME NEW text \in Seq(Units), text # <<>>
  PROVE  LET chunk == SubSeq(text, 1, ChunkEnd(text))
             rest  == SubSeq(text, ChunkEnd(text) + 1, Len(text))
         IN  /\ chunk \in Seq(Units) /\ chunk # <<>>
             /\ ByteLength(chunk) <= MaxChunk
             /\ rest \in Seq(Units) /\ Len(rest) < Len(text)
             /\ chunk \o rest = text
<1>1. PICK end \in 1..Len(text) : end = ChunkEnd(text) /\ ByteLength(SubSeq(text, 1, end)) <= MaxChunk
  BY ChunkEndProperties, Zenon
<1>2. Len(text) \in Nat /\ \A i \in 1..Len(text) : text[i] \in Units
  BY LenProperties, ElementOfSeq
<1>3. SubSeq(text, 1, end) \in Seq(Units) /\ SubSeq(text, 1, end) # <<>>
  <2>1. \A i \in 1..end : text[i] \in Units
    BY <1>2
  <2>2. SubSeq(text, 1, end) \in Seq(Units) /\ Len(SubSeq(text, 1, end)) = end
    BY <1>2, <2>1, SubSeqProperties
  <2> QED  BY <2>2, EmptySeq
<1>4. SubSeq(text, end + 1, Len(text)) \in Seq(Units) /\ Len(SubSeq(text, end + 1, Len(text))) < Len(text)
  <2>1. \A i \in (end + 1)..Len(text) : text[i] \in Units
    BY <1>2
  <2>2. end + 1 \in Int /\ Len(text) \in Int
    BY <1>2
  <2>3. /\ SubSeq(text, end + 1, Len(text)) \in Seq(Units)
        /\ Len(SubSeq(text, end + 1, Len(text)))
             = IF end + 1 <= Len(text) THEN Len(text) - (end + 1) + 1 ELSE 0
    BY <2>1, <2>2, SubSeqProperties
  <2> QED  BY <1>2, <2>3
<1>5. SubSeq(text, 1, end) \o SubSeq(text, end + 1, Len(text)) = text
  <2>1. /\ 1 \in 1..(Len(text) + 1)
        /\ end \in (1 - 1)..Len(text)
        /\ Len(text) \in end..Len(text)
    BY <1>2
  <2>2. SubSeq(text, 1, end) \o SubSeq(text, end + 1, Len(text)) = SubSeq(text, 1, Len(text))
    BY <2>1, ConcatAdjacentSubSeq
  <2> QED  BY <2>2, SubSeqFull
<1> QED  BY <1>1, <1>3, <1>4, <1>5

\* splitForStream's recursion has a solution: one for the texts up to each
\* length, any two of which agree where both are defined.
LEMMA SplitExists ==
  \E f : f = [rest \in Seq(Units) |->
                IF rest = <<>> THEN <<>>
                ELSE <<SubSeq(rest, 1, ChunkEnd(rest))>>
                       \o f[SubSeq(rest, ChunkEnd(rest) + 1, Len(rest))]]
<1> DEFINE UpTo(n)   == {t \in Seq(Units) : Len(t) <= n}
           Behind(t) == SubSeq(t, ChunkEnd(t) + 1, Len(t))
           Glue(t, chunks) == <<SubSeq(t, 1, ChunkEnd(t))>> \o chunks
           Solves(f, T) == f = [t \in T |-> IF t = <<>> THEN <<>> ELSE Glue(t, f[Behind(t)])]
           Unsolved     == {n \in Nat : ~ \E f : Solves(f, UpTo(n))}
<1>1. ASSUME NEW t \in Seq(Units), t # <<>>
      PROVE  /\ Behind(t) \in Seq(Units)
             /\ Len(Behind(t)) \in Nat /\ Len(t) \in Nat
             /\ Len(Behind(t)) < Len(t)
  BY <1>1, RestIsShorter, LenProperties
<1> HIDE DEF Behind, Glue, Solves
<1>2. ASSUME NEW n \in Nat, \A k \in 0..(n - 1) : \E f : Solves(f, UpTo(k))
      PROVE  \E f : Solves(f, UpTo(n))
  <2>1. CASE n = 0
    <3> DEFINE f == [t \in UpTo(0) |-> <<>>]
    <3>1. \A t \in UpTo(0) : t = <<>>
      BY EmptySeq
    <3>2. Solves(f, UpTo(0))
      BY <3>1 DEF Solves
    <3> QED  BY <2>1, <3>2
  <2>2. CASE n > 0
    <3>1. PICK g : Solves(g, UpTo(n - 1))
      <4>1. n - 1 \in 0..(n - 1)
        BY <2>2
      <4> HIDE DEF UpTo
      <4> QED  BY <1>2, <4>1
    <3> DEFINE f == [t \in UpTo(n) |-> IF t = <<>> THEN <<>> ELSE Glue(t, g[Behind(t)])]
    <3>2. \A t \in UpTo(n - 1) : t \in UpTo(n) /\ g[t] = f[t]
      <4> SUFFICES ASSUME NEW t \in UpTo(n - 1)  PROVE t \in UpTo(n) /\ g[t] = f[t]
        OBVIOUS
      <4>1. t \in UpTo(n)
        BY LenProperties
      <4> HIDE DEF UpTo
      <4>2. g[t] = IF t = <<>> THEN <<>> ELSE Glue(t, g[Behind(t)])
        BY <3>1, Zenon DEF Solves
      <4> QED  BY <4>1, <4>2
    <3>3. ASSUME NEW t \in UpTo(n), t # <<>>  PROVE g[Behind(t)] = f[Behind(t)]
      <4>1. Behind(t) \in UpTo(n - 1)
        BY <1>1, <3>3
      <4> QED  BY <3>2, <4>1
    <3> HIDE DEF UpTo
    <3>4. Solves(f, UpTo(n))
      BY <3>3 DEF Solves
    <3> HIDE DEF f
    <3> QED  BY <3>4, Zenon
  <2> HIDE DEF UpTo
  <2> QED  BY <2>1, <2>2
<1>3. \A n \in Nat : \E f : Solves(f, UpTo(n))
  <2> SUFFICES ASSUME Unsolved # {}  PROVE FALSE
    OBVIOUS
  <2>1. PICK n \in Unsolved : \A k \in Unsolved : n <= k
    BY LeastExists
  <2> HIDE DEF UpTo
  <2>2. \A k \in 0..(n - 1) : \E f : Solves(f, UpTo(k))
    BY <2>1
  <2> QED  BY <1>2, <2>1, <2>2
<1>4. ASSUME NEW n \in Nat, NEW m \in Nat, NEW g, NEW h, Solves(g, UpTo(n)), Solves(h, UpTo(m))
      PROVE  \A t \in UpTo(n) \cap UpTo(m) : g[t] = h[t]
  <2> DEFINE Agree(t) == g[t] = h[t]
             Bad == {Len(t) : t \in {u \in UpTo(n) \cap UpTo(m) : ~Agree(u)}}
  <2> HIDE DEF Agree
  <2> SUFFICES ASSUME Bad # {}  PROVE FALSE
    BY DEF Agree
  <2>1. PICK l \in Bad : \A k \in Bad : l <= k
    <3>1. Bad \subseteq Nat
      BY LenProperties
    <3> HIDE DEF Bad
    <3> QED  BY <3>1, LeastExists
  <2>2. PICK t \in UpTo(n) \cap UpTo(m) : Len(t) = l /\ ~Agree(t)
    BY <2>1
  <2>3. /\ g[t] = IF t = <<>> THEN <<>> ELSE Glue(t, g[Behind(t)])
        /\ h[t] = IF t = <<>> THEN <<>> ELSE Glue(t, h[Behind(t)])
    <3>1. t \in UpTo(n) /\ t \in UpTo(m)
      BY <2>2
    <3> HIDE DEF UpTo
    <3> QED  BY <1>4, <3>1, Zenon DEF Solves
  <2>4. t # <<>>
    BY <2>2, <2>3 DEF Agree
  <2>5. Behind(t) \in UpTo(n) \cap UpTo(m) /\ Len(Behind(t)) < l
    BY <1>1, <2>2, <2>4
  <2>6. Agree(Behind(t))
    <3>1. PICK b \in UpTo(n) \cap UpTo(m) : b = Behind(t) /\ Len(b) < l
      BY <2>5
    <3>2. Len(b) \in Nat /\ Len(t) \in Nat
      BY <2>2, LenProperties
    <3> QED  BY <2>1, <2>2, <3>1, <3>2
  <2> QED  BY <2>2, <2>3, <2>4, <2>6 DEF Agree
<1> DEFINE Some(n) == CHOOSE f : Solves(f, UpTo(n))
           split   == [t \in Seq(Units) |-> Some(Len(t))[t]]
<1>5. ASSUME NEW n \in Nat  PROVE Solves(Some(n), UpTo(n))
  <2> HIDE DEF UpTo
  <2> QED  BY <1>3, Zenon
<1> HIDE DEF Some
<1>6. ASSUME NEW t \in Seq(Units)
      PROVE  split[t] = IF t = <<>> THEN <<>> ELSE Glue(t, split[Behind(t)])
  <2>1. PICK n \in Nat : n = Len(t)
    BY LenProperties
  <2>2. t \in UpTo(n)
    BY <2>1
  <2>3. split[t] = Some(n)[t]
    BY <2>1
  <2>4. Some(n)[t] = IF t = <<>> THEN <<>> ELSE Glue(t, Some(n)[Behind(t)])
    <3> HIDE DEF UpTo
    <3> QED  BY <1>5, <2>2, Zenon DEF Solves
  <2>5. CASE t # <<>>
    <3>1. PICK m \in Nat : m = Len(Behind(t))
      BY <1>1, <2>5
    <3>2. Behind(t) \in UpTo(n) \cap UpTo(m)
      BY <1>1, <2>1, <2>5, <3>1
    <3>3. Some(n)[Behind(t)] = Some(m)[Behind(t)]
      <4> HIDE DEF UpTo
      <4> QED  BY <1>4, <1>5, <3>2
    <3>4. split[Behind(t)] = Some(m)[Behind(t)]
      BY <1>1, <2>5, <3>1
    <3> HIDE DEF split
    <3> QED  BY <2>3, <2>4, <2>5, <3>3, <3>4
  <2> HIDE DEF split
  <2> QED  BY <2>3, <2>4, <2>5
<1>7. Solves(split, Seq(Units))
  BY <1>6 DEF Solves
<1> HIDE DEF split
<1> QED  BY <1>7 DEF Solves, Glue, Behind

\* Every text is cut into pieces that fit, none of them empty, and that are the
\* text when they are put together again.
LEMMA SplitProperties ==
  ASSUME NEW text \in Seq(Units), ByteLength(text) > MaxChunk
  PROVE  /\ SplitForStream(text) \in Seq(Seq(Units))
         /\ FlattenSeq(SplitForStream(text)) = text
         /\ \A i \in DOMAIN SplitForStream(text) :
              /\ ByteLength(SplitForStream(text)[i]) <= MaxChunk
              /\ SplitForStream(text)[i] # <<>>
<1> DEFINE split == CHOOSE f : f = [rest \in Seq(Units) |->
                      IF rest = <<>> THEN <<>>
                      ELSE <<SubSeq(rest, 1, ChunkEnd(rest))>>
                             \o f[SubSeq(rest, ChunkEnd(rest) + 1, Len(rest))]]
<1>1. SplitForStream(text) = split[text]
  BY ByteLengthBound, ChunkAssumption DEF SplitForStream
<1>2. split = [rest \in Seq(Units) |->
                 IF rest = <<>> THEN <<>>
                 ELSE <<SubSeq(rest, 1, ChunkEnd(rest))>>
                        \o split[SubSeq(rest, ChunkEnd(rest) + 1, Len(rest))]]
  BY SplitExists, Zenon
<1> HIDE DEF split
<1> DEFINE Fits(chunk)   == ByteLength(chunk) <= MaxChunk /\ chunk # <<>>
           Well(t)       == /\ split[t] \in Seq(Seq(Units))
                            /\ FlattenSeq(split[t]) = t
                            /\ \A i \in 1..Len(split[t]) : Fits(split[t][i])
           Bad           == {Len(t) : t \in {u \in Seq(Units) : ~Well(u)}}
<1> HIDE DEF Fits, Well
<1>3. Bad = {}
  <2> SUFFICES ASSUME Bad # {}  PROVE FALSE
    OBVIOUS
  <2>1. PICK l \in Bad : \A k \in Bad : l <= k
    <3>1. Bad \subseteq Nat
      BY LenProperties
    <3> HIDE DEF Bad
    <3> QED  BY <3>1, LeastExists
  <2>2. PICK t \in Seq(Units) : Len(t) = l /\ ~Well(t)
    BY <2>1
  <2>3. CASE t = <<>>
    <3>1. split[t] = <<>>
      BY <1>2, <2>3, Zenon
    <3>2. FlattenSeq(<<>>) = <<>>
      BY DEF FlattenSeq
    <3> QED  BY <2>2, <2>3, <3>1, <3>2, EmptySeq DEF Well
  <2>4. CASE t # <<>>
    <3>1. PICK chunk, rest :
             /\ chunk = SubSeq(t, 1, ChunkEnd(t))
             /\ rest = SubSeq(t, ChunkEnd(t) + 1, Len(t))
             /\ chunk \in Seq(Units) /\ Fits(chunk)
             /\ rest \in Seq(Units) /\ Len(rest) < Len(t)
             /\ chunk \o rest = t
      BY <2>4, RestIsShorter, Zenon DEF Fits
    <3>2. split[t] = <<chunk>> \o split[rest]
      BY <1>2, <2>4, <3>1, Zenon
    <3>3. Well(rest)
      <4>1. Len(rest) \in Nat /\ Len(t) \in Nat
        BY <3>1, LenProperties
      <4>2. Len(rest) \notin Bad
        <5>1. Len(rest) < l /\ l \in Nat
          BY <2>2, <3>1, <4>1
        <5> HIDE DEF Bad
        <5> QED  BY <2>1, <4>1, <5>1
      <4> QED  BY <3>1, <4>2, Zenon
    <3>4. /\ split[rest] \in Seq(Seq(Units))
          /\ FlattenSeq(split[rest]) = rest
          /\ \A i \in 1..Len(split[rest]) : Fits(split[rest][i])
      BY <3>3 DEF Well
    <3>5. FlattenSeq(split[t]) = t
      <4>1. FlattenSeq(<<chunk>> \o split[rest]) = chunk \o FlattenSeq(split[rest])
        <5>1. chunk \in Seq(Units)
          BY <3>1
        <5> QED  BY <3>4, <5>1, FlattenCons, Zenon
      <4> QED  BY <3>1, <3>2, <3>4, <4>1, Zenon
    <3>6. /\ split[t] \in Seq(Seq(Units))
          /\ \A i \in 1..Len(split[t]) : Fits(split[t][i])
      <4>1. <<chunk>> \in Seq(Seq(Units)) /\ Len(<<chunk>>) = 1 /\ <<chunk>>[1] = chunk
        <5>1. chunk \in Seq(Units)
          BY <3>1
        <5> QED  BY <5>1, OnePiece, Zenon
      <4>2. Len(split[rest]) \in Nat
        BY <3>4, LenProperties
      <4>3. /\ split[t] \in Seq(Seq(Units))
            /\ Len(split[t]) = 1 + Len(split[rest])
            /\ \A i \in 1..(1 + Len(split[rest])) :
                 split[t][i] = IF i <= 1 THEN <<chunk>>[i] ELSE split[rest][i - 1]
        BY <3>2, <3>4, <4>1, ConcatProperties
      <4>4. ASSUME NEW i \in 1..Len(split[t])  PROVE Fits(split[t][i])
        <5>1. CASE i = 1
          <6>1. 1 \in 1..(1 + Len(split[rest])) /\ 1 <= 1
            BY <4>2
          <6>2. split[t][1] = chunk
            BY <4>1, <4>3, <6>1, Zenon
          <6> QED  BY <3>1, <5>1, <6>2, Zenon
        <5>2. CASE i # 1
          <6>1. i - 1 \in 1..Len(split[rest])
            BY <4>2, <4>3, <5>2
          <6>2. split[t][i] = split[rest][i - 1]
            BY <4>2, <4>3, <5>2
          <6> QED  BY <3>4, <6>1, <6>2
        <5> QED  BY <5>1, <5>2
      <4> QED  BY <4>3, <4>4
    <3> QED  BY <2>2, <3>5, <3>6 DEF Well
  <2> QED  BY <2>3, <2>4
<1>4. Well(text)
  BY <1>3
<1>5. split[text] \in Seq(Seq(Units)) /\ DOMAIN split[text] = 1..Len(split[text])
  BY <1>4, LenProperties DEF Well
<1> QED  BY <1>1, <1>4, <1>5 DEF Well, Fits

\* splitForStream on a text of any length: in one piece when it fits.
THEOREM EveryTextCutWell ==
  ASSUME NEW text \in Seq(Units)
  PROVE  CutWell(text)
<1>1. CASE ByteLength(text) <= MaxChunk
  <2>1. SplitForStream(text) = <<text>>
    BY <1>1 DEF SplitForStream
  <2>2. FlattenSeq(<<text>>) = text
    <3>1. <<text>> \in Seq(Seq(Units)) /\ <<text>> # <<>> /\ Len(<<text>>) = 1 /\ <<text>>[1] = text
      OBVIOUS
    <3>2. PICK f \in [1..1 -> Seq(Units)] : FlattenSeq(<<text>>) = f[1] /\ f[1] = text
      BY <3>1, FlattenSteps
    <3> QED  BY <3>2
  <2>3. DOMAIN <<text>> = {1} /\ <<text>>[1] = text
    OBVIOUS
  <2> QED  BY <1>1, <2>1, <2>2, <2>3 DEF CutWell
<1>2. CASE ByteLength(text) > MaxChunk
  BY <1>2, SplitProperties, Zenon DEF CutWell
<1> QED  BY <1>1, <1>2, ByteLengthBound, ChunkAssumption

\* What TLC enumerates are texts.
LEMMA TextsAreTexts == Texts \subseteq Seq(Units)
<1> SUFFICES ASSUME NEW n \in 0..MaxStream, NEW t \in [1..n -> Characters]
             PROVE  FlattenSeq(t) \in Seq(Units)
  BY DEF Texts
<1>1. Characters \subseteq Seq(Units)
  BY DEF Characters, Units
<1>2. t \in Seq(Seq(Units))
  BY <1>1, OutputAssumption
<1> QED  BY <1>2, FlattenType

\* ChunksAreTheText: whatever an execution has streamed, splitForStream cut each
\* piece of text into chunks that are the text again, none empty, none too long.
THEOREM ChunksAreTheTextSafe == Spec => []ChunksAreTheText
<1>1. \A n \in 0..MaxStream : AllCutWell[n]
  <2>1. \A t \in Texts : CutWell(t)
    BY EveryTextCutWell, TextsAreTexts
  <2> QED  BY <2>1, Zenon DEF AllCutWell
<1>2. OutputTypeOK => ChunksAreTheText
  BY <1>1 DEF OutputTypeOK, ChunksAreTheText
<1> QED  BY <1>2, OutputTypeCorrect, PTL
=============================================================================
