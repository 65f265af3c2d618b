---------------------------- MODULE StreamProofs ----------------------------
(***************************************************************************)
(* Theorems about the stream of a job, for any clients, any length of the  *)
(* output, any retention and any number of errors.                         *)
(***************************************************************************)
EXTENDS LogStream, SequenceTheorems, FiniteSetTheorems, TLAPS

(***************************************************************************)
(* The messages of a sequence.                                             *)
(***************************************************************************)
LEMMA ToSetAppend ==
  ASSUME NEW S, NEW s \in Seq(S), NEW m \in S
  PROVE  /\ Append(s, m) \in Seq(S)
         /\ ToSet(Append(s, m)) = ToSet(s) \union {m}
BY AppendProperties, LenProperties DEF ToSet

LEMMA ToSetConcat ==
  ASSUME NEW S, NEW s \in Seq(S), NEW t \in Seq(S)
  PROVE  /\ s \o t \in Seq(S)
         /\ ToSet(s \o t) = ToSet(s) \union ToSet(t)
<1>1. /\ s \o t \in Seq(S)
      /\ Len(s \o t) = Len(s) + Len(t)
      /\ \A i \in 1..(Len(s) + Len(t)) : (s \o t)[i] = IF i <= Len(s) THEN s[i] ELSE t[i - Len(s)]
  BY ConcatProperties
<1>2. Len(s) \in Nat /\ Len(t) \in Nat /\ DOMAIN s = 1..Len(s) /\ DOMAIN t = 1..Len(t)
      /\ DOMAIN (s \o t) = 1..(Len(s) + Len(t))
  BY <1>1, LenProperties
<1>3. \A i \in 1..Len(t) : Len(s) + i \in 1..(Len(s) + Len(t)) /\ (s \o t)[Len(s) + i] = t[i]
  BY <1>1, <1>2
<1>4. \A i \in 1..Len(s) : i \in 1..(Len(s) + Len(t)) /\ (s \o t)[i] = s[i]
  BY <1>1, <1>2
<1>5. ToSet(s \o t) \subseteq ToSet(s) \union ToSet(t)
  BY <1>1, <1>2 DEF ToSet
<1>6. ToSet(s) \subseteq ToSet(s \o t)
  BY <1>2, <1>4 DEF ToSet
<1>7. ToSet(t) \subseteq ToSet(s \o t)
  BY <1>2, <1>3 DEF ToSet
<1> QED  BY <1>1, <1>5, <1>6, <1>7

LEMMA ToSetTail ==
  ASSUME NEW S, NEW s \in Seq(S), s # <<>>
  PROVE  /\ Head(s) \in S /\ Head(s) \in ToSet(s)
         /\ Tail(s) \in Seq(S)
         /\ ToSet(s) \subseteq {Head(s)} \union ToSet(Tail(s))
         /\ ToSet(Tail(s)) \subseteq ToSet(s)
<1>1. /\ Head(s) \in S /\ Tail(s) \in Seq(S)
      /\ Len(Tail(s)) = Len(s) - 1
      /\ \A i \in 1..Len(Tail(s)) : Tail(s)[i] = s[i + 1]
      /\ Head(s) = s[1] /\ Len(s) \in Nat /\ Len(s) >= 1
  BY HeadTailProperties, EmptySeq, LenProperties
<1>2. DOMAIN s = 1..Len(s) /\ DOMAIN Tail(s) = 1..(Len(s) - 1)
  BY <1>1, LenProperties
<1>3. \A i \in 1..Len(s) : i = 1 \/ (i - 1 \in 1..(Len(s) - 1) /\ s[i] = Tail(s)[i - 1])
  BY <1>1
<1>4. Head(s) \in ToSet(s)
  BY <1>1, <1>2 DEF ToSet
<1>5. ToSet(s) \subseteq {Head(s)} \union ToSet(Tail(s))
  <2>1. ASSUME NEW i \in 1..Len(s)  PROVE s[i] \in {Head(s)} \union ToSet(Tail(s))
    <3>1. CASE i = 1
      BY <1>1, <3>1
    <3>2. CASE i - 1 \in 1..(Len(s) - 1) /\ s[i] = Tail(s)[i - 1]
      BY <1>2, <3>2 DEF ToSet
    <3> QED  BY <1>3, <3>1, <3>2
  <2> QED  BY <1>2, <2>1 DEF ToSet
<1>6. ToSet(Tail(s)) \subseteq ToSet(s)
  <2>1. \A i \in 1..(Len(s) - 1) : Tail(s)[i] = s[i + 1] /\ i + 1 \in 1..Len(s)
    BY <1>1
  <2> QED  BY <1>2, <2>1 DEF ToSet
<1> QED  BY <1>1, <1>4, <1>5, <1>6

LEMMA ToSetEmpty == ToSet(<<>>) = {}
BY DEF ToSet

\* XADD adds its message and may trim others, but adds no other.
LEMMA XAddFacts ==
  ASSUME NEW m \in Messages, stream \in Seq(Messages), XAdd(m)
  PROVE  /\ stream' \in Seq(Messages)
         /\ ToSet(stream') \subseteq ToSet(stream) \union {m}
<1> DEFINE all == Append(stream, m)
<1>1. all \in Seq(Messages) /\ ToSet(all) = ToSet(stream) \union {m}
  BY ToSetAppend
<1>2. CASE stream' = all
  BY <1>1, <1>2
<1>3. CASE /\ Len(all) > Retention
           /\ stream' = SubSeq(all, Len(all) - Retention + 1, Len(all))
  <2> DEFINE from == Len(all) - Retention + 1
  <2>1. Len(all) \in Nat /\ Retention \in Nat /\ Retention > 0 /\ DOMAIN all = 1..Len(all)
    BY <1>1, StreamAssumption, LenProperties
  <2>2. from \in 1..Len(all)
    BY <1>3, <2>1
  <2> HIDE DEF all
  <2>3. SubSeq(all, from, Len(all)) \in Seq(Messages)
    BY <1>1, <2>1, <2>2, SubSeqProperties, ElementOfSeq
  <2>4. ToSet(SubSeq(all, from, Len(all))) \subseteq ToSet(all)
    <3>1. /\ Len(SubSeq(all, from, Len(all))) = Len(all) - from + 1
          /\ \A i \in 1..(Len(all) - from + 1) : SubSeq(all, from, Len(all))[i] = all[from + i - 1]
      BY <1>1, <2>1, <2>2, SubSeqProperties
    <3>2. DOMAIN SubSeq(all, from, Len(all)) = 1..(Len(all) - from + 1)
      BY <2>3, <3>1, LenProperties
    <3>3. \A i \in 1..(Len(all) - from + 1) : from + i - 1 \in 1..Len(all)
      BY <2>1, <2>2
    <3> QED  BY <2>1, <3>1, <3>2, <3>3 DEF ToSet
  <2> QED  BY <1>1, <1>3, <2>3, <2>4
<1> QED  BY <1>2, <1>3 DEF XAdd

(***************************************************************************)
(* Types.                                                                  *)
(***************************************************************************)
LEMMA MessageTypes ==
  /\ Marker \in Messages
  /\ \A n \in 1..LastChunk : n \in Messages /\ n # Marker
BY DEF Marker, Messages

LEMMA InitTyped == Init => StreamTypeOK
<1> SUFFICES ASSUME Init  PROVE StreamTypeOK
  OBVIOUS
<1>1. <<>> \in Seq(Messages)
  BY EmptySeq
<1>2. errorsLeft \in 0..MaxErrors /\ written \in 0..LastChunk
  BY StreamAssumption DEF Init
<1>3. socketAt \in [Clients -> Stages] /\ producerAt \in ProducerSteps
  BY DEF Init, Stages, ProducerSteps
<1>4. /\ snapshot \in [Clients -> Seq(Messages)] /\ received \in [Clients -> Seq(Messages)]
      /\ sawTerminal \in [Clients -> BOOLEAN] /\ closing \in [Clients -> BOOLEAN]
  BY <1>1 DEF Init
<1>5. stream \in Seq(Messages) /\ channel \in Seq(Messages) /\ heard \subseteq Messages
  BY <1>1 DEF Init
<1> QED  BY <1>2, <1>3, <1>4, <1>5 DEF Init, StreamTypeOK

LEMMA ErrorsStayTyped ==
  ASSUME errorsLeft \in 0..MaxErrors, NoError \/ Error
  PROVE  errorsLeft' \in 0..MaxErrors
BY StreamAssumption DEF NoError, Error

\* What a step may do to the channel, the socket of a client and its state.
LEMMA StepTyped ==
  ASSUME StreamTypeOK, [Next]_vars
  PROVE  StreamTypeOK'
<1> USE DEF redisVars, producerVars, socketVars
<1>0. errorsLeft' \in 0..MaxErrors
  <2>1. NoError \/ Error
    BY DEF Next, vars, Produce, Serve, NoError, AddChunk, PublishChunk, Commit, AddMarker,
           PublishMarker, StreamExpires, Relay, Connect, ReadStatus, ReadStream, Replay,
           Close, ReplayFails, ClientLeaves
  <2> QED  BY <2>1, ErrorsStayTyped DEF StreamTypeOK
<1>1. CASE AddChunk
  <2>1. written + 1 \in Messages /\ written' \in 0..LastChunk
    BY <1>1, MessageTypes, StreamAssumption DEF AddChunk, StreamTypeOK
  <2>2. stream' \in Seq(Messages)
    BY <1>1, <2>1, XAddFacts DEF AddChunk, StreamTypeOK
  <2> QED  BY <1>0, <1>1, <2>1, <2>2 DEF AddChunk, StreamTypeOK, ProducerSteps
<1>2. CASE PublishChunk
  <2>1. written \in Messages
    BY StreamAssumption DEF StreamTypeOK, Messages, Marker
  <2>2. channel' \in Seq(Messages) /\ heard' \subseteq Messages
    <3>1. CASE Publish(written)
      <4>1. channel' \in Seq(Messages)
        BY <2>1, <3>1, ToSetAppend DEF StreamTypeOK, Publish
      <4> QED  BY <2>1, <3>1, <4>1 DEF StreamTypeOK, Publish
    <3>2. CASE UNCHANGED <<channel, heard>>
      BY <3>2 DEF StreamTypeOK
    <3> QED  BY <1>2, <3>1, <3>2 DEF PublishChunk
  <2> QED  BY <1>0, <1>2, <2>2 DEF PublishChunk, StreamTypeOK, ProducerSteps
<1>3. CASE Commit
  BY <1>0, <1>3 DEF Commit, StreamTypeOK, ProducerSteps
<1>4. CASE AddMarker
  <2>1. stream' \in Seq(Messages)
    BY <1>4, MessageTypes, XAddFacts DEF AddMarker, StreamTypeOK
  <2> QED  BY <1>0, <1>4, <2>1 DEF AddMarker, StreamTypeOK, ProducerSteps
<1>5. CASE PublishMarker
  <2>1. channel' \in Seq(Messages) /\ heard' \subseteq Messages
    <3>1. CASE UNCHANGED <<channel, heard>>
      BY <3>1 DEF StreamTypeOK
    <3>2. CASE Publish(Marker)
      BY <3>2, MessageTypes, ToSetAppend DEF Publish, StreamTypeOK
    <3> QED  BY <1>5, <3>1, <3>2 DEF PublishMarker
  <2> QED  BY <1>0, <1>5, <2>1 DEF PublishMarker, StreamTypeOK, ProducerSteps
<1>6. CASE StreamExpires
  BY <1>0, <1>6, EmptySeq DEF StreamExpires, StreamTypeOK
<1>7. CASE Relay
  <2>1. Head(channel) \in Messages /\ channel' \in Seq(Messages)
    BY <1>7, ToSetTail DEF Relay, StreamTypeOK
  <2>2. \A c \in Clients : received[c] \in Seq(Messages)
    BY DEF StreamTypeOK
  <2>3. \A c \in Clients : Append(received[c], Head(channel)) \in Seq(Messages)
    BY <2>1, <2>2, ToSetAppend
  <2> DEFINE sent(c) == IF Relayed(c) THEN Append(received[c], Head(channel)) ELSE received[c]
             closes(c) == closing[c] \/ (Relayed(c) /\ Head(channel) = Marker)
  <2>4. \A c \in Clients : sent(c) \in Seq(Messages)
    BY <2>2, <2>3
  <2>5. \A c \in Clients : closes(c) \in BOOLEAN
    BY DEF StreamTypeOK
  <2>6. received' = [c \in Clients |-> sent(c)] /\ closing' = [c \in Clients |-> closes(c)]
    BY <1>7 DEF Relay
  <2> HIDE DEF sent, closes
  <2>7. received' \in [Clients -> Seq(Messages)] /\ closing' \in [Clients -> BOOLEAN]
    BY <2>4, <2>5, <2>6
  <2> QED  BY <1>0, <1>7, <2>1, <2>7 DEF Relay, StreamTypeOK
<1>8. ASSUME NEW c \in Clients, Connect(c) \/ ReadStatus(c) \/ ReadStream(c) \/ ReplayFails(c)
      PROVE  StreamTypeOK'
  <2>1. CASE Connect(c)
    BY <1>0, <2>1 DEF Connect, Stage, StreamTypeOK, Stages
  <2>2. CASE ReadStatus(c)
    BY <1>0, <2>2 DEF ReadStatus, Stage, StreamTypeOK, Stages
  <2>3. CASE ReadStream(c)
    BY <1>0, <2>3 DEF ReadStream, Stage, StreamTypeOK, Stages
  <2>4. CASE ReplayFails(c)
    BY <1>0, <2>4, EmptySeq DEF ReplayFails, ForgetAll, Forget, Stage, StreamTypeOK, Stages
  <2> QED  BY <1>8, <2>1, <2>2, <2>3, <2>4
<1>9. ASSUME NEW c \in Clients, Close(c) \/ ClientLeaves(c)
      PROVE  StreamTypeOK'
  <2>1. <<>> \in Seq(Messages)
    BY EmptySeq
  <2>2. Forget(c) /\ \E s \in Stages : Stage(c, s)
    BY <1>9 DEF Close, ClientLeaves, ForgetAll, Stages
  <2>3. /\ socketAt' \in [Clients -> Stages]
        /\ sawTerminal' \in [Clients -> BOOLEAN]
        /\ snapshot' \in [Clients -> Seq(Messages)]
    BY <2>1, <2>2 DEF Stage, Forget, StreamTypeOK
  <2>4. closing' \in [Clients -> BOOLEAN] /\ received' \in [Clients -> Seq(Messages)]
    BY <1>9, <2>1 DEF Close, ClientLeaves, ForgetAll, StreamTypeOK
  <2>5. UNCHANGED <<redisVars, producerVars>>
    BY <1>9 DEF Close, ClientLeaves
  <2> QED  BY <1>0, <2>3, <2>4, <2>5 DEF StreamTypeOK
<1>10. ASSUME NEW c \in Clients, Replay(c)
       PROVE  StreamTypeOK'
  <2>1. received[c] \o snapshot[c] \in Seq(Messages)
    <3>1. received[c] \in Seq(Messages) /\ snapshot[c] \in Seq(Messages)
      BY DEF StreamTypeOK
    <3> QED  BY <3>1, ToSetConcat
  <2>2. (closing[c] \/ ClosesAfterReplay(c)) \in BOOLEAN
    BY DEF StreamTypeOK
  <2>3. received' \in [Clients -> Seq(Messages)]
    BY <1>10, <2>1 DEF Replay, StreamTypeOK
  <2>4. closing' \in [Clients -> BOOLEAN]
    BY <1>10, <2>2 DEF Replay, StreamTypeOK
  <2> QED  BY <1>0, <1>10, <2>3, <2>4, EmptySeq DEF Replay, Stage, Forget, StreamTypeOK, Stages
<1>11. CASE UNCHANGED vars
  BY <1>11 DEF vars, StreamTypeOK
<1> QED
  BY <1>1, <1>2, <1>3, <1>4, <1>5, <1>6, <1>7, <1>8, <1>9, <1>10, <1>11
  DEF Next, Produce, Serve

\* Every reachable state of a stream is well typed.
THEOREM StreamTypeCorrect == Spec => []StreamTypeOK
BY InitTyped, StepTyped, PTL DEF Spec

(***************************************************************************)
(* The marker is written last, and only for a decided job; whatever closes *)
(* a socket (a status, a replay, the marker on the channel) comes after    *)
(* the decision, which is never taken back.                                *)
(***************************************************************************)
Orderly ==
  /\ decided <=> producerAt \in {"add_marker", "publish_marker", "done"}
  /\ Marker \in ToSet(stream) \union ToSet(channel) => decided
  /\ Marker \in ToSet(channel) => producerAt = "done"
  /\ producerAt = "publish" => written # Marker
  /\ \A i \in 1..(Len(channel) - 1) : channel[i] # Marker
  /\ heard \subseteq {Marker} \union 1..written

ClosesAfterDecision ==
  \A c \in Clients :
    \/ sawTerminal[c] \/ closing[c] \/ Marker \in ToSet(snapshot[c])
    \/ socketAt[c] \in {"closed", "cut"}
    => decided

Known == (ToSet(stream) \intersect heard) \ {Marker}

\* What a socket was not sent yet is in its snapshot or on the channel; once
\* something closes it, there is nothing left on the channel to wait for.
Delivery ==
  \A c \in Clients :
    LET sent == ToSet(received[c])
        kept == ToSet(snapshot[c])
        next == ToSet(channel)
    IN  /\ socketAt[c] = "replay" => Known \subseteq sent \union kept \union next
        /\ socketAt[c] = "live" => Known \subseteq sent \union next
        /\ socketAt[c] = "replay" /\ (closing[c] \/ ClosesAfterReplay(c))
             => Known \subseteq sent \union kept
        /\ socketAt[c] = "live" /\ closing[c] => Known \subseteq sent
        /\ socketAt[c] = "closed" => Known \subseteq sent

LEMMA InitOrderly == Init => Orderly
<1> SUFFICES ASSUME Init  PROVE Orderly
  OBVIOUS
<1>1. Len(channel) = 0 /\ ToSet(channel) = {} /\ ToSet(stream) = {}
  BY ToSetEmpty, EmptySeq DEF Init
<1>2. \A i \in 1..(Len(channel) - 1) : channel[i] # Marker
  BY <1>1
<1> QED  BY <1>1, <1>2 DEF Init, Orderly

\* Appending to a channel without the marker leaves it last, if it is there.
LEMMA PublishFacts ==
  ASSUME NEW m \in Messages, channel \in Seq(Messages), Publish(m)
  PROVE  /\ channel' \in Seq(Messages)
         /\ ToSet(channel') = ToSet(channel) \union {m}
         /\ Marker \notin ToSet(channel) => \A i \in 1..(Len(channel') - 1) : channel'[i] # Marker
<1>1. channel' = Append(channel, m)
  BY DEF Publish
<1>2. Len(channel') = Len(channel) + 1 /\ \A i \in 1..Len(channel) : channel'[i] = channel[i]
  BY <1>1, AppendProperties
<1>3. Len(channel) \in Nat /\ DOMAIN channel = 1..Len(channel)
  BY LenProperties
<1>4. Len(channel') - 1 = Len(channel)
  BY <1>2, <1>3
<1> QED  BY <1>1, <1>2, <1>3, <1>4, ToSetAppend DEF ToSet

LEMMA StepOrderly ==
  ASSUME StreamTypeOK, Orderly, [Next]_vars
  PROVE  Orderly'
<1> USE DEF redisVars, producerVars
<1>1. CASE AddChunk
  <2>1. written + 1 \in Messages /\ written + 1 # Marker
    BY <1>1, StreamAssumption DEF AddChunk, StreamTypeOK, Messages, Marker
  <2>2. Marker \in ToSet(stream') => Marker \in ToSet(stream)
    BY <1>1, <2>1, XAddFacts DEF AddChunk, StreamTypeOK
  <2>3. heard' \subseteq {Marker} \union 1..written'
    BY <1>1 DEF AddChunk, Orderly, StreamTypeOK
  <2> QED  BY <1>1, <2>1, <2>2, <2>3 DEF AddChunk, Orderly
<1>2. CASE PublishChunk
  <2>1. written \in Messages /\ written # Marker /\ written \in 1..written
    BY <1>2, StreamAssumption DEF PublishChunk, Orderly, StreamTypeOK, Messages, Marker
  <2>2. producerAt' = "add" /\ ~decided' /\ UNCHANGED <<stream, written>>
    BY <1>2 DEF PublishChunk, Orderly
  <2>3. Marker \notin ToSet(channel) /\ Marker \notin ToSet(stream)
    BY <1>2 DEF PublishChunk, Orderly
  <2>4. CASE Publish(written)
    <3>1. Marker \notin ToSet(channel') /\ \A i \in 1..(Len(channel') - 1) : channel'[i] # Marker
      BY <2>1, <2>3, <2>4, PublishFacts DEF StreamTypeOK
    <3>2. heard' \subseteq {Marker} \union 1..written'
      BY <2>1, <2>2, <2>4 DEF Publish, Orderly
    <3> QED  BY <2>2, <2>3, <3>1, <3>2 DEF Orderly
  <2>5. CASE UNCHANGED <<channel, heard>>
    BY <2>2, <2>3, <2>5 DEF Orderly
  <2> QED  BY <1>2, <2>4, <2>5 DEF PublishChunk
<1>3. CASE Commit
  BY <1>3 DEF Commit, Orderly
<1>4. CASE AddMarker
  BY <1>4 DEF AddMarker, Orderly
<1>5. CASE PublishMarker
  <2>1. Marker \notin ToSet(channel)
    BY <1>5 DEF PublishMarker, Orderly
  <2>2. CASE UNCHANGED <<channel, heard>>
    BY <1>5, <2>2 DEF PublishMarker, Orderly
  <2>3. CASE Publish(Marker)
    <3>1. \A i \in 1..(Len(channel') - 1) : channel'[i] # Marker
      BY <2>1, <2>3, MessageTypes, PublishFacts DEF StreamTypeOK
    <3> QED  BY <1>5, <2>3, <3>1 DEF PublishMarker, Publish, Orderly
  <2> QED  BY <1>5, <2>2, <2>3 DEF PublishMarker
<1>6. CASE StreamExpires
  BY <1>6, ToSetEmpty DEF StreamExpires, Orderly
<1>7. CASE Relay
  <2>1. channel \in Seq(Messages) /\ channel # <<>> /\ channel' = Tail(channel)
    BY <1>7 DEF Relay, StreamTypeOK
  <2>2. ToSet(channel') \subseteq ToSet(channel)
    BY <2>1, ToSetTail
  <2>3. \A i \in 1..(Len(channel') - 1) : channel'[i] # Marker
    <3>1. /\ Len(channel) \in Nat /\ Len(channel') = Len(channel) - 1
          /\ \A i \in 1..Len(channel') : channel'[i] = channel[i + 1]
      BY <2>1, HeadTailProperties, LenProperties
    <3>2. \A i \in 1..(Len(channel') - 1) : i + 1 \in 1..(Len(channel) - 1) /\ i \in 1..Len(channel')
      BY <3>1
    <3> QED  BY <3>1, <3>2 DEF Orderly
  <2> QED  BY <1>7, <2>2, <2>3 DEF Relay, Orderly
<1>8. CASE UNCHANGED <<redisVars, producerVars>>
  BY <1>8 DEF Orderly
<1>9. ASSUME NEW c \in Clients, Connect(c) \/ Serve(c) \/ ReplayFails(c) \/ ClientLeaves(c)
      PROVE  UNCHANGED <<redisVars, producerVars>>
  BY <1>9 DEF Connect, Serve, ReadStatus, ReadStream, Replay, Close, ReplayFails, ClientLeaves
<1>10. CASE UNCHANGED vars
  BY <1>10, <1>8 DEF vars
<1> QED
  BY <1>1, <1>2, <1>3, <1>4, <1>5, <1>6, <1>7, <1>8, <1>9, <1>10 DEF Next, Produce

LEMMA InitClosesAfter == Init => ClosesAfterDecision
BY ToSetEmpty DEF Init, ClosesAfterDecision

LEMMA StepClosesAfter ==
  ASSUME StreamTypeOK, Orderly, ClosesAfterDecision, [Next]_vars
  PROVE  ClosesAfterDecision'
<1> USE DEF redisVars, producerVars, socketVars
<1>1. decided => decided'
  BY DEF Next, vars, Produce, Serve, AddChunk, PublishChunk, Commit, AddMarker, PublishMarker,
         StreamExpires, Relay, Connect, ReadStatus, ReadStream, Replay, Close, ReplayFails,
         ClientLeaves
<1>2. CASE UNCHANGED socketVars
  BY <1>1, <1>2 DEF ClosesAfterDecision
<1>3. CASE Relay
  <2>1. Head(channel) = Marker => decided
    BY <1>3, ToSetTail DEF Relay, Orderly, StreamTypeOK
  <2>2. \A c \in Clients : closing'[c] => closing[c] \/ Head(channel) = Marker
    BY <1>3 DEF Relay
  <2> QED  BY <1>3, <2>1, <2>2 DEF Relay, ClosesAfterDecision
<1>4. ASSUME NEW c \in Clients, Connect(c) \/ ReplayFails(c) \/ ClientLeaves(c) \/ Serve(c)
      PROVE  ClosesAfterDecision'
  <2> SUFFICES ASSUME NEW d \in Clients,
                      \/ sawTerminal'[d] \/ closing'[d] \/ Marker \in ToSet(snapshot'[d])
                      \/ socketAt'[d] \in {"closed", "cut"}
               PROVE  decided
    BY <1>1 DEF ClosesAfterDecision
  <2>1. /\ socketAt \in [Clients -> Stages] /\ sawTerminal \in [Clients -> BOOLEAN]
        /\ snapshot \in [Clients -> Seq(Messages)] /\ closing \in [Clients -> BOOLEAN]
    BY DEF StreamTypeOK
  <2>2. /\ Marker \in ToSet(stream) => decided
        /\ \/ sawTerminal[d] \/ closing[d] \/ Marker \in ToSet(snapshot[d])
           \/ socketAt[d] \in {"closed", "cut"}
           => decided
    BY DEF Orderly, ClosesAfterDecision
  <2>3. CASE Connect(c) \/ ReplayFails(c)
    BY <2>1, <2>2, <2>3, ToSetEmpty DEF Connect, ReplayFails, ForgetAll, Forget, Stage
  <2>4. CASE ReadStatus(c)
    BY <2>1, <2>2, <2>4 DEF ReadStatus, Stage
  <2>5. CASE ReadStream(c)
    BY <2>1, <2>2, <2>5 DEF ReadStream, Stage
  <2>6. CASE Replay(c)
    BY <2>1, <2>2, <2>6, ToSetEmpty, <1>1 DEF Replay, Stage, Forget, ClosesAfterReplay,
       ClosesAfterDecision
  <2>7. CASE Close(c)
    BY <2>1, <2>2, <2>7, ToSetEmpty DEF Close, Stage, Forget, ClosesAfterDecision
  <2>8. CASE ClientLeaves(c)
    BY <2>1, <2>2, <2>8, ToSetEmpty DEF ClientLeaves, Stage, ForgetAll, Forget
  <2> QED  BY <1>4, <2>3, <2>4, <2>5, <2>6, <2>7, <2>8 DEF Serve
<1>5. Produce \/ StreamExpires => UNCHANGED socketVars
  BY DEF Produce, AddChunk, PublishChunk, Commit, AddMarker, PublishMarker, StreamExpires
<1> QED  BY <1>2, <1>3, <1>4, <1>5 DEF Next, vars

\* ClosedMeansDecided: a socket that the gateway closed, in good time or before
\* its replay, belongs to a job whose result can be read.
THEOREM ClosedMeansDecidedSafe == Spec => []ClosedMeansDecided
<1>1. Init => StreamTypeOK /\ Orderly /\ ClosesAfterDecision
  BY InitTyped, InitOrderly, InitClosesAfter
<1>2. StreamTypeOK /\ Orderly /\ ClosesAfterDecision /\ [Next]_vars
        => StreamTypeOK' /\ Orderly' /\ ClosesAfterDecision'
  BY StepTyped, StepOrderly, StepClosesAfter
<1>3. ClosesAfterDecision => ClosedMeansDecided
  BY DEF ClosesAfterDecision, ClosedMeansDecided
<1> QED  BY <1>1, <1>2, <1>3, PTL DEF Spec

(***************************************************************************)
(* Delivery.                                                               *)
(***************************************************************************)
LEMMA InitDelivery == Init => Delivery
BY DEF Init, Delivery

\* Nothing is owed to a socket by a step that adds no known chunk, takes
\* nothing off the channel and leaves the sockets alone.
LEMMA NothingOwed ==
  ASSUME Delivery, Known' \subseteq Known, ToSet(channel) \subseteq ToSet(channel'),
         UNCHANGED socketVars
  PROVE  Delivery'
BY DEF Delivery, socketVars, ClosesAfterReplay

\* Only a PUBLISH makes a chunk known.
LEMMA NotKnownYet ==
  ASSUME StreamTypeOK, Orderly, AddChunk \/ Commit \/ AddMarker \/ PublishMarker \/ StreamExpires
  PROVE  /\ Known' \subseteq Known
         /\ ToSet(channel) \subseteq ToSet(channel')
         /\ UNCHANGED socketVars
<1>1. CASE AddChunk
  <2>1. written + 1 \in Messages /\ written + 1 \notin 1..written /\ written + 1 # Marker
    BY <1>1, StreamAssumption DEF AddChunk, StreamTypeOK, Messages, Marker
  <2>2. ToSet(stream') \subseteq ToSet(stream) \union {written + 1}
    BY <1>1, <2>1, XAddFacts DEF AddChunk, StreamTypeOK
  <2>3. written + 1 \notin heard
    BY <2>1 DEF Orderly
  <2> QED  BY <1>1, <2>2, <2>3 DEF AddChunk, Known
<1>2. CASE Commit
  BY <1>2 DEF Commit, Known, redisVars
<1>3. CASE AddMarker
  <2>1. ToSet(stream') \subseteq ToSet(stream) \union {Marker}
    BY <1>3, MessageTypes, XAddFacts DEF AddMarker, StreamTypeOK
  <2> QED  BY <1>3, <2>1 DEF AddMarker, Known
<1>4. CASE PublishMarker
  <2>1. CASE UNCHANGED <<channel, heard>>
    BY <1>4, <2>1 DEF PublishMarker, Known
  <2>2. CASE Publish(Marker)
    <3>1. ToSet(channel') = ToSet(channel) \union {Marker}
      BY <2>2, MessageTypes, PublishFacts DEF StreamTypeOK
    <3> QED  BY <1>4, <2>2, <3>1 DEF PublishMarker, Publish, Known
  <2> QED  BY <1>4, <2>1, <2>2 DEF PublishMarker
<1>5. CASE StreamExpires
  BY <1>5, ToSetEmpty DEF StreamExpires, Known, producerVars
<1> QED  BY <1>1, <1>2, <1>3, <1>4, <1>5

\* A chunk becomes known on the channel, before anything closes a socket.
LEMMA PublishDelivers ==
  ASSUME StreamTypeOK, Orderly, ClosesAfterDecision, Delivery, PublishChunk
  PROVE  Delivery'
<1>1. ~decided /\ written \in Messages
  BY StreamAssumption DEF PublishChunk, Orderly, StreamTypeOK, Messages, Marker
<1>2. UNCHANGED <<stream, socketVars>>
  BY DEF PublishChunk
<1>3. CASE UNCHANGED <<channel, heard>>
  BY <1>2, <1>3, NothingOwed DEF Known
<1>4. CASE Publish(written)
  <2>1. ToSet(channel') = ToSet(channel) \union {written}
    BY <1>1, <1>4, PublishFacts DEF StreamTypeOK
  <2>2. Known' \subseteq Known \union {written}
    BY <1>2, <1>4 DEF Publish, Known
  <2>3. \A c \in Clients : ~closing[c] /\ ~ClosesAfterReplay(c) /\ socketAt[c] # "closed"
    BY <1>1 DEF ClosesAfterDecision, ClosesAfterReplay
  <2> QED  BY <1>2, <2>1, <2>2, <2>3 DEF Delivery, ClosesAfterReplay, socketVars
<1> QED  BY <1>3, <1>4 DEF PublishChunk

\* Every socket of the job is sent the head of the channel. Behind the marker
\* there is nothing.
LEMMA RelayDelivers ==
  ASSUME StreamTypeOK, Orderly, Delivery, Relay
  PROVE  Delivery'
<1> SUFFICES ASSUME NEW c \in Clients, NEW n \in Known
             PROVE  LET got == n \in ToSet(received'[c])
                        kept == n \in ToSet(snapshot'[c])
                        next == n \in ToSet(channel')
                    IN  /\ socketAt'[c] = "replay" => got \/ kept \/ next
                        /\ socketAt'[c] = "live" => got \/ next
                        /\ socketAt'[c] = "replay" /\ (closing'[c] \/ ClosesAfterReplay(c)')
                             => got \/ kept
                        /\ socketAt'[c] = "live" /\ closing'[c] => got
                        /\ socketAt'[c] = "closed" => got
  <2>1. Known' = Known
    BY DEF Relay, Known, producerVars
  <2> QED  BY <2>1 DEF Delivery
<1> DEFINE m == Head(channel)
<1>1. /\ m \in Messages /\ m \in ToSet(channel)
      /\ ToSet(channel) \subseteq {m} \union ToSet(channel')
  BY ToSetTail DEF Relay, StreamTypeOK
<1>2. m = Marker => ToSet(channel') = {}
  <2>1. /\ Len(channel) \in Nat /\ Len(channel) # 0 /\ m = channel[1]
        /\ channel' \in Seq(Messages) /\ Len(channel') = Len(channel) - 1
    BY HeadTailProperties, LenProperties, EmptySeq DEF Relay, StreamTypeOK
  <2>2. m = Marker => Len(channel) = 1
    BY <2>1 DEF Orderly
  <2>3. Len(channel') = 0 => channel' = <<>>
    BY <2>1, EmptySeq
  <2> QED  BY <2>1, <2>2, <2>3, ToSetEmpty
<1>3. received[c] \in Seq(Messages)
  BY DEF StreamTypeOK
<1>4. ToSet(received'[c]) = IF Relayed(c) THEN ToSet(received[c]) \union {m} ELSE ToSet(received[c])
  <2>1. ToSet(Append(received[c], m)) = ToSet(received[c]) \union {m}
    BY <1>1, <1>3, ToSetAppend
  <2>2. received'[c] = IF Relayed(c) THEN Append(received[c], m) ELSE received[c]
    BY DEF Relay
  <2> QED  BY <2>1, <2>2
<1>5. closing'[c] <=> closing[c] \/ (Relayed(c) /\ m = Marker)
  BY DEF Relay
<1>6. UNCHANGED <<socketAt, sawTerminal, snapshot>>
  BY DEF Relay
<1>7. socketAt[c] \in {"replay", "live"} => Relayed(c)
  BY DEF Relayed, Connected
<1>8. ClosesAfterReplay(c)' <=> ClosesAfterReplay(c)
  BY <1>6 DEF ClosesAfterReplay
<1>9. n # Marker
  BY DEF Known
<1> HIDE DEF m
<1>10. /\ socketAt[c] = "replay" => n \in ToSet(received[c]) \union ToSet(snapshot[c]) \union ToSet(channel)
       /\ socketAt[c] = "live" => n \in ToSet(received[c]) \union ToSet(channel)
       /\ socketAt[c] = "replay" /\ (closing[c] \/ ClosesAfterReplay(c))
            => n \in ToSet(received[c]) \union ToSet(snapshot[c])
       /\ socketAt[c] = "live" /\ closing[c] => n \in ToSet(received[c])
       /\ socketAt[c] = "closed" => n \in ToSet(received[c])
  BY DEF Delivery
<1> QED  BY <1>1, <1>2, <1>4, <1>5, <1>6, <1>7, <1>8, <1>9, <1>10

\* A step of one socket: what it was owed it still is, or it was sent.
LEMMA SocketDelivers ==
  ASSUME StreamTypeOK, Delivery,
         NEW c \in Clients, Connect(c) \/ ReplayFails(c) \/ ClientLeaves(c) \/ Serve(c)
  PROVE  Delivery'
<1>1. Known' = Known /\ channel' = channel
  BY DEF Connect, ReplayFails, ClientLeaves, Serve, ReadStatus, ReadStream, Replay, Close,
         Known, redisVars, producerVars
<1>2. /\ socketAt \in [Clients -> Stages] /\ sawTerminal \in [Clients -> BOOLEAN]
      /\ snapshot \in [Clients -> Seq(Messages)] /\ closing \in [Clients -> BOOLEAN]
      /\ received \in [Clients -> Seq(Messages)]
  BY DEF StreamTypeOK
<1> USE DEF Delivery, Stage, ClosesAfterReplay
<1>3. CASE Connect(c)
  BY <1>1, <1>2, <1>3 DEF Connect
<1>4. CASE ReplayFails(c)
  BY <1>1, <1>2, <1>4 DEF ReplayFails, ForgetAll, Forget
<1>5. CASE ClientLeaves(c)
  BY <1>1, <1>2, <1>5 DEF ClientLeaves, ForgetAll, Forget
<1>6. CASE ReadStatus(c)
  BY <1>1, <1>2, <1>6 DEF ReadStatus
<1>7. CASE ReadStream(c)
  <2>1. Known \subseteq ToSet(snapshot'[c])
    BY <1>2, <1>7 DEF ReadStream, Known
  <2> QED  BY <1>1, <1>2, <1>7, <2>1 DEF ReadStream
<1>8. CASE Replay(c)
  <2>1. ToSet(received'[c]) = ToSet(received[c]) \union ToSet(snapshot[c])
    <3>1. received[c] \in Seq(Messages) /\ snapshot[c] \in Seq(Messages)
      BY <1>2
    <3>2. received'[c] = received[c] \o snapshot[c]
      BY <1>2, <1>8 DEF Replay
    <3> QED  BY <3>1, <3>2, ToSetConcat
  <2>2. /\ socketAt[c] = "replay" /\ socketAt'[c] = "live"
        /\ closing'[c] => closing[c] \/ ClosesAfterReplay(c)
    BY <1>2, <1>8 DEF Replay
  <2>3. \A d \in Clients \ {c} :
          /\ socketAt'[d] = socketAt[d] /\ closing'[d] = closing[d]
          /\ received'[d] = received[d] /\ snapshot'[d] = snapshot[d]
          /\ sawTerminal'[d] = sawTerminal[d]
    BY <1>2, <1>8 DEF Replay, Forget
  <2> QED  BY <1>1, <2>1, <2>2, <2>3
<1>9. CASE Close(c)
  BY <1>1, <1>2, <1>9 DEF Close, Forget
<1> QED  BY <1>3, <1>4, <1>5, <1>6, <1>7, <1>8, <1>9 DEF Serve

LEMMA StepDelivery ==
  ASSUME StreamTypeOK, Orderly, ClosesAfterDecision, Delivery, [Next]_vars
  PROVE  Delivery'
<1>1. CASE UNCHANGED vars
  <2>1. Known' = Known /\ channel' = channel /\ UNCHANGED socketVars
    BY <1>1 DEF vars, redisVars, producerVars, Known
  <2> QED  BY <2>1, NothingOwed
<1>2. CASE AddChunk \/ Commit \/ AddMarker \/ PublishMarker \/ StreamExpires
  BY <1>2, NotKnownYet, NothingOwed
<1>3. CASE PublishChunk
  BY <1>3, PublishDelivers
<1>4. CASE Relay
  BY <1>4, RelayDelivers
<1>5. ASSUME NEW c \in Clients, Connect(c) \/ ReplayFails(c) \/ ClientLeaves(c) \/ Serve(c)
      PROVE  Delivery'
  BY <1>5, SocketDelivers
<1> QED  BY <1>1, <1>2, <1>3, <1>4, <1>5 DEF Next, Produce

\* NothingSkipped: a client whose socket is closed after its replay was sent
\* every chunk of the stream that was ever published.
THEOREM NothingSkippedSafe == Spec => []NothingSkipped
<1>1. Init => StreamTypeOK /\ Orderly /\ ClosesAfterDecision /\ Delivery
  BY InitTyped, InitOrderly, InitClosesAfter, InitDelivery
<1>2. StreamTypeOK /\ Orderly /\ ClosesAfterDecision /\ Delivery /\ [Next]_vars
        => StreamTypeOK' /\ Orderly' /\ ClosesAfterDecision' /\ Delivery'
  BY StepTyped, StepOrderly, StepClosesAfter, StepDelivery
<1>3. Delivery => NothingSkipped
  BY DEF Delivery, NothingSkipped, Known
<1> QED  BY <1>1, <1>2, <1>3, PTL DEF Spec

(***************************************************************************)
(* Order. A message is added to the stream and published once, behind all  *)
(* before it. So what a client is sent in the replay is in order, and what *)
(* it is sent live is; the two may overlap, and overtake each other.       *)
(***************************************************************************)
\* What the producer adds next comes after the stream, and what it publishes next
\* after all that was heard.
SentInTurn ==
  /\ ToSet(stream) \subseteq {Marker} \union 1..written
  /\ Marker \in ToSet(stream) => producerAt \in {"publish_marker", "done"}
  /\ producerAt = "publish" => written \notin heard
  /\ Marker \in heard => producerAt = "done"
  /\ ToSet(channel) \subseteq heard
  /\ Ascends(stream, DOMAIN stream) /\ Ascends(channel, DOMAIN channel)

\* Messages that were published, and come before all that is on the channel.
Past == {m \in heard : \A n \in ToSet(channel) : Before(m, n)}

\* The places the replay filled, and the others, which were filled live by
\* messages that are on the channel no more.
Told(c, replayed) ==
  /\ Ascends(received[c], replayed)
  /\ Ascends(received[c], DOMAIN received[c] \ replayed)
  /\ \A i \in DOMAIN received[c] \ replayed : received[c][i] \in Past
  /\ socketAt[c] \in {"away", "read_status", "read_stream", "replay"} => replayed = {}

ToldByBlocks ==
  \A c \in Clients :
    /\ Ascends(snapshot[c], DOMAIN snapshot[c])
    /\ \E replayed \in Blocks(received[c]) : Told(c, replayed)

\* AtMostTwice: no message comes a third time.
AtMostTwice ==
  \A c \in Clients, m \in Messages :
    Cardinality({i \in DOMAIN received[c] : received[c][i] = m}) <= 2

LEMMA NothingAscends == Ascends(<<>>, DOMAIN <<>>) /\ DOMAIN <<>> = {}
BY DEF Ascends

\* The empty block is a block, a block is made of places, and stays one when more
\* is received.
LEMMA BlockFacts ==
  ASSUME NEW S, NEW s \in Seq(S)
  PROVE  /\ {} \in Blocks(s)
         /\ \A block \in Blocks(s) : block \subseteq DOMAIN s
         /\ \A m \in S : Blocks(s) \subseteq Blocks(Append(s, m))
<1>1. Len(s) \in Nat /\ DOMAIN s = 1..Len(s)
  BY LenProperties
<1>2. {} \in Blocks(s)
  <2>1. 1 \in 1..(Len(s) + 1) /\ 0 \in 0..Len(s) /\ 1..0 = {}
    BY <1>1
  <2> QED  BY <2>1 DEF Blocks
<1>3. ASSUME NEW from \in 1..(Len(s) + 1), NEW to \in 0..Len(s)  PROVE from..to \subseteq DOMAIN s
  BY <1>1
<1>4. ASSUME NEW m \in S  PROVE Blocks(s) \subseteq Blocks(Append(s, m))
  <2>1. Len(Append(s, m)) = Len(s) + 1
    BY AppendProperties
  <2>2. 1..(Len(s) + 1) \subseteq 1..(Len(s) + 1 + 1) /\ 0..Len(s) \subseteq 0..(Len(s) + 1)
    BY <1>1
  <2> QED  BY <2>1, <2>2 DEF Blocks
<1> QED  BY <1>2, <1>3, <1>4 DEF Blocks

LEMMA AscendsAppend ==
  ASSUME NEW S, NEW s \in Seq(S), NEW m \in S, Ascends(s, DOMAIN s),
         \A x \in ToSet(s) : Before(x, m)
  PROVE  Ascends(Append(s, m), DOMAIN Append(s, m))
<1>1. /\ Append(s, m) \in Seq(S) /\ Len(Append(s, m)) = Len(s) + 1
      /\ \A i \in 1..Len(s) : Append(s, m)[i] = s[i]
      /\ Append(s, m)[Len(s) + 1] = m
  BY AppendProperties
<1>2. Len(s) \in Nat /\ DOMAIN s = 1..Len(s) /\ DOMAIN Append(s, m) = 1..(Len(s) + 1)
  BY <1>1, LenProperties
<1>3. \A i \in 1..Len(s) : Before(s[i], m)
  BY <1>2 DEF ToSet
<1> DEFINE t == Append(s, m)
<1> HIDE DEF t
<1>4. ASSUME NEW i \in DOMAIN t, NEW k \in DOMAIN t, i < k  PROVE Before(t[i], t[k])
  <2>1. i \in 1..Len(s) /\ t[i] = s[i]
    BY <1>1, <1>2, <1>4 DEF t
  <2>2. CASE k = Len(s) + 1
    BY <1>1, <1>3, <2>1, <2>2 DEF t
  <2>3. CASE k # Len(s) + 1
    <3>1. k \in 1..Len(s) /\ t[k] = s[k]
      BY <1>1, <1>2, <1>4, <2>3 DEF t
    <3> QED  BY <1>2, <1>4, <2>1, <3>1 DEF Ascends
  <2> QED  BY <2>2, <2>3
<1> QED  BY <1>4 DEF Ascends, t

LEMMA AscendsTail ==
  ASSUME NEW S, NEW s \in Seq(S), s # <<>>, Ascends(s, DOMAIN s)
  PROVE  Ascends(Tail(s), DOMAIN Tail(s)) /\ \A m \in ToSet(Tail(s)) : Before(Head(s), m)
<1>1. /\ Tail(s) \in Seq(S) /\ Len(Tail(s)) = Len(s) - 1
      /\ \A i \in 1..Len(Tail(s)) : Tail(s)[i] = s[i + 1]
      /\ Head(s) = s[1] /\ Len(s) \in Nat /\ Len(s) >= 1
  BY HeadTailProperties, EmptySeq, LenProperties
<1>2. DOMAIN s = 1..Len(s) /\ DOMAIN Tail(s) = 1..(Len(s) - 1)
  BY <1>1, LenProperties
<1>3. \A i \in 1..(Len(s) - 1) : i \in Nat /\ 1 < i + 1 /\ i + 1 \in 1..Len(s) /\ Tail(s)[i] = s[i + 1]
  BY <1>1
<1>4. 1 \in 1..Len(s)
  BY <1>1
<1>5. \A i \in 1..(Len(s) - 1) : Before(s[1], Tail(s)[i])
  BY <1>2, <1>3, <1>4 DEF Ascends
<1>6. \A i, k \in 1..(Len(s) - 1) : i < k => i + 1 < k + 1
  BY <1>3
<1>7. \A i, k \in 1..(Len(s) - 1) : i < k => Before(Tail(s)[i], Tail(s)[k])
  BY <1>2, <1>3, <1>6 DEF Ascends
<1> QED  BY <1>1, <1>2, <1>5, <1>7 DEF Ascends, ToSet

\* The trimmed stream is in order too.
LEMMA XAddAscends ==
  ASSUME NEW m \in Messages, \A x \in ToSet(stream) : Before(x, m),
         stream \in Seq(Messages), Ascends(stream, DOMAIN stream), XAdd(m)
  PROVE  Ascends(stream', DOMAIN stream')
<1> DEFINE all == Append(stream, m)
<1>1. all \in Seq(Messages) /\ Ascends(all, DOMAIN all)
  BY ToSetAppend, AscendsAppend
<1>2. CASE stream' = all
  BY <1>1, <1>2
<1>3. CASE /\ Len(all) > Retention
           /\ stream' = SubSeq(all, Len(all) - Retention + 1, Len(all))
  <2> DEFINE from == Len(all) - Retention + 1
  <2>1. Len(all) \in Nat /\ Retention \in Nat /\ Retention > 0 /\ DOMAIN all = 1..Len(all)
    BY <1>1, StreamAssumption, LenProperties
  <2>2. from \in 1..Len(all) /\ stream' = SubSeq(all, from, Len(all))
    BY <1>3, <2>1
  <2> HIDE DEF all
  <2>3. SubSeq(all, from, Len(all)) \in Seq(Messages)
    BY <1>1, <2>1, <2>2, SubSeqProperties, ElementOfSeq
  <2>4. /\ Len(SubSeq(all, from, Len(all))) = Len(all) - from + 1
        /\ \A i \in 1..(Len(all) - from + 1) : SubSeq(all, from, Len(all))[i] = all[from + i - 1]
    BY <1>1, <2>1, <2>2, SubSeqProperties
  <2>5. DOMAIN SubSeq(all, from, Len(all)) = 1..(Len(all) - from + 1)
    BY <2>3, <2>4, LenProperties
  <2>6. \A i \in 1..(Len(all) - from + 1) : from + i - 1 \in DOMAIN all
    BY <2>1, <2>2
  <2>7. \A i, k \in 1..(Len(all) - from + 1) : i < k => from + i - 1 < from + k - 1
    BY <2>1, <2>2
  <2> HIDE DEF from
  <2>8. \A i, k \in 1..(Len(all) - from + 1) :
          from + i - 1 < from + k - 1 => Before(all[from + i - 1], all[from + k - 1])
    BY <1>1, <2>6 DEF Ascends
  <2>9. Ascends(SubSeq(all, from, Len(all)), DOMAIN SubSeq(all, from, Len(all)))
    <3> DEFINE t == SubSeq(all, from, Len(all))
    <3>1. DOMAIN t = 1..(Len(all) - from + 1)
      BY <2>5
    <3>2. \A i \in 1..(Len(all) - from + 1) : t[i] = all[from + i - 1]
      BY <2>4
    <3> HIDE DEF t
    <3>3. Ascends(t, DOMAIN t)
      BY <2>7, <2>8, <3>1, <3>2 DEF Ascends
    <3> QED  BY <3>3 DEF t
  <2> QED  BY <2>2, <2>9
<1> QED  BY <1>2, <1>3 DEF XAdd

\* What is in order holds a message at most once.
LEMMA AscendsOnce ==
  ASSUME NEW s \in Seq(Messages), NEW I \in SUBSET DOMAIN s, Ascends(s, I)
  PROVE  \A i, k \in I : s[i] = s[k] => i = k
<1> SUFFICES ASSUME NEW i \in I, NEW k \in I, s[i] = s[k], i # k  PROVE FALSE
  OBVIOUS
<1>1. i < k \/ k < i
  BY LenProperties
<1>2. Before(s[i], s[k]) \/ Before(s[k], s[i])
  BY <1>1 DEF Ascends
<1>3. s[i] # Marker /\ s[i] < s[i]
  BY <1>2 DEF Before
<1>4. s[i] \in Nat
  BY ElementOfSeq, LenProperties, StreamAssumption DEF Messages, Marker
<1> QED  BY <1>3, <1>4

\* What one gets to be told is told again at most once.
LEMMA TwiceAtMost ==
  ASSUME NEW s \in Seq(Messages), NEW R \in SUBSET DOMAIN s, NEW m,
         Ascends(s, R), Ascends(s, DOMAIN s \ R)
  PROVE  Cardinality({i \in DOMAIN s : s[i] = m}) <= 2
<1> DEFINE one == {i \in R : s[i] = m}
           other == {i \in DOMAIN s \ R : s[i] = m}
<1>1. {i \in DOMAIN s : s[i] = m} = one \union other
  OBVIOUS
<1>2. ASSUME NEW I, I = one \/ I = other
      PROVE  IsFiniteSet(I) /\ Cardinality(I) \in {0, 1}
  <2>1. I = {} \/ \E i \in I : I = {i}
    <3>1. \A i, k \in R : s[i] = s[k] => i = k
      BY AscendsOnce
    <3>2. \A i, k \in DOMAIN s \ R : s[i] = s[k] => i = k
      BY AscendsOnce
    <3> QED  BY <1>2, <3>1, <3>2
  <2>2. CASE I = {}
    BY <2>2, FS_EmptySet
  <2>3. ASSUME NEW i \in I, I = {i}  PROVE IsFiniteSet(I) /\ Cardinality(I) = 1
    <3>1. IsFiniteSet({i}) /\ Cardinality({i}) = 1
      BY FS_Singleton
    <3> QED  BY <2>3, <3>1
  <2> QED  BY <2>1, <2>2, <2>3
<1>3. IsFiniteSet(one) /\ Cardinality(one) \in {0, 1}
  BY <1>2
<1>4. IsFiniteSet(other) /\ Cardinality(other) \in {0, 1}
  BY <1>2
<1>5. one \intersect other = {}
  OBVIOUS
<1> HIDE DEF one, other
<1>6. Cardinality(one \union other) = Cardinality(one) + Cardinality(other) - Cardinality({})
  BY <1>3, <1>4, <1>5, FS_Union
<1>7. Cardinality({}) = 0
  BY FS_EmptySet
<1>8. Cardinality(one \union other) <= 2
  BY <1>3, <1>4, <1>6, <1>7
<1> QED  BY <1>1, <1>8

LEMMA InitInOrder == Init => SentInTurn /\ ToldByBlocks
<1> SUFFICES ASSUME Init  PROVE SentInTurn /\ ToldByBlocks
  OBVIOUS
<1>1. SentInTurn
  BY ToSetEmpty, NothingAscends DEF Init, SentInTurn
<1>2. ASSUME NEW c \in Clients
      PROVE  Ascends(snapshot[c], DOMAIN snapshot[c]) /\ Told(c, {}) /\ {} \in Blocks(received[c])
  <2>1. snapshot[c] = <<>> /\ received[c] = <<>>
    BY <1>2 DEF Init
  <2>2. {} \in Blocks(received[c])
    BY <2>1, BlockFacts, EmptySeq
  <2> QED  BY <2>1, <2>2, NothingAscends DEF Told, Ascends
<1> QED  BY <1>1, <1>2 DEF ToldByBlocks

\* A PUBLISH of what comes after all that was heard leaves the channel in order.
LEMMA PublishInOrder ==
  ASSUME NEW m \in Messages, \A x \in heard : Before(x, m), channel \in Seq(Messages), Publish(m),
         ToSet(channel) \subseteq heard, Ascends(channel, DOMAIN channel)
  PROVE  /\ ToSet(channel') \subseteq heard' /\ Ascends(channel', DOMAIN channel')
         /\ Past \subseteq Past'
<1>1. channel' = Append(channel, m) /\ heard' = heard \union {m}
  BY DEF Publish
<1>2. ToSet(channel') = ToSet(channel) \union {m}
  BY <1>1, ToSetAppend
<1>3. Ascends(channel', DOMAIN channel')
  BY <1>1, AscendsAppend
<1>4. Past \subseteq Past'
  BY <1>1, <1>2 DEF Past
<1> QED  BY <1>1, <1>2, <1>3, <1>4

\* What is about to be published comes after all that was.
LEMMA NextIsLast ==
  ASSUME StreamTypeOK, Orderly, SentInTurn
  PROVE  /\ producerAt = "publish" => \A x \in heard : Before(x, written)
         /\ producerAt = "publish_marker" => \A x \in heard : Before(x, Marker)
<1>1. heard \subseteq {Marker} \union 1..written /\ written \in Nat
  BY StreamAssumption DEF Orderly, StreamTypeOK
<1>2. Marker \in heard => producerAt = "done"
  BY DEF SentInTurn
<1>3. ASSUME producerAt = "publish", NEW x \in heard  PROVE Before(x, written)
  <2>1. written \notin heard
    BY <1>3 DEF SentInTurn
  <2> QED  BY <1>1, <1>2, <1>3, <2>1 DEF Before
<1>4. ASSUME producerAt = "publish_marker", NEW x \in heard  PROVE Before(x, Marker)
  BY <1>1, <1>2, <1>4 DEF Before
<1> QED  BY <1>3, <1>4

\* Steps of the producer, of the subscriber and of the clock.
LEMMA StepSentInTurn ==
  ASSUME StreamTypeOK, Orderly, SentInTurn, [Next]_vars
  PROVE  SentInTurn'
<1> USE DEF redisVars, producerVars
<1>1. CASE AddChunk
  <2>1. written + 1 \in Messages /\ written + 1 \notin {Marker} \union 1..written /\ written' = written + 1
    BY <1>1, StreamAssumption DEF AddChunk, StreamTypeOK, Messages, Marker
  <2>2. written + 1 \notin ToSet(stream) /\ Marker \notin ToSet(stream)
        /\ written' \notin heard
    BY <1>1, <2>1 DEF AddChunk, SentInTurn, Orderly
  <2>6. \A x \in ToSet(stream) : Before(x, written + 1)
    BY <2>1, <2>2 DEF SentInTurn, StreamTypeOK, Before
  <2>3. 1..written \subseteq 1..written' /\ written + 1 \in 1..written'
    BY <2>1 DEF StreamTypeOK
  <2>4. CASE XAdd(written + 1)
    <3>1. ToSet(stream') \subseteq ToSet(stream) \union {written + 1} /\ Ascends(stream', DOMAIN stream')
      BY <2>1, <2>4, <2>6, XAddFacts, XAddAscends DEF StreamTypeOK, SentInTurn
    <3>2. ToSet(stream') \subseteq {Marker} \union 1..written'
      BY <2>3, <3>1 DEF SentInTurn
    <3>3. Marker \notin ToSet(stream')
      BY <2>1, <2>2, <3>1
    <3> QED  BY <1>1, <2>2, <3>1, <3>2, <3>3 DEF AddChunk, SentInTurn
  <2>5. CASE UNCHANGED stream
    <3>1. ToSet(stream') \subseteq {Marker} \union 1..written'
      BY <2>3, <2>5 DEF SentInTurn
    <3> QED  BY <1>1, <2>2, <2>5, <3>1 DEF AddChunk, SentInTurn
  <2> QED  BY <1>1, <2>4, <2>5 DEF AddChunk
<1>2. CASE PublishChunk
  <2>1. written \in Messages \ heard /\ written # Marker
    BY <1>2, StreamAssumption DEF PublishChunk, Orderly, SentInTurn, StreamTypeOK, Messages, Marker
  <2>4. \A x \in heard : Before(x, written)
    BY <1>2, NextIsLast DEF PublishChunk
  <2>2. CASE Publish(written)
    <3>1. ToSet(channel') \subseteq heard' /\ Ascends(channel', DOMAIN channel')
      BY <2>1, <2>2, <2>4, PublishInOrder DEF StreamTypeOK, SentInTurn
    <3>2. Marker \in heard' => Marker \in heard
      BY <2>1, <2>2 DEF Publish
    <3> QED  BY <1>2, <3>1, <3>2 DEF PublishChunk, SentInTurn
  <2>3. CASE UNCHANGED <<channel, heard>>
    BY <1>2, <2>3 DEF PublishChunk, SentInTurn
  <2> QED  BY <1>2, <2>2, <2>3 DEF PublishChunk
<1>3. CASE Commit
  BY <1>3 DEF Commit, SentInTurn
<1>4. CASE AddMarker
  <2>1. \A x \in ToSet(stream) : Before(x, Marker)
    BY <1>4 DEF AddMarker, SentInTurn, Before
  <2>2. ToSet(stream') \subseteq ToSet(stream) \union {Marker} /\ Ascends(stream', DOMAIN stream')
    BY <1>4, <2>1, MessageTypes, XAddFacts, XAddAscends DEF AddMarker, StreamTypeOK, SentInTurn
  <2> QED  BY <1>4, <2>2 DEF AddMarker, SentInTurn
<1>5. CASE PublishMarker
  <2>1. Marker \in Messages \ heard
    BY <1>5, MessageTypes DEF PublishMarker, SentInTurn
  <2>4. \A x \in heard : Before(x, Marker)
    BY <1>5, NextIsLast DEF PublishMarker
  <2>2. CASE Publish(Marker)
    <3>1. ToSet(channel') \subseteq heard' /\ Ascends(channel', DOMAIN channel')
      BY <2>1, <2>2, <2>4, PublishInOrder DEF StreamTypeOK, SentInTurn
    <3> QED  BY <1>5, <3>1 DEF PublishMarker, SentInTurn
  <2>3. CASE UNCHANGED <<channel, heard>>
    BY <1>5, <2>3 DEF PublishMarker, SentInTurn
  <2> QED  BY <1>5, <2>2, <2>3 DEF PublishMarker
<1>6. CASE StreamExpires
  BY <1>6, ToSetEmpty, NothingAscends DEF StreamExpires, SentInTurn
<1>7. CASE Relay
  <2>1. ToSet(channel') \subseteq ToSet(channel) /\ Ascends(channel', DOMAIN channel')
    BY <1>7, ToSetTail, AscendsTail DEF Relay, StreamTypeOK, SentInTurn
  <2> QED  BY <1>7, <2>1 DEF Relay, SentInTurn
<1>8. ASSUME NEW c \in Clients, Connect(c) \/ Serve(c) \/ ReplayFails(c) \/ ClientLeaves(c)
      PROVE  UNCHANGED <<redisVars, producerVars>>
  BY <1>8 DEF Connect, Serve, ReadStatus, ReadStream, Replay, Close, ReplayFails, ClientLeaves
<1>9. CASE UNCHANGED <<redisVars, producerVars>>
  BY <1>9 DEF SentInTurn
<1> QED
  BY <1>1, <1>2, <1>3, <1>4, <1>5, <1>6, <1>7, <1>8, <1>9 DEF Next, Produce, vars

\* Being published, being relayed and being replayed: each adds to what a client
\* was told no message it was told that way before.
LEMMA PublishKeepsBlocks ==
  ASSUME ToldByBlocks, UNCHANGED socketVars, Past \subseteq Past'
  PROVE  ToldByBlocks'
<1> SUFFICES ASSUME NEW c \in Clients
             PROVE  /\ Ascends(snapshot[c], DOMAIN snapshot[c])'
                    /\ (\E replayed \in Blocks(received[c]) : Told(c, replayed))'
  BY DEF ToldByBlocks
<1>1. PICK replayed \in Blocks(received[c]) : Told(c, replayed)
  BY DEF ToldByBlocks
<1>2. Told(c, replayed)'
  BY <1>1 DEF Told, Ascends, socketVars
<1> QED  BY <1>2 DEF ToldByBlocks, Ascends, socketVars

LEMMA RelayKeepsBlocks ==
  ASSUME StreamTypeOK, SentInTurn, ToldByBlocks, Relay
  PROVE  ToldByBlocks'
<1> SUFFICES ASSUME NEW c \in Clients
             PROVE  /\ Ascends(snapshot[c], DOMAIN snapshot[c])'
                    /\ (\E replayed \in Blocks(received[c]) : Told(c, replayed))'
  BY DEF ToldByBlocks
<1> DEFINE m == Head(channel)
<1>1. PICK replayed \in Blocks(received[c]) : Told(c, replayed)
  BY DEF ToldByBlocks
<1>2. /\ m \in Messages /\ m \in Past' /\ Past \subseteq Past'
      /\ \A x \in Past : Before(x, m)
  <2>1. channel \in Seq(Messages) /\ channel # <<>> /\ channel' = Tail(channel) /\ heard' = heard
    BY DEF Relay, StreamTypeOK, producerVars
  <2>2. /\ m \in Messages /\ m \in ToSet(channel)
        /\ ToSet(channel') \subseteq ToSet(channel)
    BY <2>1, ToSetTail
  <2>3. m \in heard /\ \A n \in ToSet(channel') : Before(m, n)
    BY <2>1, <2>2, AscendsTail DEF SentInTurn
  <2> HIDE DEF m
  <2> QED  BY <2>1, <2>2, <2>3 DEF Past
<1>3. UNCHANGED <<heard, socketAt, snapshot>>
  BY DEF Relay, producerVars
<1>4. received[c] \in Seq(Messages)
  BY DEF StreamTypeOK
<1> DEFINE s == received[c]  t == received'[c]
<1>5. t = Append(s, m) \/ t = s
  BY DEF Relay
<1> HIDE DEF m
<1>8. replayed \subseteq DOMAIN s /\ Blocks(s) \subseteq Blocks(Append(s, m))
  BY <1>1, <1>2, <1>4, BlockFacts
<1>6. CASE t = s
  <2>1. Told(c, replayed)'
    BY <1>1, <1>2, <1>3, <1>6 DEF Told, Ascends
  <2> QED  BY <1>3, <1>6, <2>1 DEF ToldByBlocks, Ascends
<1>7. CASE t = Append(s, m)
  <2>1. /\ DOMAIN t = DOMAIN s \union {Len(s) + 1} /\ Len(s) + 1 \notin DOMAIN s
        /\ t[Len(s) + 1] = m
        /\ \A i \in DOMAIN s : t[i] = s[i]
    <3>1. Len(s) \in Nat /\ DOMAIN s = 1..Len(s)
      BY <1>4, LenProperties
    <3>2. t \in Seq(Messages) /\ Len(t) = Len(s) + 1
      BY <1>2, <1>4, <1>7, AppendProperties
    <3>3. DOMAIN t = 1..(Len(s) + 1)
      BY <3>2, LenProperties
    <3>4. t[Len(s) + 1] = m /\ \A i \in 1..Len(s) : t[i] = s[i]
      BY <1>2, <1>4, <1>7, AppendProperties
    <3> QED  BY <3>1, <3>3, <3>4
  <2> HIDE DEF s, t
  <2>2. /\ Ascends(s, replayed) /\ Ascends(s, DOMAIN s \ replayed)
        /\ \A i \in DOMAIN s \ replayed : s[i] \in Past
        /\ socketAt[c] \in {"away", "read_status", "read_stream", "replay"} => replayed = {}
        /\ replayed \subseteq DOMAIN s
    BY <1>1, <1>8 DEF Told, s
  <2>3. /\ Ascends(t, replayed) /\ replayed \subseteq DOMAIN t
        /\ DOMAIN t \ replayed = (DOMAIN s \ replayed) \union {Len(s) + 1}
    BY <2>1, <2>2 DEF Ascends
  <2>4. \A i \in DOMAIN s \ replayed : t[i] = s[i] /\ Before(t[i], m) /\ i < Len(s) + 1
    <3>1. DOMAIN s = 1..Len(s) /\ Len(s) \in Nat
      BY <1>4, LenProperties DEF s
    <3> QED  BY <1>2, <2>1, <2>2, <3>1
  <2>5. Ascends(t, DOMAIN t \ replayed)
    <3> SUFFICES ASSUME NEW i \in DOMAIN t \ replayed, NEW k \in DOMAIN t \ replayed, i < k
                 PROVE  Before(t[i], t[k])
      BY DEF Ascends
    <3>1. i \in DOMAIN s \ replayed
      <4>1. DOMAIN s = 1..Len(s) /\ Len(s) \in Nat
        BY <1>4, LenProperties DEF s
      <4> QED  BY <2>3, <4>1
    <3>2. CASE k = Len(s) + 1
      BY <2>1, <2>4, <3>1, <3>2
    <3>3. CASE k \in DOMAIN s \ replayed
      BY <2>2, <2>4, <3>1, <3>3 DEF Ascends
    <3> QED  BY <2>3, <3>2, <3>3
  <2>6. \A i \in DOMAIN t \ replayed : t[i] \in Past'
    BY <1>2, <2>1, <2>2, <2>3, <2>4
  <2>7. Told(c, replayed)'
    BY <1>3, <2>2, <2>3, <2>5, <2>6 DEF Told, t
  <2>8. replayed \in Blocks(received'[c])
    BY <1>1, <1>7, <1>8 DEF t, s
  <2> QED  BY <1>3, <2>7, <2>8 DEF ToldByBlocks, Ascends
<1> QED  BY <1>5, <1>6, <1>7

LEMMA ReplayIsBlock ==
  ASSUME StreamTypeOK, ToldByBlocks, NEW c \in Clients, Replay(c)
  PROVE  \E replayed \in Blocks(received'[c]) : Told(c, replayed)'
<1> DEFINE s == received[c]  k == snapshot[c]  t == received'[c]
<1>1. PICK none \in Blocks(received[c]) : Told(c, none)
  BY DEF ToldByBlocks
<1>2. s \in Seq(Messages) /\ k \in Seq(Messages) /\ t = s \o k
  BY DEF StreamTypeOK, Replay
<1>3. /\ Ascends(s, DOMAIN s) /\ \A i \in DOMAIN s : s[i] \in Past
  <2>1. none = {}
    BY <1>1 DEF Told, Replay
  <2> QED  BY <1>1, <2>1 DEF Told
<1>4. Ascends(k, DOMAIN k)
  BY DEF ToldByBlocks
<1>5. Past' = Past /\ socketAt'[c] = "live"
  BY DEF Replay, StreamTypeOK, Stage, redisVars, producerVars, Past
<1> HIDE DEF s, k, t
<1>6. /\ Len(s) \in Nat /\ Len(k) \in Nat /\ DOMAIN s = 1..Len(s) /\ DOMAIN k = 1..Len(k)
      /\ DOMAIN t = 1..(Len(s) + Len(k))
      /\ \A i \in 1..(Len(s) + Len(k)) : t[i] = IF i <= Len(s) THEN s[i] ELSE k[i - Len(s)]
  <2>1. /\ t \in Seq(Messages) /\ Len(t) = Len(s) + Len(k)
        /\ \A i \in 1..(Len(s) + Len(k)) : t[i] = IF i <= Len(s) THEN s[i] ELSE k[i - Len(s)]
    BY <1>2, ConcatProperties
  <2> QED  BY <1>2, <2>1, LenProperties
<1>7. PICK replayed \in Blocks(t) : replayed = {i \in DOMAIN t : i > Len(s)}
  <2>1. Len(t) = Len(s) + Len(k)
    BY <1>2, ConcatProperties
  <2>2. {i \in DOMAIN t : i > Len(s)} = (Len(s) + 1)..Len(t)
    BY <1>6, <2>1
  <2>3. Len(s) + 1 \in 1..(Len(t) + 1) /\ Len(t) \in 0..Len(t)
    BY <1>6, <2>1
  <2>4. (Len(s) + 1)..Len(t) \in Blocks(t)
    BY <2>3 DEF Blocks
  <2> QED  BY <2>2, <2>4
<1>8. /\ DOMAIN t \ replayed = DOMAIN s /\ \A i \in DOMAIN s : t[i] = s[i]
  BY <1>6, <1>7
<1>9. /\ \A i \in replayed : i \in Nat /\ i - Len(s) \in DOMAIN k /\ t[i] = k[i - Len(s)]
  BY <1>6, <1>7
<1>10. Ascends(t, replayed)
  <2> SUFFICES ASSUME NEW i \in replayed, NEW j \in replayed, i < j
               PROVE  Before(t[i], t[j])
    BY DEF Ascends
  <2>1. i - Len(s) < j - Len(s)
    BY <1>6, <1>9
  <2>2. Before(k[i - Len(s)], k[j - Len(s)])
    BY <1>4, <1>9, <2>1 DEF Ascends
  <2> QED  BY <1>9, <2>2
<1>11. Ascends(t, DOMAIN t \ replayed)
  BY <1>3, <1>8 DEF Ascends
<1>12. \A i \in DOMAIN t \ replayed : t[i] \in Past'
  BY <1>3, <1>5, <1>8
<1>13. Told(c, replayed)'
  BY <1>5, <1>7, <1>10, <1>11, <1>12 DEF Told, t
<1> QED  BY <1>7, <1>13 DEF t

\* A step of one socket.
LEMMA SocketKeepsBlocks ==
  ASSUME StreamTypeOK, SentInTurn, ToldByBlocks,
         NEW c \in Clients, Connect(c) \/ ReplayFails(c) \/ ClientLeaves(c) \/ Serve(c)
  PROVE  ToldByBlocks'
<1>1. UNCHANGED <<heard, channel>>
  BY DEF Connect, ReplayFails, ClientLeaves, Serve, ReadStatus, ReadStream, Replay, Close,
         redisVars, producerVars
<1>6. Past' = Past
  BY <1>1 DEF Past
<1>2. /\ socketAt \in [Clients -> Stages] /\ snapshot \in [Clients -> Seq(Messages)]
      /\ received \in [Clients -> Seq(Messages)]
  BY DEF StreamTypeOK
<1>3. ASSUME NEW d \in Clients \ {c}
      PROVE  /\ Ascends(snapshot'[d], DOMAIN snapshot'[d])
             /\ \E replayed \in Blocks(received'[d]) : Told(d, replayed)'
  <2>1. /\ socketAt'[d] = socketAt[d] /\ snapshot'[d] = snapshot[d]
        /\ received'[d] = received[d]
    BY <1>2, <1>3 DEF Connect, ReplayFails, ClientLeaves, Serve, ReadStatus, ReadStream, Replay,
           Close, ForgetAll, Forget, Stage
  <2>2. PICK replayed \in Blocks(received[d]) : Told(d, replayed)
    BY DEF ToldByBlocks
  <2>3. Told(d, replayed)'
    BY <1>6, <2>1, <2>2 DEF Told, Ascends
  <2> QED  BY <2>1, <2>2, <2>3 DEF ToldByBlocks, Ascends
<1>4. Ascends(snapshot'[c], DOMAIN snapshot'[c])
  <2>1. snapshot'[c] \in {snapshot[c], stream, <<>>}
    BY <1>2 DEF Connect, ReplayFails, ClientLeaves, Serve, ReadStatus, ReadStream, Replay,
           Close, ForgetAll, Forget
  <2> QED  BY <2>1, NothingAscends DEF ToldByBlocks, SentInTurn
<1>5. \E replayed \in Blocks(received'[c]) : Told(c, replayed)'
  <2>1. CASE Replay(c)
    BY <2>1, ReplayIsBlock
  <2>2. CASE ReplayFails(c) \/ ClientLeaves(c)
    <3>1. received'[c] = <<>>
      BY <1>2, <2>2 DEF ReplayFails, ClientLeaves, ForgetAll
    <3>2. {} \in Blocks(received'[c])
      BY <3>1, BlockFacts, EmptySeq
    <3>3. DOMAIN received'[c] = {}
      BY <3>1, NothingAscends
    <3>4. Told(c, {})'
      BY <3>3 DEF Told, Ascends
    <3> QED  BY <3>2, <3>4
  <2>3. CASE Connect(c) \/ ReadStatus(c) \/ ReadStream(c) \/ Close(c)
    <3>1. PICK replayed \in Blocks(received[c]) : Told(c, replayed)
      BY DEF ToldByBlocks
    <3>2. received'[c] = received[c]
      BY <1>2, <2>3 DEF Connect, ReadStatus, ReadStream, Close
    <3>3. socketAt'[c] \in {"away", "read_status", "read_stream", "replay"} =>
            socketAt[c] \in {"away", "read_status", "read_stream", "replay"}
      BY <1>2, <2>3 DEF Connect, ReadStatus, ReadStream, Close, Stage
    <3>4. Told(c, replayed)'
      BY <1>6, <3>1, <3>2, <3>3 DEF Told, Ascends
    <3> QED  BY <3>1, <3>2, <3>4
  <2> QED  BY <2>1, <2>2, <2>3 DEF Serve
<1> QED  BY <1>3, <1>4, <1>5 DEF ToldByBlocks

LEMMA StepToldByBlocks ==
  ASSUME StreamTypeOK, Orderly, SentInTurn, ToldByBlocks, [Next]_vars
  PROVE  ToldByBlocks'
<1> USE DEF redisVars, producerVars
<1>1. CASE PublishChunk \/ PublishMarker
  <2>1. UNCHANGED socketVars
    BY <1>1 DEF PublishChunk, PublishMarker
  <2>2. CASE UNCHANGED <<channel, heard>>
    <3>1. Past \subseteq Past'
      BY <2>2 DEF Past
    <3> QED  BY <2>1, <3>1, PublishKeepsBlocks
  <2>3. ASSUME NEW m \in Messages, Publish(m), \A x \in heard : Before(x, m)  PROVE ToldByBlocks'
    <3>1. Past \subseteq Past'
      BY <2>3, PublishInOrder DEF StreamTypeOK, SentInTurn
    <3> QED  BY <2>1, <3>1, PublishKeepsBlocks
  <2>4. CASE PublishChunk
    <3>1. written \in Messages /\ \A x \in heard : Before(x, written)
      BY <2>4, NextIsLast, StreamAssumption DEF PublishChunk, StreamTypeOK, Messages, Marker
    <3> QED  BY <2>2, <2>3, <2>4, <3>1 DEF PublishChunk
  <2>5. CASE PublishMarker
    <3>1. Marker \in Messages /\ \A x \in heard : Before(x, Marker)
      BY <2>5, NextIsLast, MessageTypes DEF PublishMarker
    <3> QED  BY <2>2, <2>3, <2>5, <3>1 DEF PublishMarker
  <2> QED  BY <1>1, <2>4, <2>5
<1>2. CASE AddChunk \/ Commit \/ AddMarker \/ StreamExpires \/ UNCHANGED vars
  <2>1. UNCHANGED <<channel, heard>> /\ UNCHANGED socketVars
    BY <1>2 DEF AddChunk, Commit, AddMarker, StreamExpires, vars
  <2>2. Past \subseteq Past'
    BY <2>1 DEF Past
  <2> QED  BY <2>1, <2>2, PublishKeepsBlocks
<1>3. CASE Relay
  BY <1>3, RelayKeepsBlocks
<1>4. ASSUME NEW c \in Clients, Connect(c) \/ ReplayFails(c) \/ ClientLeaves(c) \/ Serve(c)
      PROVE  ToldByBlocks'
  BY <1>4, SocketKeepsBlocks
<1> QED  BY <1>1, <1>2, <1>3, <1>4 DEF Next, Produce

LEMMA InOrderAlways == Spec => [](StreamTypeOK /\ ToldByBlocks)
<1>1. Init => StreamTypeOK /\ Orderly /\ SentInTurn /\ ToldByBlocks
  BY InitTyped, InitOrderly, InitInOrder
<1>2. StreamTypeOK /\ Orderly /\ SentInTurn /\ ToldByBlocks /\ [Next]_vars
        => StreamTypeOK' /\ Orderly' /\ SentInTurn' /\ ToldByBlocks'
  BY StepTyped, StepOrderly, StepSentInTurn, StepToldByBlocks
<1> QED  BY <1>1, <1>2, PTL DEF Spec

\* ToldInOrder: a client is sent the replay in one block, and live messages before
\* and behind it, each of the two in the order of the program and without
\* repetition, whenever it connects and whatever calls fail.
THEOREM ToldInOrderSafe == Spec => []ToldInOrder
<1>1. ToldByBlocks => ToldInOrder
  BY DEF ToldByBlocks, ToldInOrder, Told
<1> QED  BY <1>1, InOrderAlways, PTL

\* AtMostTwice: a client is sent no message a third time, whether it connects
\* before, during or after the program, and whatever calls fail.
THEOREM AtMostTwiceSafe == Spec => []AtMostTwice
<1>1. StreamTypeOK /\ ToldByBlocks => AtMostTwice
  <2> SUFFICES ASSUME StreamTypeOK, ToldByBlocks, NEW c \in Clients, NEW m \in Messages
               PROVE  Cardinality({i \in DOMAIN received[c] : received[c][i] = m}) <= 2
    BY DEF AtMostTwice
  <2>1. PICK replayed \in Blocks(received[c]) : Told(c, replayed)
    BY DEF ToldByBlocks
  <2>2. received[c] \in Seq(Messages)
    BY DEF StreamTypeOK
  <2>3. replayed \in SUBSET DOMAIN received[c]
    BY <2>1, <2>2, BlockFacts
  <2>4. Ascends(received[c], replayed) /\ Ascends(received[c], DOMAIN received[c] \ replayed)
    BY <2>1 DEF Told
  <2> QED  BY <2>2, <2>3, <2>4, TwiceAtMost
<1> QED  BY <1>1, InOrderAlways, PTL
=============================================================================
