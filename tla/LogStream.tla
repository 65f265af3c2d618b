----------------------------- MODULE LogStream -----------------------------
(***************************************************************************)
(* The output of one execution on its way to the clients that watch it: the*)
(* publish chain of the sandbox, the Redis stream and channel of the job,  *)
(* and the sockets of a gateway, which replays the stream and relays the   *)
(* channel. A job that is executed again is the business of Worker.        *)
(***************************************************************************)
EXTENDS SequencesExt

CONSTANTS
  Clients,     \* the sockets that may be opened on /stream/:jobId
  LastChunk,   \* bound on the chunks a program writes
  Retention,   \* STREAM_RETENTION_COUNT
  MaxErrors    \* bound on the calls of this path that fail

ASSUME StreamAssumption ==
  LastChunk \in Nat /\ Retention \in Nat \ {0} /\ MaxErrors \in Nat

\* Chunks are numbered in the order the program wrote them.
Marker   == 0
Messages == {Marker} \union 1..LastChunk

VARIABLES
  stream,       \* jobs:streams:<job>, as XRANGE - + reads it
  channel,      \* what was published and the subscriber has not handled
  producerAt,   \* the call the worker awaits
  written,      \* how many chunks the program has written
  decided,      \* whether the status of the job is terminal
  heard,        \* messages whose PUBLISH reached the subscriber
  errorsLeft,   \* the errors that may still happen
  socketAt,     \* where each socket stands
  sawTerminal,  \* whether the status its connection read was terminal
  snapshot,     \* what its XRANGE returned
  closing,      \* whether the timer that closes it runs
  received      \* what its client was sent

redisVars    == <<stream, channel>>
producerVars == <<producerAt, written, decided, heard>>
socketVars   == <<socketAt, sawTerminal, snapshot, closing, received>>
vars         == <<redisVars, producerVars, errorsLeft, socketVars>>

ProducerSteps == {"add", "publish", "add_marker", "publish_marker", "done"}
Stages == {"away", "read_status", "read_stream", "replay", "live",
           "closed", "cut", "failed", "left"}

StreamTypeOK ==
  /\ stream \in Seq(Messages) /\ channel \in Seq(Messages)
  /\ producerAt \in ProducerSteps /\ written \in 0..LastChunk
  /\ decided \in BOOLEAN /\ heard \subseteq Messages
  /\ errorsLeft \in 0..MaxErrors
  /\ socketAt \in [Clients -> Stages]
  /\ sawTerminal \in [Clients -> BOOLEAN]
  /\ snapshot \in [Clients -> Seq(Messages)]
  /\ closing \in [Clients -> BOOLEAN]
  /\ received \in [Clients -> Seq(Messages)]

Connected(c) == socketAt[c] \in {"read_status", "read_stream", "replay", "live"}

Init ==
  /\ stream = <<>> /\ channel = <<>>
  /\ producerAt = "add" /\ written = 0
  /\ decided = FALSE /\ heard = {}
  /\ errorsLeft = MaxErrors
  /\ socketAt = [c \in Clients |-> "away"]
  /\ sawTerminal = [c \in Clients |-> FALSE]
  /\ snapshot = [c \in Clients |-> <<>>]
  /\ closing = [c \in Clients |-> FALSE]
  /\ received = [c \in Clients |-> <<>>]

NoError == UNCHANGED errorsLeft
Error   == errorsLeft > 0 /\ errorsLeft' = errorsLeft - 1

(***************************************************************************)
(* The worker. publishChunk chains XADD and PUBLISH of each chunk behind   *)
(* those of the chunk before; an error skips the rest of its link.         *)
(***************************************************************************)
\* MAXLEN ~ trims whole nodes, so that more than Retention may stay.
XAdd(message) ==
  LET all == Append(stream, message)
  IN  \/ stream' = all
      \/ /\ Len(all) > Retention
         /\ stream' = SubSeq(all, Len(all) - Retention + 1, Len(all))

Publish(message) == channel' = Append(channel, message) /\ heard' = heard \union {message}

AddChunk ==
  /\ producerAt = "add" /\ written < LastChunk
  /\ written' = written + 1
  /\ \/ NoError /\ XAdd(written + 1) /\ producerAt' = "publish"
     \/ Error /\ (XAdd(written + 1) \/ UNCHANGED stream) /\ UNCHANGED producerAt
  /\ UNCHANGED <<channel, decided, heard, socketVars>>

\* Mutant: a PUBLISH that failed is tried once more.
PublishAgain ==
  /\ producerAt = "publish"
  /\ \/ NoError /\ Publish(written) /\ producerAt' = "add"
     \/ Error /\ (Publish(written) \/ UNCHANGED <<channel, heard>>) /\ UNCHANGED producerAt
  /\ UNCHANGED <<stream, written, decided, socketVars>>

PublishChunk ==
  /\ producerAt = "publish"
  /\ producerAt' = "add"
  /\ \/ NoError /\ Publish(written)
     \/ Error /\ (Publish(written) \/ UNCHANGED <<channel, heard>>)
  /\ UNCHANGED <<stream, written, decided, socketVars>>

\* Mutant: the transaction fails, and the worker goes on.
CommitCarelessly ==
  /\ producerAt = "add"
  /\ producerAt' = "add_marker"
  /\ (NoError /\ decided' = TRUE) \/ (Error /\ UNCHANGED decided)
  /\ UNCHANGED <<redisVars, written, heard, socketVars>>

\* The program ends. The chain is awaited, and then the transaction.
Commit ==
  /\ producerAt = "add"
  /\ producerAt' = "add_marker"
  /\ decided' = TRUE
  /\ NoError
  /\ UNCHANGED <<redisVars, written, heard, socketVars>>

AddMarker ==
  /\ producerAt = "add_marker"
  /\ producerAt' = "publish_marker"
  /\ XAdd(Marker)
  /\ NoError
  /\ UNCHANGED <<channel, written, decided, heard, socketVars>>

\* A PUBLISH is lost on a gateway whose subscriber is not connected.
PublishMarker ==
  /\ producerAt = "publish_marker"
  /\ producerAt' = "done"
  /\ \/ NoError /\ Publish(Marker)
     \/ Error /\ UNCHANGED <<channel, heard>>
  /\ UNCHANGED <<stream, written, decided, socketVars>>

\* EXPIRE, an hour after the marker.
StreamExpires ==
  /\ producerAt = "done" /\ stream # <<>>
  /\ stream' = <<>>
  /\ NoError
  /\ UNCHANGED <<channel, producerVars, socketVars>>

(***************************************************************************)
(* The gateway. A socket joins activeStreams as it connects, before its    *)
(* status and its stream are read.                                         *)
(***************************************************************************)
Stage(c, next) == socketAt' = [socketAt EXCEPT ![c] = next]

\* What was read for the replay is used no more: a socket that is not open is
\* sent nothing.
Forget(c) ==
  /\ sawTerminal' = [sawTerminal EXCEPT ![c] = FALSE]
  /\ snapshot' = [snapshot EXCEPT ![c] = <<>>]

\* A client that is gone: what it saw matters no more.
ForgetAll(c) ==
  /\ Forget(c)
  /\ received' = [received EXCEPT ![c] = <<>>]
  /\ closing' = [closing EXCEPT ![c] = FALSE]

Connect(c) ==
  /\ socketAt[c] = "away"
  /\ Stage(c, "read_status")
  /\ NoError
  /\ UNCHANGED <<redisVars, producerVars, sawTerminal, snapshot, closing, received>>

ReadStatus(c) ==
  /\ socketAt[c] = "read_status"
  /\ Stage(c, "read_stream")
  /\ sawTerminal' = [sawTerminal EXCEPT ![c] = decided]
  /\ NoError
  /\ UNCHANGED <<redisVars, producerVars, snapshot, closing, received>>

\* XRANGE as Redis executes it; the reply is on its way.
ReadStream(c) ==
  /\ socketAt[c] = "read_stream"
  /\ Stage(c, "replay")
  /\ snapshot' = [snapshot EXCEPT ![c] = stream]
  /\ NoError
  /\ UNCHANGED <<redisVars, producerVars, sawTerminal, closing, received>>

\* Mutant: only what was read decides whether the socket is closed.
ClosesOnMarkerOnly(c) == Marker \in ToSet(snapshot[c])

ClosesAfterReplay(c) == sawTerminal[c] \/ Marker \in ToSet(snapshot[c])

Replay(c) ==
  /\ socketAt[c] = "replay"
  /\ Stage(c, "live")
  /\ received' = [received EXCEPT ![c] = @ \o snapshot[c]]
  /\ closing' = [closing EXCEPT ![c] = @ \/ ClosesAfterReplay(c)]
  /\ Forget(c)
  /\ NoError
  /\ UNCHANGED <<redisVars, producerVars>>

\* The catch of the preparation closes the socket with 1011.
ReplayFails(c) ==
  /\ socketAt[c] \in {"read_status", "read_stream"}
  /\ Stage(c, "failed")
  /\ ForgetAll(c)
  /\ Error
  /\ UNCHANGED <<redisVars, producerVars>>

\* Mutant: a socket joins activeStreams once its replay was sent.
RelaysTo(c) == socketAt[c] = "live"

Relayed(c) == Connected(c)

\* pmessage: to every socket of the job, replayed or not.
Relay ==
  /\ channel # <<>>
  /\ channel' = Tail(channel)
  /\ received' = [c \in Clients |->
       IF Relayed(c) THEN Append(received[c], Head(channel)) ELSE received[c]]
  /\ closing' = [c \in Clients |->
       closing[c] \/ (Relayed(c) /\ Head(channel) = Marker)]
  /\ NoError
  /\ UNCHANGED <<stream, producerVars, socketAt, sawTerminal, snapshot>>

\* The timer of 100 ms may be faster than the replay: "cut" is such a socket.
Close(c) ==
  /\ Connected(c) /\ closing[c]
  /\ Stage(c, IF socketAt[c] = "live" THEN "closed" ELSE "cut")
  /\ Forget(c)
  /\ NoError
  /\ UNCHANGED <<redisVars, producerVars, closing, received>>

ClientLeaves(c) ==
  /\ Connected(c)
  /\ Stage(c, "left")
  /\ ForgetAll(c)
  /\ NoError
  /\ UNCHANGED <<redisVars, producerVars>>

Produce == AddChunk \/ PublishChunk \/ Commit \/ AddMarker \/ PublishMarker
Serve(c) == ReadStatus(c) \/ ReadStream(c) \/ Replay(c) \/ Close(c)

Next ==
  \/ Produce \/ StreamExpires \/ Relay
  \/ \E c \in Clients : Connect(c) \/ Serve(c) \/ ReplayFails(c) \/ ClientLeaves(c)

Spec == Init /\ [][Next]_vars

\* Programs end (the timer sees to it), replies arrive, timers fire. Nobody
\* has to connect, and a stream need not expire.
FairSpec ==
  /\ Spec
  /\ WF_vars(Produce) /\ WF_vars(Relay)
  /\ \A c \in Clients : WF_vars(Serve(c))

\* A client whose socket is closed after its replay was sent every chunk that
\* the stream still holds, those it was told of live included (a socket is
\* registered before the stream is read). A chunk whose PUBLISH failed is seen
\* in replays only.
NothingSkipped ==
  \A c \in Clients :
    socketAt[c] = "closed" => (ToSet(stream) \intersect heard) \ {Marker} \subseteq ToSet(received[c])

\* The client reads the submission when its socket closes, and never again: by
\* then it is decided (COMMIT, marker, timer).
ClosedMeansDecided == \A c \in Clients : socketAt[c] \in {"closed", "cut"} => decided

\* The marker comes after every chunk.
Before(m, n) == m # Marker /\ (n = Marker \/ m < n)

\* The messages at these places come in the order the program wrote them, and
\* none comes twice.
Ascends(messages, places) ==
  \A i, k \in places : i < k => Before(messages[i], messages[k])

Blocks(messages) ==
  {from..to : from \in 1..(Len(messages) + 1), to \in 0..Len(messages)}

\* A client is sent the replay in one block, and live messages before and behind
\* it; each of the two is in order and repeats nothing. So a message comes twice
\* at the most, and out of order only where a live one overtook the replay.
ToldInOrder ==
  \A c \in Clients : \E replayed \in Blocks(received[c]) :
    /\ Ascends(received[c], replayed)
    /\ Ascends(received[c], DOMAIN received[c] \ replayed)

MarkerLost == producerAt = "done" /\ Marker \notin heard

\* No socket stays open on a decided job: it sees the marker, live or in the
\* replay, or it read a terminal status. A live marker that is lost may leave
\* open those that came before the decision; the others close all the same.
SocketCloses ==
  \A c \in Clients :
    /\ Connected(c) ~> ~Connected(c) \/ MarkerLost
    /\ socketAt[c] = "read_status" /\ decided ~> ~Connected(c)
=============================================================================
