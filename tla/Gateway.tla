------------------------------ MODULE Gateway ------------------------------
(***************************************************************************)
(* POST /submissions of the API gateway: a row in PostgreSQL, then an entry*)
(* in Redis, with no transaction around the two, and the compensation the  *)
(* handler attempts when Redis fails. One request for each job.            *)
(***************************************************************************)
EXTENDS Store

VARIABLE
  post   \* where the request that submits a job stands

InFlight == {"enqueue", "read_depth", "mark_failed", "record_failure"}

\* "accepted" was answered 201, "rejected" 503; "aborted" got neither: the
\* handler threw (500) or the gateway died under it.
PostStates == {"none", "accepted", "rejected", "aborted"} \union InFlight

GatewayInit   == post = [j \in Jobs |-> "none"]
GatewayTypeOK == post \in [Jobs -> PostStates]

At(j, point)     == post[j] = point
Advance(j, next) == post' = [post EXCEPT ![j] = next]

InsertRow(j) ==
  /\ SetStatus(j, "PENDING")
  /\ createdAt' = [createdAt EXCEPT ![j] = 1 + Cardinality(Jobs \ Rows("ABSENT"))]
  /\ UNCHANGED retryCount

Submit(j) ==
  /\ At(j, "none")
  /\ Call("db_error", InsertRow(j), UNCHANGED rowVars,
          Advance(j, "enqueue"), Advance(j, "aborted"))
  /\ UNCHANGED <<results, redisVars>>

Enqueue(j) ==
  /\ At(j, "enqueue")
  /\ Call("redis_error", EnqueuePending(Entry(j, 0)), UNCHANGED pending,
          Advance(j, "read_depth"), Advance(j, "mark_failed"))
  /\ UNCHANGED <<dbVars, processing, deadLetter, completion, heartbeat, reaperLock>>

\* LLEN feeds a gauge, but it sits in the same try: its failure lands in the
\* handler that reports the submission as never enqueued.
ReadDepth(j) ==
  /\ At(j, "read_depth")
  /\ \/ Undisturbed              /\ Advance(j, "accepted")
     \/ Disrupted("redis_error") /\ Advance(j, "mark_failed")
  /\ UNCHANGED <<dbVars, redisVars>>

MarkFailed(j) ==
  /\ At(j, "mark_failed")
  /\ Call("db_error", SetStatus(j, "FAILED"), UNCHANGED status,
          Advance(j, "record_failure"), Advance(j, "aborted"))
  /\ UNCHANGED <<retryCount, createdAt, results, redisVars>>

\* ON CONFLICT replaces the message and the category and leaves the output of
\* the row that is there.
RecordFailure(j) ==
  LET output == IF results[j] = NoResult THEN "empty" ELSE results[j].output
  IN  /\ At(j, "record_failure")
      /\ Call("db_error", UpsertResult(j, output, "UNKNOWN"), UNCHANGED results,
              Advance(j, "rejected"), Advance(j, "aborted"))
      /\ UNCHANGED <<rowVars, redisVars>>

\* One process serves every request.
GatewayCrash ==
  /\ \E j \in Jobs : post[j] \in InFlight
  /\ Disrupted("gateway_crash")
  /\ post' = [j \in Jobs |-> IF post[j] \in InFlight THEN "aborted" ELSE post[j]]
  /\ UNCHANGED <<dbVars, redisVars>>

Request(j) == Submit(j) \/ Enqueue(j) \/ ReadDepth(j) \/ MarkFailed(j) \/ RecordFailure(j)

GatewayNext == GatewayCrash \/ \E j \in Jobs : Request(j)
=============================================================================
