----------------------------- MODULE Idempotency -----------------------------
(***************************************************************************)
(* Idempotency-Key: the middleware that wraps every JSON and SSE mutation  *)
(* (middleware/idempotency.ts), the transaction that claims a key and the  *)
(* statement that stores the response (db/repos/idempotency.repo.ts).      *)
(*                                                                         *)
(* A key stands for the row's primary key (scope, idempotency_key), a      *)
(* payload for the request hash, and a response for the number of the      *)
(* execution of the handler that produced it: log[e] is the e-th           *)
(* execution.  The clock is in the units of RETENTION_MS.                  *)
(***************************************************************************)
EXTENDS Integers, Sequences

CONSTANTS
    Keys,         \* (scope, key) pairs clients use
    Payloads,     \* request fingerprints
    Requests,     \* requests in flight at a time
    Retention,    \* RETENTION_MS
    MaxDuration,  \* how long a handler may run, bounded by its timeouts
    MaxTime,      \* bound on the clock
    MaxExecs      \* bound on the number of executions

\* Every handler's provider, Qdrant and model calls time out within minutes,
\* so a request never outlives the 24 hours its row is kept.
ASSUME TimeAssumption == /\ Retention \in Nat
                         /\ MaxDuration \in Nat
                         /\ MaxDuration <= Retention
ASSUME BoundAssumption == MaxTime \in Nat /\ MaxExecs \in Nat

VARIABLES
    now,      \* Date.now
    records,  \* idempotency_records
    reqs,     \* the requests: what became of each, and of which execution
    log       \* the executions of handlers, in the order they started

vars == <<now, records, reqs, log>>

NoRecord == [state |-> "none"]
Processing(p, t) == [state |-> "processing", payload |-> p, at |-> t]
Completed(p, t, e) == [state |-> "completed", payload |-> p, at |-> t, reply |-> e]

Record == {NoRecord}
    \cup [state : {"processing"}, payload : Payloads, at : Nat]
    \cup [state : {"completed"}, payload : Payloads, at : Nat, reply : Nat \ {0}]

\* running: begin returned "started" and the handler has not ended; replayed:
\* the client was answered with the stored response of an execution.
Idle == [pc |-> "idle"]
Request == {Idle} \cup [pc : {"running", "replayed"}, exec : Nat,
                        key : Keys, payload : Payloads]

\* stored: the response was stored for replay, at "ended"; unstored: the
\* handler ended but its response was too large or the update failed;
\* unknown: the handler never ended its response.
Exec == [key : Keys, payload : Payloads, start : Nat, ended : Nat,
         status : {"running", "stored", "unstored", "unknown"}]

TypeOK ==
    /\ now \in Nat
    /\ records \in [Keys -> Record]
    /\ reqs \in [Requests -> Request]
    /\ log \in Seq(Exec)

Init ==
    /\ now = 0
    /\ records = [k \in Keys |-> NoRecord]
    /\ reqs = [r \in Requests |-> Idle]
    /\ log = <<>>

-----------------------------------------------------------------------------
Running(r) == reqs[r].pc = "running"

\* DELETE ... WHERE updated_at < now - RETENTION_MS, in every begin.
Expired(rec) == rec # NoRecord /\ rec.at < now - Retention
Purge == [k \in Keys |-> IF Expired(records[k]) THEN NoRecord ELSE records[k]]

\* What begin finds for a request with payload p in the row of its key.
Verdict(rec, p) ==
    CASE rec = NoRecord -> "started"
      [] rec # NoRecord /\ rec.payload # p -> "mismatch"
      [] rec # NoRecord /\ rec.payload = p -> rec.state

Answer(r, k, p, pc, e) ==
    reqs' = [reqs EXCEPT ![r] = [pc |-> pc, exec |-> e, key |-> k, payload |-> p]]

\* The begin transaction claims the key, and the handler starts.
Start(r, k, p) ==
    /\ ~Running(r)
    /\ Len(log) < MaxExecs
    /\ Verdict(Purge[k], p) = "started"
    /\ records' = [Purge EXCEPT ![k] = Processing(p, now)]
    /\ log' = Append(log, [key |-> k, payload |-> p, start |-> now, ended |-> now,
                           status |-> "running"])
    /\ Answer(r, k, p, "running", Len(log) + 1)
    /\ UNCHANGED now

\* 409: the key was used for another payload, or is still processing.
Refuse(r, k, p) ==
    /\ ~Running(r)
    /\ Verdict(Purge[k], p) \in {"mismatch", "processing"}
    /\ records' = Purge
    /\ reqs' = [reqs EXCEPT ![r] = Idle]
    /\ UNCHANGED <<now, log>>

\* The stored response is sent again; the handler does not run.
Replay(r, k, p) ==
    /\ ~Running(r)
    /\ Verdict(Purge[k], p) = "completed"
    /\ records' = Purge
    /\ Answer(r, k, p, "replayed", Purge[k].reply)
    /\ UNCHANGED <<now, log>>

\* UPDATE ... WHERE scope, key, request_hash and state = 'processing'.
Complete(rec, p, e) ==
    IF rec.state = "processing" /\ rec.payload = p THEN Completed(p, now, e) ELSE rec

Finish(r, status) ==
    /\ log' = [log EXCEPT ![reqs[r].exec].status = status,
                          ![reqs[r].exec].ended = now]
    /\ reqs' = [reqs EXCEPT ![r] = Idle]

\* res.end with everything captured: the response is stored, then sent.
End(r) ==
    /\ Running(r)
    /\ records' = [records EXCEPT ![reqs[r].key] =
                      Complete(@, reqs[r].payload, reqs[r].exec)]
    /\ Finish(r, "stored")
    /\ UNCHANGED now

\* res.end of a response over MAX_REPLAY_BODY_BYTES, or one whose UPDATE
\* fails (finalized is set by then, so the error's own res.end stores nothing).
EndUnstored(r) ==
    /\ Running(r)
    /\ Finish(r, "unstored")
    /\ UNCHANGED <<now, records>>

\* Mutant: a disconnect releases the key.
AbandonReleases(r) ==
    /\ Running(r)
    /\ records' = [records EXCEPT ![reqs[r].key] = NoRecord]
    /\ Finish(r, "unknown")
    /\ UNCHANGED now

\* The client disconnects and the handler returns without ending its response.
Abandon(r) ==
    /\ Running(r)
    /\ Finish(r, "unknown")
    /\ UNCHANGED <<now, records>>

\* The process dies with its requests; the table stays.
Crash ==
    /\ log' = [e \in DOMAIN log |->
                  IF log[e].status = "running"
                  THEN [log[e] EXCEPT !.status = "unknown"] ELSE log[e]]
    /\ reqs' = [r \in Requests |-> Idle]
    /\ UNCHANGED <<now, records>>

Tick ==
    /\ now < MaxTime
    /\ \A r \in Requests : Running(r) => now < log[reqs[r].exec].start + MaxDuration
    /\ now' = now + 1
    /\ UNCHANGED <<records, reqs, log>>

Next ==
    \/ \E r \in Requests, k \in Keys, p \in Payloads :
          Start(r, k, p) \/ Refuse(r, k, p) \/ Replay(r, k, p)
    \/ \E r \in Requests : End(r) \/ EndUnstored(r) \/ Abandon(r)
    \/ Crash
    \/ Tick

Spec == Init /\ [][Next]_vars

-----------------------------------------------------------------------------
\* A key's write is not repeated for RETENTION_MS after it started, whatever
\* its outcome, nor for RETENTION_MS after its response was stored: requests
\* that race, retries, disconnects, crashes and oversized responses included.
OncePerRetention == \A e, f \in DOMAIN log :
    e < f /\ log[e].key = log[f].key =>
        /\ log[f].start > log[e].start + Retention
        /\ log[e].status = "stored" => log[f].start > log[e].ended + Retention

\* Two handlers never run at the same time for one key.
NoOverlap == \A r, s \in Requests :
    Running(r) /\ Running(s) /\ reqs[r].key = reqs[s].key => r = s

\* A replay answers with the response of a finished execution of the same key
\* and payload: never another request's, never one whose outcome is unknown.
ReplayIsOriginal == \A r \in Requests : reqs[r].pc = "replayed" =>
    /\ reqs[r].exec \in DOMAIN log
    /\ LET x == log[reqs[r].exec] IN
          x.key = reqs[r].key /\ x.payload = reqs[r].payload /\ x.status = "stored"

\* The row of an execution that never stored a response keeps refusing its key
\* until the retention cleanup: "same-key retries fail closed".
FailsClosed == \A e \in DOMAIN log :
    log[e].status \in {"unstored", "unknown"} /\ now <= log[e].start + Retention =>
        records[log[e].key].state = "processing"

=============================================================================
