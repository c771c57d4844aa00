------------------------------- MODULE OrderTool -------------------------------
(***************************************************************************)
(* The order lookup tool inside a customer session: verification and the   *)
(* access grant it issues (order-grant.service.ts), the lookup and the     *)
(* audit of its execution (order-tool.service.ts, tool-execution.repo.ts), *)
(* and what a restart does to both (db/index.ts).                          *)
(***************************************************************************)
EXTENDS Conversation, Naturals

CONSTANTS
    Calls,    \* verify and lookup requests in flight at a time
    Grants,   \* grant ids
    Execs,    \* execution ids
    Keys,     \* Idempotency-Key values of lookups
    MaxBoots  \* bound on the number of restarts

ASSUME BootAssumption == MaxBoots \in Nat

VARIABLES
    grants,  \* order_access_grants
    execs,   \* tool_executions
    calls,   \* the handlers of verify and lookup requests
    boots    \* how often the process was started again

toolVars == <<grants, execs, calls, boots>>
vars == <<convVars, toolVars>>

\* expired: past expires_at, the row still there (it is never found again).
NoGrant == [state |-> "none"]
Grant == {NoGrant} \cup [state : {"live", "revoked", "expired"}, session : Sessions]

NoExec == [status |-> "none"]
Exec == {NoExec} \cup [status : {"running", "succeeded", "failed", "unsafe", "interrupted"},
                       session : Sessions, key : Keys]

NoCall == [pc |-> "none"]
Call == {NoCall} \cup [pc : {"verifying"}, session : Sessions]
                 \cup [pc : {"asking", "unsafe"}, exec : Execs]

TypeOK ==
    /\ ConvTypeOK
    /\ grants \in [Grants -> Grant]
    /\ execs \in [Execs -> Exec]
    /\ calls \in [Calls -> Call]
    /\ boots \in 0..MaxBoots

Init ==
    /\ ConvInit
    /\ grants = [g \in Grants |-> NoGrant]
    /\ execs = [x \in Execs |-> NoExec]
    /\ calls = [c \in Calls |-> NoCall]
    /\ boots = 0

-----------------------------------------------------------------------------
\* UPDATE ... SET revoked_at WHERE session_id = s AND revoked_at IS NULL.
RevokeSession(s) == [g \in Grants |->
    IF grants[g] # NoGrant /\ grants[g].state = "live" /\ grants[g].session = s
    THEN [grants[g] EXCEPT !.state = "revoked"] ELSE grants[g]]

\* replaceForSession.
Replace(s, g) == [RevokeSession(s) EXCEPT ![g] = [state |-> "live", session |-> s]]

\* findActiveByTokenHash, with the binding and the status of the session.
Authorized(g) ==
    /\ grants[g] # NoGrant /\ grants[g].state = "live"
    /\ sessions[grants[g].session].status = "active"

\* The unique indexes: one running execution of a session, one of each key.
MayStart(s, k) == \A x \in Execs : execs[x] # NoExec /\ execs[x].session = s =>
    execs[x].status # "running" /\ execs[x].key # k

SetExec(x, status) == [execs EXCEPT ![x].status = status]
EndCall(c) == calls' = [calls EXCEPT ![c] = NoCall]

-----------------------------------------------------------------------------
\* verify: the session is checked, the attempt counted, the adapter asked.
StartVerify(c, s) ==
    /\ up /\ calls[c] = NoCall
    /\ sessions[s].status = "active"
    /\ calls' = [calls EXCEPT ![c] = [pc |-> "verifying", session |-> s]]
    /\ UNCHANGED <<convVars, grants, execs, boots>>

\* The adapter agrees: the grant is issued without another look at the session.
IssueGrant(c, g) ==
    /\ calls[c].pc = "verifying" /\ grants[g] = NoGrant
    /\ grants' = Replace(calls[c].session, g)
    /\ EndCall(c)
    /\ UNCHANGED <<convVars, execs, boots>>

\* It disagrees or fails.
RejectVerify(c) ==
    /\ calls[c].pc = "verifying"
    /\ EndCall(c)
    /\ UNCHANGED <<convVars, grants, execs, boots>>

\* authorizeOrderLookup and executionRepo.start, in one turn of the event loop.
StartLookup(c, g, k, x) ==
    /\ up /\ calls[c] = NoCall
    /\ Authorized(g)
    /\ execs[x] = NoExec
    /\ MayStart(grants[g].session, k)
    /\ execs' = [execs EXCEPT ![x] =
                    [status |-> "running", session |-> grants[g].session, key |-> k]]
    /\ calls' = [calls EXCEPT ![c] = [pc |-> "asking", exec |-> x]]
    /\ UNCHANGED <<convVars, grants, boots>>

\* A valid result in time: one transaction saves the summary message, touches
\* the session and completes the execution.
Succeed(c) ==
    /\ calls[c].pc = "asking"
    /\ sessions' = Touch(sessions, execs[calls[c].exec].session)
    /\ execs' = SetExec(calls[c].exec, "succeeded")
    /\ EndCall(c)
    /\ UNCHANGED <<up, handoffs, turns, grants, boots>>

\* Mutant: the audit of a failed lookup is not written.
FailUnrecorded(c) ==
    /\ calls[c].pc = "asking"
    /\ EndCall(c)
    /\ UNCHANGED <<convVars, grants, execs, boots>>

\* The adapter fails, or has not answered by the deadline (its late answer is
\* dropped): no handoff.
FailLookup(c) ==
    /\ calls[c].pc = "asking"
    /\ execs' = SetExec(calls[c].exec, "failed")
    /\ EndCall(c)
    /\ UNCHANGED <<convVars, grants, boots>>

\* The result is invalid, or of another order: prepareEscalation is awaited.
Distrust(c) ==
    /\ calls[c].pc = "asking"
    /\ calls' = [calls EXCEPT ![c].pc = "unsafe"]
    /\ UNCHANGED <<convVars, grants, execs, boots>>

\* Mutant: only a session that is still active is handed off.
EscalateUnsafeIfActive(c) ==
    /\ calls[c].pc = "unsafe"
    /\ execs' = SetExec(calls[c].exec, "unsafe")
    /\ IF sessions[execs[calls[c].exec].session].status = "active"
       THEN PersistEscalation(execs[calls[c].exec].session)
       ELSE UNCHANGED <<sessions, handoffs>>
    /\ EndCall(c)
    /\ UNCHANGED <<up, turns, grants, boots>>

\* One transaction fails the execution and hands the session off.
EscalateUnsafe(c) ==
    /\ calls[c].pc = "unsafe"
    /\ execs' = SetExec(calls[c].exec, "unsafe")
    /\ PersistEscalation(execs[calls[c].exec].session)
    /\ EndCall(c)
    /\ UNCHANGED <<up, turns, grants, boots>>

\* POST /sessions/:id/close: closeUserSession, then revokeSession.
Close(s) ==
    /\ up /\ sessions[s].status # "absent"
    /\ sessions' = CloseUserSession(sessions, s)
    /\ grants' = RevokeSession(s)
    /\ UNCHANGED <<up, handoffs, turns, execs, calls, boots>>

\* expires_at passes.
ExpireGrant(g) ==
    /\ grants[g] # NoGrant /\ grants[g].state = "live"
    /\ grants' = [grants EXCEPT ![g].state = "expired"]
    /\ UNCHANGED <<convVars, execs, calls, boots>>

Crash ==
    /\ up /\ boots < MaxBoots
    /\ up' = FALSE
    /\ turns' = [t \in Turns |-> NoTurn]
    /\ calls' = [c \in Calls |-> NoCall]
    /\ UNCHANGED <<sessions, handoffs, grants, execs, boots>>

\* Startup removes expired grants and interrupts running executions.
Interrupted(ex) == IF ex.status = "running" THEN [ex EXCEPT !.status = "interrupted"] ELSE ex
Boot ==
    /\ ~up
    /\ up' = TRUE
    /\ boots' = boots + 1
    /\ grants' = [g \in Grants |-> IF grants[g].state = "expired" THEN NoGrant ELSE grants[g]]
    /\ execs' = [x \in Execs |-> Interrupted(execs[x])]
    /\ UNCHANGED <<sessions, handoffs, turns, calls>>

Answered(c) == Succeed(c) \/ FailLookup(c) \/ Distrust(c) \/ EscalateUnsafe(c)

Next ==
    \/ ConvNext /\ UNCHANGED toolVars
    \/ \E c \in Calls :
          \/ \E s \in Sessions : StartVerify(c, s)
          \/ \E g \in Grants : IssueGrant(c, g)
          \/ RejectVerify(c)
          \/ \E g \in Grants, k \in Keys, x \in Execs : StartLookup(c, g, k, x)
          \/ Answered(c)
    \/ \E s \in Sessions : Close(s)
    \/ \E g \in Grants : ExpireGrant(g)
    \/ Crash
    \/ Boot

\* withTimeout bounds every lookup, what follows needs no answer from outside,
\* and the container restarts a dead process.
Fairness == /\ \A c \in Calls : WF_vars(Answered(c))
            /\ WF_vars(Boot)

Spec == Init /\ [][Next]_vars /\ Fairness

-----------------------------------------------------------------------------
\* At most one grant of a session can be used, however verifications overlap
\* (replaceForSession).
OneLiveGrant == \A g, h \in Grants :
    /\ grants[g].state = "live" /\ grants[h].state = "live"
    /\ grants[g].session = grants[h].session
    => g = h

\* The running rows of a live process are exactly the lookups in progress, so
\* none blocks its session's next lookup for good (start, fail, Boot).
RunningIsInProgress == up => \A x \in Execs :
    execs[x].status = "running" <=>
        \E c \in Calls : calls[c].pc \in {"asking", "unsafe"} /\ calls[c].exec = x

\* A result that was not trusted always left its session to a human
\* (failAndEscalateUnsafeResult).
UnsafeIsHandedOff == \A x \in Execs :
    execs[x].status = "unsafe" => sessions[execs[x].session].status = "escalated"

\* An execution ends: by an answer, by its deadline or by a restart.
ExecutionsEnd == \A x \in Execs :
    execs[x].status = "running" ~> execs[x].status # "running"

=============================================================================
