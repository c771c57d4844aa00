----------------------------- MODULE Conversation -----------------------------
(***************************************************************************)
(* Customer sessions: their life cycle (conversation.service.ts,           *)
(* session.repo.ts), the chat requests that answer into them               *)
(* (routes/chat.ts) and the handoff of a session to a human                *)
(* (escalation.service.ts).                                                *)
(*                                                                         *)
(* A statement or a transaction of SQLite is one step; a request loses the *)
(* thread wherever the code awaits a provider.                             *)
(***************************************************************************)
CONSTANTS
    Sessions,  \* session ids
    Turns      \* chat requests in flight at a time

VARIABLES
    up,        \* the process runs
    sessions,  \* the sessions table
    handoffs,  \* the sessions with a row in escalation_log
    turns      \* chat requests: what each is doing, and in which session

convVars == <<up, sessions, handoffs, turns>>

\* idle: updated_at is before the inactivity cutoff.
Session == [status : {"absent", "active", "closed", "escalated"},
            reason : {"none", "user_closed", "inactivity_timeout"},
            idle : BOOLEAN]

NoTurn == [pc |-> "none"]
Turn == {NoTurn} \cup [pc : {"answering", "preparing"}, session : Sessions,
                       answered : BOOLEAN]

ConvTypeOK ==
    /\ up \in BOOLEAN
    /\ sessions \in [Sessions -> Session]
    /\ handoffs \subseteq Sessions
    /\ turns \in [Turns -> Turn]

ConvInit ==
    /\ up = TRUE
    /\ sessions = [s \in Sessions |-> [status |-> "absent", reason |-> "none", idle |-> FALSE]]
    /\ handoffs = {}
    /\ turns = [t \in Turns |-> NoTurn]

-----------------------------------------------------------------------------
\* expireInactive leaves updated_at alone.
ExpireInactive(ss) == [s \in Sessions |->
    IF ss[s].status = "active" /\ ss[s].idle
    THEN [ss[s] EXCEPT !.status = "closed", !.reason = "inactivity_timeout"]
    ELSE ss[s]]

UpdateStatus(ss, s, status, reason) ==
    [ss EXCEPT ![s] = [status |-> status, reason |-> reason, idle |-> FALSE]]

Touch(ss, s) == [ss EXCEPT ![s].idle = FALSE]

\* Mutant: any closed session is resumed.
ResumableClosed(sess) == sess.status \in {"active", "closed"}

Resumable(sess) == \/ sess.status = "active"
                   \/ sess.status = "closed" /\ sess.reason = "inactivity_timeout"

\* resolveSessionForMessage for a request that names session s: the table
\* after it, when s is resumed.
Resumed(ss, s) == IF ss[s].status = "active" THEN ss
                  ELSE UpdateStatus(ss, s, "active", "none")

\* Mutant: an escalated session can be closed.
CloseAnySession(ss, s) == UpdateStatus(ss, s, "closed", "user_closed")

\* closeSession: an escalated session belongs to the handoff queue.
CloseUserSession(ss, s) ==
    IF ss[s].status = "active" THEN UpdateStatus(ss, s, "closed", "user_closed") ELSE ss

\* persistPreparedEscalation, whatever the session's status is by then.
PersistEscalation(s) ==
    /\ handoffs' = handoffs \cup {s}
    /\ sessions' = UpdateStatus(sessions, s, "escalated", "none")

-----------------------------------------------------------------------------
\* A chat message: expire, resolve the session, save the user's message, and
\* start to work on the answer.
StartTurn(t, s) ==
    /\ up /\ turns[t] = NoTurn
    /\ LET found == ExpireInactive(sessions) IN
          \/ /\ Resumable(found[s])
             /\ sessions' = Touch(Resumed(found, s), s)
          \/ /\ found[s].status = "absent"
             /\ sessions' = UpdateStatus(found, s, "active", "none")
    /\ turns' = [turns EXCEPT ![t] = [pc |-> "answering", session |-> s, answered |-> FALSE]]
    /\ UNCHANGED <<up, handoffs>>

\* The answer is saved without a handoff.
Reply(t) ==
    /\ turns[t].pc = "answering"
    /\ sessions' = Touch(sessions, turns[t].session)
    /\ turns' = [turns EXCEPT ![t] = NoTurn]
    /\ UNCHANGED <<up, handoffs>>

\* The model fails, or answers nothing that needs a handoff; nothing is saved.
FailTurn(t) ==
    /\ turns[t].pc # "none"
    /\ turns' = [turns EXCEPT ![t] = NoTurn]
    /\ UNCHANGED <<up, sessions, handoffs>>

\* A refusal, a conflict, a trigger word or the model's own marker asks for a
\* human: prepareEscalation reads the conversation and awaits the model.  An
\* empty generation is handed off without a message (answered = FALSE).
Escalate(t) ==
    /\ turns[t].pc = "answering"
    /\ \E answered \in BOOLEAN :
          turns' = [turns EXCEPT ![t].pc = "preparing", ![t].answered = answered]
    /\ UNCHANGED <<up, sessions, handoffs>>

\* One transaction: the message, the log row, the packet and the status.
HandOff(t) ==
    /\ turns[t].pc = "preparing"
    /\ PersistEscalation(turns[t].session)
    /\ turns' = [turns EXCEPT ![t] = NoTurn]
    /\ UNCHANGED up

\* expireInactiveSessions, from every list of conversations.
Expire ==
    /\ up
    /\ sessions' = ExpireInactive(sessions)
    /\ UNCHANGED <<up, handoffs, turns>>

\* The inactivity cutoff passes a session's updated_at.
GrowIdle(s) ==
    /\ sessions[s].status # "absent"
    /\ sessions' = [sessions EXCEPT ![s].idle = TRUE]
    /\ UNCHANGED <<up, handoffs, turns>>

ConvNext ==
    \/ \E t \in Turns : \/ \E s \in Sessions : StartTurn(t, s)
                        \/ Reply(t) \/ FailTurn(t) \/ Escalate(t) \/ HandOff(t)
    \/ Expire
    \/ \E s \in Sessions : GrowIdle(s)

-----------------------------------------------------------------------------
\* A session is escalated exactly when the handoff queue has a row for it:
\* neither a close, an expiry nor a resumption that races the handoff loses
\* the human's claim to it (closeSession, resolveSessionForMessage).
HandoffIsVisible == \A s \in Sessions :
    sessions[s].status = "escalated" <=> s \in handoffs

\* A session that the customer closed stays closed to the bot: a later message
\* starts a new one.  Only a handoff that was under way may still claim it.
UserCloseIsFinal == [][\A s \in Sessions :
    sessions[s].reason = "user_closed" =>
        \/ sessions'[s].status = "closed" /\ sessions'[s].reason = "user_closed"
        \/ sessions'[s].status = "escalated"]_convVars
=============================================================================
