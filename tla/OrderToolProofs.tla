---------------------------- MODULE OrderToolProofs ----------------------------
(***************************************************************************)
(* Theorems about OrderTool, for any number of sessions, requests, grants, *)
(* executions and restarts; about the call of the model (LlmCall), for any *)
(* attempts and buffer; and about the packet of a handoff (Triage).        *)
(***************************************************************************)
EXTENDS OrderTool, LlmCall, Triage, SequenceTheorems, WellFoundedInduction, TLAPS

Asking(c) == calls[c].pc \in {"asking", "unsafe"}

\* A session keeps its reason only as long as it is closed.
ClosedForReason == \A s \in Sessions :
    sessions[s].reason = "user_closed" => sessions[s].status = "closed"

\* A lookup in progress is the only one of its execution, which is running.
AskingOwns == \A c \in Calls : Asking(c) =>
    /\ up
    /\ execs[calls[c].exec].status = "running"
    /\ \A d \in Calls : Asking(d) /\ calls[d].exec = calls[c].exec => d = c

\* A process that is down has a restart left.
BootLeft == ~up => boots < MaxBoots

SessionsInv == ConvTypeOK /\ HandoffIsVisible /\ ClosedForReason

IInv == /\ TypeOK /\ HandoffIsVisible /\ ClosedForReason /\ AskingOwns
        /\ OneLiveGrant /\ RunningIsInProgress /\ UnsafeIsHandedOff /\ BootLeft

LEMMA InitIInv == Init => IInv
  BY BootAssumption
  DEF Init, ConvInit, IInv, TypeOK, ConvTypeOK, Session, Turn, NoTurn, Grant, NoGrant,
      Exec, NoExec, Call, NoCall, HandoffIsVisible, ClosedForReason, AskingOwns, Asking,
      OneLiveGrant, RunningIsInProgress, UnsafeIsHandedOff, BootLeft

\* The statements of session.repo: they yield tables of sessions, and none of
\* those that the bot runs moves an escalated session.
LEMMA SessionOps ==
  ASSUME ConvTypeOK, NEW s \in Sessions,
         NEW ss \in [Sessions -> Session]
  PROVE  /\ ExpireInactive(ss) \in [Sessions -> Session]
         /\ \A r \in Sessions :
               \/ ExpireInactive(ss)[r] = ss[r]
               \/ /\ ss[r].status = "active"
                  /\ ExpireInactive(ss)[r].status = "closed"
                  /\ ExpireInactive(ss)[r].reason = "inactivity_timeout"
         /\ Touch(ss, s) \in [Sessions -> Session]
         /\ \A r \in Sessions : /\ Touch(ss, s)[r].status = ss[r].status
                                /\ Touch(ss, s)[r].reason = ss[r].reason
         /\ \A status \in {"active", "closed", "escalated"},
               reason \in {"none", "user_closed", "inactivity_timeout"} :
                  /\ UpdateStatus(ss, s, status, reason) \in [Sessions -> Session]
                  /\ UpdateStatus(ss, s, status, reason)[s].status = status
                  /\ UpdateStatus(ss, s, status, reason)[s].reason = reason
                  /\ \A r \in Sessions \ {s} : UpdateStatus(ss, s, status, reason)[r] = ss[r]
  <1>1. \A r \in Sessions : /\ ss[r].status \in {"absent", "active", "closed", "escalated"}
                            /\ ss[r].reason \in {"none", "user_closed", "inactivity_timeout"}
                            /\ ss[r].idle \in BOOLEAN
    BY DEF Session
  <1>2. /\ ExpireInactive(ss) \in [Sessions -> Session]
        /\ \A r \in Sessions :
               \/ ExpireInactive(ss)[r] = ss[r]
               \/ /\ ss[r].status = "active"
                  /\ ExpireInactive(ss)[r].status = "closed"
                  /\ ExpireInactive(ss)[r].reason = "inactivity_timeout"
    BY <1>1 DEF ExpireInactive, Session
  <1>3. /\ Touch(ss, s) \in [Sessions -> Session]
        /\ \A r \in Sessions : /\ Touch(ss, s)[r].status = ss[r].status
                               /\ Touch(ss, s)[r].reason = ss[r].reason
    BY <1>1 DEF Touch, Session
  <1>4. \A status \in {"active", "closed", "escalated"},
               reason \in {"none", "user_closed", "inactivity_timeout"} :
                  /\ UpdateStatus(ss, s, status, reason) \in [Sessions -> Session]
                  /\ UpdateStatus(ss, s, status, reason)[s].status = status
                  /\ UpdateStatus(ss, s, status, reason)[s].reason = reason
                  /\ \A r \in Sessions \ {s} : UpdateStatus(ss, s, status, reason)[r] = ss[r]
    BY DEF UpdateStatus, Session
  <1> QED BY <1>2, <1>3, <1>4

\* The handoff of any session keeps the queue and the statuses in step.
LEMMA HandOffSteps ==
  ASSUME SessionsInv, NEW s \in Sessions, PersistEscalation(s)
  PROVE  /\ sessions' \in [Sessions -> Session] /\ handoffs' \subseteq Sessions
         /\ HandoffIsVisible' /\ ClosedForReason'
         /\ sessions'[s].status = "escalated"
         /\ \A r \in Sessions \ {s} : sessions'[r] = sessions[r]
  <1>1. /\ sessions' \in [Sessions -> Session]
        /\ sessions'[s].status = "escalated" /\ sessions'[s].reason = "none"
        /\ \A r \in Sessions \ {s} : sessions'[r] = sessions[r]
    BY SessionOps DEF SessionsInv, ConvTypeOK, PersistEscalation
  <1>2. handoffs' = handoffs \cup {s} /\ handoffs' \subseteq Sessions
    BY DEF SessionsInv, ConvTypeOK, PersistEscalation
  <1>3. HandoffIsVisible'
    <2> SUFFICES ASSUME NEW r \in Sessions
                 PROVE  sessions'[r].status = "escalated" <=> r \in handoffs'
      BY DEF HandoffIsVisible
    <2> QED BY <1>1, <1>2 DEF SessionsInv, HandoffIsVisible
  <1>4. ClosedForReason'
    BY <1>1 DEF SessionsInv, ClosedForReason
  <1> QED BY <1>1, <1>2, <1>3, <1>4

\* What every step promises the sessions.
SessionsStep ==
    /\ SessionsInv'
    /\ \A s \in Sessions : /\ sessions[s].status = "escalated" => sessions'[s].status = "escalated"
                           /\ sessions[s].reason = "user_closed" =>
                                 \/ sessions'[s].status = "closed" /\ sessions'[s].reason = "user_closed"
                                 \/ sessions'[s].status = "escalated"

LEMMA ConvSteps ==
  ASSUME SessionsInv, ConvNext
  PROVE  SessionsStep
  <1> USE DEF SessionsInv, SessionsStep, HandoffIsVisible, ClosedForReason, ConvTypeOK
  <1>0. \A t \in Turns : turns[t].pc # "none" => turns[t].session \in Sessions
    BY DEF Turn, NoTurn
  <1>n. \A t \in Turns : [turns EXCEPT ![t] = NoTurn] \in [Turns -> Turn]
    BY DEF Turn, NoTurn
  <1>1. ASSUME NEW t \in Turns, NEW s \in Sessions, StartTurn(t, s)
        PROVE  SessionsStep
    <2> DEFINE found == ExpireInactive(sessions)
    <2>1. /\ found \in [Sessions -> Session]
          /\ \A r \in Sessions :
               \/ found[r] = sessions[r]
               \/ /\ sessions[r].status = "active" /\ found[r].status = "closed"
                  /\ found[r].reason = "inactivity_timeout"
      BY SessionOps
    <2>2. turns' \in [Turns -> Turn] /\ up' = up /\ handoffs' = handoffs
      BY <1>1 DEF StartTurn, Turn, NoTurn
    <2> HIDE DEF found
    <2>3. CASE Resumable(found[s]) /\ sessions' = Touch(Resumed(found, s), s)
      <3>1. /\ Resumed(found, s) \in [Sessions -> Session]
            /\ Resumed(found, s)[s].status = "active"
            /\ Resumed(found, s)[s].reason = IF found[s].status = "active" THEN found[s].reason ELSE "none"
            /\ \A r \in Sessions \ {s} : Resumed(found, s)[r] = found[r]
        BY <2>1, SessionOps DEF Resumed
      <3>2. /\ sessions' \in [Sessions -> Session]
            /\ \A r \in Sessions : /\ sessions'[r].status = Resumed(found, s)[r].status
                                   /\ sessions'[r].reason = Resumed(found, s)[r].reason
        BY <2>3, <3>1, SessionOps
      <3>3. sessions[s].status # "escalated" /\ sessions[s].reason # "user_closed"
        BY <2>1, <2>3 DEF Resumable
      <3>4. \A r \in Sessions :
               /\ sessions[r].status = "escalated" => sessions'[r].status = "escalated"
               /\ sessions'[r].status = "escalated" => sessions[r].status = "escalated"
               /\ sessions'[r].reason = "user_closed" => sessions'[r].status = "closed"
               /\ sessions[r].reason = "user_closed" =>
                     sessions'[r].status = "closed" /\ sessions'[r].reason = "user_closed"
        <4> TAKE r \in Sessions
        <4>1. CASE r = s
          BY <2>1, <2>3, <3>1, <3>2, <3>3, <4>1 DEF Resumable
        <4>2. CASE r # s
          BY <2>1, <3>1, <3>2, <4>2
        <4> QED BY <4>1, <4>2
      <3> QED BY <2>2, <3>2, <3>4
    <2>4. CASE /\ found[s].status = "absent"
               /\ sessions' = UpdateStatus(found, s, "active", "none")
      <3>1. /\ sessions' \in [Sessions -> Session]
            /\ sessions'[s].status = "active" /\ sessions'[s].reason = "none"
            /\ \A r \in Sessions \ {s} : sessions'[r] = found[r]
        BY <2>1, <2>4, SessionOps
      <3> QED BY <2>1, <2>2, <2>4, <3>1
    <2> QED BY <1>1, <2>3, <2>4 DEF StartTurn, found
  <1>2. ASSUME NEW t \in Turns, Reply(t)
        PROVE  SessionsStep
    <2>1. turns[t].session \in Sessions
      BY <1>0, <1>2 DEF Reply
    <2>2. /\ sessions' \in [Sessions -> Session]
          /\ \A r \in Sessions : /\ sessions'[r].status = sessions[r].status
                                 /\ sessions'[r].reason = sessions[r].reason
      BY <1>2, <2>1, SessionOps DEF Reply
    <2> QED BY <1>n, <1>2, <2>2 DEF Reply
  <1>3. ASSUME NEW t \in Turns, FailTurn(t)
        PROVE  SessionsStep
    BY <1>n, <1>3 DEF FailTurn
  <1>4. ASSUME NEW t \in Turns, Escalate(t)
        PROVE  SessionsStep
    <2>1. turns' \in [Turns -> Turn]
      <3> SUFFICES ASSUME NEW answered \in BOOLEAN, turns[t].pc = "answering",
                          turns' = [turns EXCEPT ![t].pc = "preparing", ![t].answered = answered]
                   PROVE  turns' \in [Turns -> Turn]
        BY <1>4 DEF Escalate
      <3>1. [pc |-> "preparing", session |-> turns[t].session, answered |-> answered] \in Turn
        BY <1>0 DEF Turn
      <3>2. turns[t] \in [pc : {"answering", "preparing"}, session : Sessions, answered : BOOLEAN]
        BY DEF Turn, NoTurn
      <3>3. turns'[t] = [pc |-> "preparing", session |-> turns[t].session, answered |-> answered]
        BY <3>2
      <3> QED BY <3>1, <3>3
    <2> QED BY <1>4, <2>1 DEF Escalate
  <1>5. ASSUME NEW t \in Turns, HandOff(t)
        PROVE  SessionsStep
    BY <1>0, <1>n, <1>5, HandOffSteps DEF HandOff
  <1>6. CASE Expire
    <2>1. CASE Sessions = {}
      BY <1>6, <2>1 DEF Expire, ExpireInactive
    <2>2. CASE Sessions # {}
      <3>1. PICK s \in Sessions : TRUE
        BY <2>2
      <3>2. /\ sessions' \in [Sessions -> Session]
            /\ \A r \in Sessions :
               \/ sessions'[r] = sessions[r]
               \/ /\ sessions[r].status = "active" /\ sessions'[r].status = "closed"
                  /\ sessions'[r].reason = "inactivity_timeout"
        BY <1>6, <3>1, SessionOps DEF Expire
      <3> QED BY <1>6, <3>2 DEF Expire
    <2> QED BY <2>1, <2>2
  <1>7. ASSUME NEW s \in Sessions, GrowIdle(s)
        PROVE  SessionsStep
    <2>1. /\ sessions' \in [Sessions -> Session]
          /\ \A r \in Sessions : /\ sessions'[r].status = sessions[r].status
                                 /\ sessions'[r].reason = sessions[r].reason
      BY <1>7 DEF GrowIdle, Session
    <2> QED BY <1>7, <2>1 DEF GrowIdle
  <1> QED BY <1>1, <1>2, <1>3, <1>4, <1>5, <1>6, <1>7 DEF ConvNext

-----------------------------------------------------------------------------
\* The types of what a handler holds.
LEMMA HandlerTypes ==
  ASSUME TypeOK
  PROVE  /\ \A c \in Calls : calls[c].pc = "verifying" => calls[c].session \in Sessions
         /\ \A c \in Calls : Asking(c) => calls[c].exec \in Execs
         /\ \A x \in Execs : execs[x] # NoExec =>
               /\ execs[x].session \in Sessions /\ execs[x].key \in Keys
               /\ execs[x].status # "none"
         /\ \A x \in Execs : execs[x].status # "none" => execs[x] # NoExec
         /\ \A c \in Calls : [calls EXCEPT ![c] = NoCall] \in [Calls -> Call]
  BY DEF TypeOK, Call, NoCall, Asking, Exec, NoExec

\* A step that leaves executions, handlers and the process alone.
LEMMA SameTools ==
  ASSUME IInv, SessionsStep, UNCHANGED <<up, grants, execs, calls, boots>>
  PROVE  IInv'
  <1>1. AskingOwns' /\ RunningIsInProgress'
    BY DEF IInv, AskingOwns, Asking, RunningIsInProgress
  <1>2. UnsafeIsHandedOff'
    BY HandlerTypes DEF IInv, SessionsStep, UnsafeIsHandedOff
  <1>3. OneLiveGrant'
    BY DEF IInv, OneLiveGrant
  <1> QED BY <1>1, <1>2, <1>3 DEF SessionsStep, SessionsInv, IInv, TypeOK, BootLeft

\* A step that leaves the sessions alone.
LEMMA SameSessions ==
  ASSUME IInv, UNCHANGED <<sessions, handoffs>>, up' \in BOOLEAN, turns' \in [Turns -> Turn]
  PROVE  SessionsStep
  BY DEF IInv, TypeOK, ConvTypeOK, SessionsStep, SessionsInv, HandoffIsVisible, ClosedForReason

\* A step of handlers that neither begins nor ends a lookup.
LEMMA CallsMove ==
  ASSUME IInv, SessionsStep, UNCHANGED <<sessions, up, grants, execs, boots>>,
         calls' \in [Calls -> Call],
         \A d \in Calls : Asking(d)' <=> Asking(d),
         \A d \in Calls : Asking(d) => calls'[d].exec = calls[d].exec
  PROVE  IInv'
  <1>1. AskingOwns'
    BY DEF IInv, AskingOwns
  <1>2. RunningIsInProgress'
    BY DEF IInv, RunningIsInProgress, Asking
  <1>3. UnsafeIsHandedOff' /\ OneLiveGrant'
    BY DEF IInv, UnsafeIsHandedOff, OneLiveGrant
  <1> QED BY <1>1, <1>2, <1>3 DEF SessionsStep, SessionsInv, IInv, TypeOK, BootLeft

\* A step that changes grants, and handlers as above.
LEMMA GrantsMove ==
  ASSUME IInv, SessionsStep, UNCHANGED <<up, execs, boots>>,
         calls' \in [Calls -> Call],
         \A d \in Calls : Asking(d)' <=> Asking(d),
         \A d \in Calls : Asking(d) => calls'[d].exec = calls[d].exec,
         grants' \in [Grants -> Grant], OneLiveGrant'
  PROVE  IInv'
  <1>1. AskingOwns'
    BY DEF IInv, AskingOwns
  <1>2. RunningIsInProgress'
    BY DEF IInv, RunningIsInProgress, Asking
  <1>3. UnsafeIsHandedOff'
    BY HandlerTypes DEF IInv, SessionsStep, UnsafeIsHandedOff, NoExec
  <1> QED BY <1>1, <1>2, <1>3 DEF SessionsStep, SessionsInv, IInv, TypeOK, BootLeft

\* A handler ends with its execution in another status, its session not
\* left to the bot if the status says so.
LEMMA EndExecution ==
  ASSUME IInv, SessionsStep, NEW c \in Calls, Asking(c),
         NEW status \in {"succeeded", "failed", "unsafe"},
         execs' = SetExec(calls[c].exec, status), EndCall(c),
         UNCHANGED <<up, grants, boots>>,
         status = "unsafe" => sessions'[execs[calls[c].exec].session].status = "escalated"
  PROVE  IInv'
  <1> DEFINE x == calls[c].exec
  <1>1. x \in Execs /\ execs[x].status = "running" /\ execs[x] # NoExec /\ up
    BY HandlerTypes DEF IInv, AskingOwns, NoExec
  <1>2. /\ execs' \in [Execs -> Exec] /\ execs'[x].status = status
        /\ execs'[x].session = execs[x].session
        /\ \A y \in Execs \ {x} : execs'[y] = execs[y]
    <2>1. execs[x] \in [status : {"running", "succeeded", "failed", "unsafe", "interrupted"},
                        session : Sessions, key : Keys]
      BY <1>1 DEF IInv, TypeOK, Exec
    <2> QED BY <1>1, <2>1 DEF IInv, TypeOK, Exec, SetExec
  <1>3. /\ calls' \in [Calls -> Call] /\ calls'[c].pc = "none"
        /\ \A d \in Calls \ {c} : calls'[d] = calls[d]
    BY HandlerTypes DEF IInv, TypeOK, EndCall, NoCall
  <1> HIDE DEF x
  <1>4. \A d \in Calls : Asking(d)' <=> Asking(d) /\ d # c
    BY <1>3 DEF Asking
  <1>5. \A d \in Calls : Asking(d) /\ d # c => calls[d].exec # x /\ calls[d].exec \in Execs
    BY HandlerTypes DEF IInv, AskingOwns, x
  <1>6. AskingOwns'
    <2> SUFFICES ASSUME NEW d \in Calls, Asking(d)'
                 PROVE  /\ up' /\ execs'[calls'[d].exec].status = "running"
                        /\ \A e \in Calls : Asking(e)' /\ calls'[e].exec = calls'[d].exec => e = d
      BY DEF AskingOwns, Asking
    <2> QED BY <1>1, <1>2, <1>3, <1>4, <1>5 DEF IInv, AskingOwns
  <1>7. RunningIsInProgress'
    <2> SUFFICES ASSUME NEW y \in Execs
                 PROVE  execs'[y].status = "running" <=>
                          \E d \in Calls : Asking(d)' /\ calls'[d].exec = y
      BY DEF RunningIsInProgress, Asking
    <2>1. execs[y].status = "running" <=> \E d \in Calls : Asking(d) /\ calls[d].exec = y
      BY <1>1 DEF IInv, RunningIsInProgress, Asking
    <2> QED BY <1>1, <1>2, <1>3, <1>4, <1>5, <2>1 DEF x
  <1>8. UnsafeIsHandedOff'
    <2> SUFFICES ASSUME NEW y \in Execs, execs'[y].status = "unsafe"
                 PROVE  sessions'[execs'[y].session].status = "escalated"
      BY DEF UnsafeIsHandedOff
    <2>1. CASE y = x
      BY <1>1, <1>2, <2>1 DEF x
    <2>2. CASE y # x
      BY <1>2, <2>2, HandlerTypes DEF IInv, UnsafeIsHandedOff, SessionsStep, NoExec
    <2> QED BY <2>1, <2>2
  <1>9. OneLiveGrant'
    BY DEF IInv, OneLiveGrant
  <1> QED BY <1>2, <1>3, <1>6, <1>7, <1>8, <1>9 DEF SessionsStep, SessionsInv, IInv, TypeOK, BootLeft

\* The grants after a revocation.
LEMMA Revoked ==
  ASSUME TypeOK, OneLiveGrant, NEW s \in Sessions
  PROVE  /\ RevokeSession(s) \in [Grants -> Grant]
         /\ \A g \in Grants : RevokeSession(s)[g].state = "live" =>
               RevokeSession(s)[g] = grants[g] /\ grants[g].session # s
  BY DEF TypeOK, RevokeSession, Grant, NoGrant

\* Every step keeps what the sessions were promised.
LEMMA SessionsPromise == IInv /\ [Next]_vars => SessionsStep
  <1> SUFFICES ASSUME IInv, [Next]_vars
               PROVE  SessionsStep
    OBVIOUS
  <1>t. SessionsInv /\ TypeOK
    BY DEF IInv, SessionsInv, TypeOK
  <1>1. CASE ConvNext
    BY <1>t, <1>1, ConvSteps
  <1>2. ASSUME NEW c \in Calls, Succeed(c)
        PROVE  SessionsStep
    <2> DEFINE s == execs[calls[c].exec].session
    <2>1. s \in Sessions
      BY <1>t, <1>2, HandlerTypes DEF Succeed, Asking, IInv, AskingOwns, NoExec
    <2>2. /\ sessions' \in [Sessions -> Session]
          /\ \A r \in Sessions : /\ sessions'[r].status = sessions[r].status
                                 /\ sessions'[r].reason = sessions[r].reason
      BY <1>t, <1>2, <2>1, SessionOps DEF Succeed, SessionsInv, ConvTypeOK
    <2> QED BY <1>t, <1>2, <2>2 DEF Succeed, SessionsStep, SessionsInv, ConvTypeOK,
            HandoffIsVisible, ClosedForReason
  <1>3. ASSUME NEW c \in Calls, EscalateUnsafe(c)
        PROVE  SessionsStep
    <2> DEFINE s == execs[calls[c].exec].session
    <2>1. s \in Sessions
      BY <1>t, <1>3, HandlerTypes DEF EscalateUnsafe, Asking, IInv, AskingOwns, NoExec
    <2>2. /\ sessions' \in [Sessions -> Session] /\ handoffs' \subseteq Sessions
          /\ HandoffIsVisible' /\ ClosedForReason'
          /\ sessions'[s].status = "escalated"
          /\ \A r \in Sessions \ {s} : sessions'[r] = sessions[r]
      BY <1>t, <1>3, <2>1, HandOffSteps DEF EscalateUnsafe
    <2> HIDE DEF s
    <2>3. ConvTypeOK'
      BY <1>t, <1>3, <2>2 DEF EscalateUnsafe, SessionsInv, ConvTypeOK
    <2> QED BY <1>t, <2>1, <2>2, <2>3 DEF SessionsStep, SessionsInv, ClosedForReason
  <1>4. ASSUME NEW s \in Sessions, Close(s)
        PROVE  SessionsStep
    <2>1. CASE sessions[s].status = "active"
      <3>1. /\ sessions' \in [Sessions -> Session]
            /\ sessions'[s].status = "closed"
            /\ \A r \in Sessions \ {s} : sessions'[r] = sessions[r]
        BY <1>t, <1>4, <2>1, SessionOps DEF Close, CloseUserSession, SessionsInv, ConvTypeOK
      <3> QED BY <1>t, <1>4, <2>1, <3>1 DEF Close, SessionsStep, SessionsInv, ConvTypeOK,
                 HandoffIsVisible, ClosedForReason
    <2>2. CASE sessions[s].status # "active"
      BY <1>t, <1>4, <2>2, SameSessions DEF Close, CloseUserSession, TypeOK, ConvTypeOK
    <2> QED BY <2>1, <2>2
  <1>5. CASE Crash
    BY <1>t, <1>5, SameSessions DEF Crash, Turn
  <1>6. CASE Boot
    BY <1>t, <1>6, SameSessions DEF Boot, TypeOK, ConvTypeOK
  <1>7. CASE UNCHANGED convVars
    BY <1>t, <1>7, SameSessions DEF convVars, TypeOK, ConvTypeOK
  <1> QED BY <1>1, <1>2, <1>3, <1>4, <1>5, <1>6, <1>7
          DEF Next, Answered, vars, StartVerify, IssueGrant, RejectVerify, StartLookup,
              FailLookup, Distrust, ExpireGrant

LEMMA StepIInv == IInv /\ [Next]_vars => IInv'
  <1> SUFFICES ASSUME IInv, [Next]_vars
               PROVE  IInv'
    OBVIOUS
  <1>t. TypeOK /\ SessionsInv /\ OneLiveGrant
    BY DEF IInv, SessionsInv, TypeOK
  <1>s. SessionsStep
    BY SessionsPromise
  <1>1. CASE ConvNext /\ UNCHANGED toolVars
    <2>1. up' = up
      BY <1>1 DEF ConvNext, StartTurn, Reply, FailTurn, Escalate, HandOff, Expire, GrowIdle
    <2> QED BY <1>1, <1>s, <2>1, SameTools DEF toolVars
  <1>2. ASSUME NEW c \in Calls, NEW s \in Sessions, StartVerify(c, s)
        PROVE  IInv'
    <2>2. /\ calls' \in [Calls -> Call]
          /\ \A d \in Calls : Asking(d)' <=> Asking(d)
          /\ \A d \in Calls : Asking(d) => calls'[d] = calls[d]
      BY <1>t, <1>2 DEF StartVerify, TypeOK, Call, NoCall, Asking
    <2> QED BY <1>2, <1>s, <2>2, CallsMove DEF StartVerify, convVars
  <1>3. ASSUME NEW c \in Calls, NEW g \in Grants, IssueGrant(c, g)
        PROVE  IInv'
    <2> DEFINE s == calls[c].session
    <2>1. s \in Sessions
      BY <1>t, <1>3, HandlerTypes DEF IssueGrant
    <2>2. SessionsStep
      BY <1>t, <1>3, SameSessions DEF IssueGrant, convVars, TypeOK, ConvTypeOK
    <2>3. /\ calls' \in [Calls -> Call]
          /\ \A d \in Calls : Asking(d)' <=> Asking(d)
          /\ \A d \in Calls : Asking(d) => calls'[d] = calls[d]
      BY <1>t, <1>3, HandlerTypes DEF IssueGrant, EndCall, TypeOK, NoCall, Asking
    <2>4. /\ grants' \in [Grants -> Grant]
          /\ grants'[g] = [state |-> "live", session |-> s]
          /\ \A h \in Grants \ {g} : grants'[h] = RevokeSession(s)[h]
      BY <1>t, <1>3, <2>1, Revoked DEF IssueGrant, Replace, Grant
    <2>5. OneLiveGrant'
      <3> SUFFICES ASSUME NEW h1 \in Grants, NEW h2 \in Grants,
                          grants'[h1].state = "live", grants'[h2].state = "live",
                          grants'[h1].session = grants'[h2].session
                   PROVE  h1 = h2
        BY DEF OneLiveGrant
      <3> HIDE DEF s
      <3> QED BY <1>t, <2>1, <2>4, Revoked DEF OneLiveGrant
    <2> QED BY <1>s, <1>3, <2>2, <2>3, <2>4, <2>5, GrantsMove DEF IssueGrant, convVars
  <1>4. ASSUME NEW c \in Calls, RejectVerify(c)
        PROVE  IInv'
    <2>2. /\ calls' \in [Calls -> Call]
          /\ \A d \in Calls : Asking(d)' <=> Asking(d)
          /\ \A d \in Calls : Asking(d) => calls'[d] = calls[d]
      BY <1>t, <1>4, HandlerTypes DEF RejectVerify, EndCall, TypeOK, NoCall, Asking
    <2> QED BY <1>4, <1>s, <2>2, CallsMove DEF RejectVerify, convVars
  <1>5. ASSUME NEW c \in Calls, NEW g \in Grants, NEW k \in Keys, NEW x \in Execs,
               StartLookup(c, g, k, x)
        PROVE  IInv'
    <2>1. up' = up /\ up
      BY <1>5 DEF StartLookup, convVars
    <2>2. grants[g].session \in Sessions /\ execs[x].status = "none"
      BY <1>t, <1>5 DEF StartLookup, Authorized, TypeOK, Grant, NoExec
    <2>3. /\ execs' \in [Execs -> Exec] /\ execs'[x].status = "running"
          /\ \A y \in Execs \ {x} : execs'[y] = execs[y]
      BY <1>t, <1>5, <2>2 DEF StartLookup, TypeOK, Exec
    <2>4. /\ calls' \in [Calls -> Call]
          /\ calls'[c].pc = "asking" /\ calls'[c].exec = x
          /\ \A d \in Calls \ {c} : calls'[d] = calls[d]
          /\ ~Asking(c) /\ Asking(c)'
      BY <1>t, <1>5 DEF StartLookup, TypeOK, Call, NoCall, Asking
    <2>5. \A d \in Calls : Asking(d) => calls[d].exec # x
      BY <2>2 DEF IInv, AskingOwns
    <2>6. \A d \in Calls : Asking(d)' <=> d = c \/ Asking(d)
      BY <2>4 DEF Asking
    <2>7. AskingOwns'
      <3> SUFFICES ASSUME NEW d \in Calls, Asking(d)'
                   PROVE  /\ up' /\ execs'[calls'[d].exec].status = "running"
                          /\ \A e \in Calls :
                                Asking(e)' /\ calls'[e].exec = calls'[d].exec => e = d
        BY DEF AskingOwns, Asking
      <3> QED BY <1>t, <2>1, <2>3, <2>4, <2>5, <2>6, HandlerTypes DEF IInv, AskingOwns
    <2>8. RunningIsInProgress'
      <3> SUFFICES ASSUME NEW y \in Execs
                   PROVE  execs'[y].status = "running" <=>
                            \E d \in Calls : Asking(d)' /\ calls'[d].exec = y
        BY DEF RunningIsInProgress, Asking
      <3>1. execs[y].status = "running" <=> \E d \in Calls : Asking(d) /\ calls[d].exec = y
        BY <2>1 DEF IInv, RunningIsInProgress, Asking
      <3> QED BY <2>2, <2>3, <2>4, <2>5, <2>6, <3>1
    <2>9. UnsafeIsHandedOff'
      <3> SUFFICES ASSUME NEW y \in Execs, execs'[y].status = "unsafe"
                   PROVE  sessions'[execs'[y].session].status = "escalated"
        BY DEF UnsafeIsHandedOff
      <3> QED BY <1>5, <2>3 DEF IInv, UnsafeIsHandedOff, StartLookup, convVars
    <2>10. grants' = grants /\ boots' = boots /\ OneLiveGrant'
      BY <1>t, <1>5 DEF StartLookup, OneLiveGrant
    <2> QED BY <1>s, <1>t, <2>1, <2>3, <2>4, <2>7, <2>8, <2>9, <2>10
            DEF IInv, TypeOK, SessionsStep, SessionsInv, BootLeft
  <1>6. ASSUME NEW c \in Calls, Succeed(c)
        PROVE  IInv'
    BY <1>s, <1>6, EndExecution DEF Succeed, Asking
  <1>7. ASSUME NEW c \in Calls, FailLookup(c)
        PROVE  IInv'
    <2> QED BY <1>7, <1>s, EndExecution DEF FailLookup, Asking, convVars
  <1>8. ASSUME NEW c \in Calls, Distrust(c)
        PROVE  IInv'
    <2>2. calls[c] \in [pc : {"asking", "unsafe"}, exec : Execs]
      BY <1>t, <1>8 DEF Distrust, TypeOK, Call, NoCall
    <2>3. /\ calls' \in [Calls -> Call]
          /\ \A d \in Calls : Asking(d)' <=> Asking(d)
          /\ \A d \in Calls : Asking(d) => calls'[d].exec = calls[d].exec
      BY <1>t, <1>8, <2>2 DEF Distrust, TypeOK, Call, Asking
    <2> QED BY <1>8, <1>s, <2>3, CallsMove DEF Distrust, convVars
  <1>9. ASSUME NEW c \in Calls, EscalateUnsafe(c)
        PROVE  IInv'
    <2> DEFINE s == execs[calls[c].exec].session
    <2>1. Asking(c) /\ s \in Sessions
      BY <1>t, <1>9, HandlerTypes DEF EscalateUnsafe, Asking, IInv, AskingOwns, NoExec
    <2>2. sessions'[s].status = "escalated"
      BY <1>t, <1>9, <2>1, HandOffSteps DEF EscalateUnsafe
    <2> QED BY <1>s, <1>9, <2>1, <2>2, EndExecution DEF EscalateUnsafe
  <1>10. ASSUME NEW s \in Sessions, Close(s)
         PROVE  IInv'
    <2>2. grants' \in [Grants -> Grant] /\ OneLiveGrant'
      BY <1>t, <1>10, Revoked DEF Close, OneLiveGrant
    <2>3. /\ calls' = calls /\ calls' \in [Calls -> Call]
          /\ \A d \in Calls : Asking(d)' <=> Asking(d)
      BY <1>t, <1>10 DEF Close, TypeOK, Asking
    <2> QED BY <1>10, <1>s, <2>2, <2>3, GrantsMove DEF Close
  <1>11. ASSUME NEW g \in Grants, ExpireGrant(g)
         PROVE  IInv'
    <2>2. grants' \in [Grants -> Grant] /\ OneLiveGrant'
      BY <1>t, <1>11 DEF ExpireGrant, TypeOK, Grant, NoGrant, OneLiveGrant
    <2>3. /\ calls' = calls /\ calls' \in [Calls -> Call]
          /\ \A d \in Calls : Asking(d)' <=> Asking(d)
      BY <1>t, <1>11 DEF ExpireGrant, TypeOK, Asking
    <2> QED BY <1>11, <1>s, <2>2, <2>3, GrantsMove DEF ExpireGrant, convVars
  <1>12. CASE Crash
    <2>2. /\ calls' \in [Calls -> Call] /\ \A c \in Calls : ~Asking(c)'
      BY <1>12 DEF Crash, Call, NoCall, Asking
    <2>3. AskingOwns' /\ RunningIsInProgress'
      BY <1>12, <2>2 DEF Crash, AskingOwns, Asking, RunningIsInProgress
    <2>4. UnsafeIsHandedOff' /\ OneLiveGrant'
      BY <1>12 DEF IInv, Crash, UnsafeIsHandedOff, OneLiveGrant
    <2> QED BY <1>t, <1>12, <1>s, <2>2, <2>3, <2>4 DEF Crash, IInv, TypeOK, SessionsStep, SessionsInv, BootLeft
  <1>13. CASE Boot
    <2>2. \A c \in Calls : ~Asking(c) /\ ~Asking(c)'
      BY <1>13 DEF Boot, IInv, AskingOwns, Asking
    <2>3. /\ execs' \in [Execs -> Exec]
          /\ \A x \in Execs : /\ execs'[x].status # "running"
                              /\ execs'[x].status = "unsafe" => execs'[x] = execs[x]
      BY <1>t, <1>13 DEF Boot, TypeOK, Exec, NoExec, Interrupted
    <2>4. /\ grants' \in [Grants -> Grant]
          /\ \A g \in Grants : grants'[g].state = "live" => grants'[g] = grants[g]
      BY <1>t, <1>13 DEF Boot, TypeOK, Grant, NoGrant
    <2>5. AskingOwns' /\ RunningIsInProgress'
      <3>1. AskingOwns'
        BY <2>2 DEF AskingOwns
      <3>2. RunningIsInProgress'
        <4>1. \A c \in Calls : calls'[c].pc \notin {"asking", "unsafe"}
          BY <2>2 DEF Asking
        <4> QED BY <2>3, <4>1 DEF RunningIsInProgress
      <3> QED BY <3>1, <3>2
    <2>6. UnsafeIsHandedOff' /\ OneLiveGrant'
      BY <1>13, <2>3, <2>4 DEF IInv, Boot, UnsafeIsHandedOff, OneLiveGrant
    <2>7. boots' \in 0..MaxBoots
      BY <1>t, <1>13, BootAssumption DEF Boot, TypeOK, IInv, BootLeft
    <2> QED BY <1>t, <1>13, <1>s, <2>3, <2>4, <2>5, <2>6, <2>7
            DEF Boot, IInv, TypeOK, SessionsStep, SessionsInv, BootLeft
  <1>14. CASE UNCHANGED vars
    BY <1>14 DEF vars, convVars, toolVars, IInv, TypeOK, ConvTypeOK, HandoffIsVisible,
       ClosedForReason, AskingOwns, Asking, OneLiveGrant, RunningIsInProgress, UnsafeIsHandedOff, BootLeft
  <1> QED BY <1>1, <1>2, <1>3, <1>4, <1>5, <1>6, <1>7, <1>8, <1>9, <1>10, <1>11, <1>12,
             <1>13, <1>14 DEF Next, Answered

-----------------------------------------------------------------------------
THEOREM Invariance == Spec => []IInv
  BY InitIInv, StepIInv, PTL DEF Spec

\* A session is escalated exactly when the handoff queue has a row for it
\* (closeSession, resolveSessionForMessage, persistPreparedEscalation).
THEOREM HandoffTheorem == Spec => []HandoffIsVisible
  <1>1. IInv => HandoffIsVisible
    BY DEF IInv
  <1> QED BY <1>1, Invariance, PTL

\* At most one grant of a session can be used (replaceForSession).
THEOREM GrantTheorem == Spec => []OneLiveGrant
  <1>1. IInv => OneLiveGrant
    BY DEF IInv
  <1> QED BY <1>1, Invariance, PTL

\* The running rows of a live process are the lookups in progress
\* (ToolExecutionRepo.start and fail, the startup of db/index.ts).
THEOREM RunningTheorem == Spec => []RunningIsInProgress
  <1>1. IInv => RunningIsInProgress
    BY DEF IInv
  <1> QED BY <1>1, Invariance, PTL

\* An untrusted result left its session to a human
\* (failAndEscalateUnsafeResult).
THEOREM UnsafeTheorem == Spec => []UnsafeIsHandedOff
  <1>1. IInv => UnsafeIsHandedOff
    BY DEF IInv
  <1> QED BY <1>1, Invariance, PTL

\* A session that the customer closed never returns to the bot
\* (resolveSessionForMessage, closeUserSession).
THEOREM CloseTheorem == Spec => UserCloseIsFinal
  <1>1. IInv /\ [Next]_vars =>
          [\A s \in Sessions : sessions[s].reason = "user_closed" =>
              \/ sessions'[s].status = "closed" /\ sessions'[s].reason = "user_closed"
              \/ sessions'[s].status = "escalated"]_convVars
    BY SessionsPromise DEF SessionsStep
  <1> QED BY <1>1, Invariance, PTL DEF Spec, UserCloseIsFinal


-----------------------------------------------------------------------------
(* A call of the model (LlmCall).                                          *)

Shown == [attempt : Nat, n : Nat]
AskedOf == [endpoint : Nat, model : Nat]

CallTypeOK ==
    /\ config \in Nat
    /\ client \in [chat : Nat, embed : Nat]
    /\ request \in [kind : {"none", "chat", "stream", "embed"}, bound : Nat, emitted : BOOLEAN, buffer : Seq(Shown),
                    phase : {"idle", "asking", "pausing", "failed", "answered"}]
    /\ asked \in Seq(AskedOf) /\ shown \in Seq(Shown) /\ reply \in Seq(Shown)

\* No client, and no embedding call, is of a configuration still to come; the
\* two clients are of the same one.
NoneAhead ==
    /\ client.chat <= config /\ request.bound <= config
    /\ client.embed \in {0, client.chat}

\* The buffer holds what was shown, and nothing was shown of a call that waits
\* to be tried again.
ShownIsBuffer ==
    /\ shown = request.buffer
    /\ ~request.emitted => shown = <<>>
    /\ request.emitted => request.kind = "stream"
    /\ request.phase \in {"idle", "pausing"} => ~request.emitted /\ Attempt < MaxRetries

\* Nothing is asked before the first attempt.
AskedOnce == request.phase = "idle" <=> asked = <<>>

CallInv == CallTypeOK /\ NoneAhead /\ ShownIsBuffer /\ AskedOnce /\ ReplyIsOneAnswer

CallAssumption == MaxRetries \in Nat \ {0} /\ MaxBytes \in Nat

LEMMA CallStart ==
  ASSUME CallAssumption, CallInit
  PROVE  CallInv
  BY DEF CallAssumption, CallInit, CallInv, CallTypeOK, NoneAhead, ShownIsBuffer, AskedOnce,
         ReplyIsOneAnswer, Attempt, Shown, AskedOf

\* ensureFresh.
LEMMA FreshClient ==
  ASSUME CallInv
  PROVE  /\ EnsureFresh \in [chat : Nat, embed : Nat]
         /\ EnsureFresh.chat = config /\ EnsureFresh.embed \in {0, config}
  BY DEF CallInv, CallTypeOK, NoneAhead, EnsureFresh


LEMMA AskCalls ==
  ASSUME CallAssumption, CallInv, Ask
  PROVE  CallInv'
  <1>1. PICK kind \in {"chat", "stream", "embed"} :
           /\ client' = IF kind = "embed" /\ EnsureFresh.embed = 0
                        THEN [EnsureFresh EXCEPT !.embed = config] ELSE EnsureFresh
           /\ request' = [request EXCEPT !.kind = kind, !.bound = client'.embed, !.phase = "asking"]
           /\ asked' = <<[endpoint |-> IF kind = "embed" THEN client'.embed ELSE client'.chat, model |-> config]>>
    BY DEF Ask
  <1>2. /\ request.phase = "idle" /\ shown = <<>> /\ request.buffer = <<>>
        /\ config' = config /\ shown' = shown /\ reply' = reply
    BY DEF Ask, CallInv, ShownIsBuffer
  <1>3. /\ client' \in [chat : Nat, embed : Nat]
        /\ client'.chat = config /\ client'.embed \in {0, config}
        /\ kind = "embed" => client'.embed = config
    BY <1>1, FreshClient DEF CallInv, CallTypeOK
  <1>4. asked' = <<[endpoint |-> config, model |-> config]>>
    BY <1>1, <1>3
  <1>5. /\ request'.phase = "asking" /\ request'.buffer = <<>> /\ request'.bound \in {0, config}
        /\ request'.emitted = request.emitted
        /\ request' \in [kind : {"none", "chat", "stream", "embed"}, bound : Nat, emitted : BOOLEAN,
                         buffer : Seq(Shown), phase : {"idle", "asking", "pausing", "failed", "answered"}]
    BY <1>1, <1>2, <1>3 DEF CallInv, CallTypeOK
  <1>6. CallTypeOK' /\ AskedOnce'
    BY <1>2, <1>3, <1>4, <1>5 DEF CallInv, CallTypeOK, AskedOf, AskedOnce
  <1>7. NoneAhead' /\ ShownIsBuffer'
    BY <1>2, <1>3, <1>5 DEF CallInv, CallTypeOK, NoneAhead, ShownIsBuffer
  <1>8. ReplyIsOneAnswer'
    <2>1. Len(asked') = 1 /\ DOMAIN asked' = {1} /\ asked'[1] = [endpoint |-> config, model |-> config]
      BY <1>4
    <2>2. shown' = <<>> /\ Len(shown') = 0 /\ DOMAIN shown' = {}
      BY <1>2
    <2>3. config <= config
      BY DEF CallInv, CallTypeOK
    <2>. QED  BY <1>5, <2>1, <2>2, <2>3 DEF ReplyIsOneAnswer, Attempt, CallAssumption
  <1>. QED  BY <1>6, <1>7, <1>8 DEF CallInv

\* runWithRetry pauses only where another attempt is allowed and nothing was shown.
LEMMA FailedCalls ==
  ASSUME CallInv, NEW req, req = request \/ req = [request EXCEPT !.emitted = TRUE],
         req.emitted => req.kind = "stream"
  PROVE  /\ Failed(req).kind = req.kind /\ Failed(req).bound = req.bound
         /\ Failed(req).emitted = req.emitted /\ Failed(req).buffer = req.buffer
         /\ Failed(req).phase \in {"pausing", "failed"}
         /\ Failed(req).phase = "pausing" => Attempt < MaxRetries /\ ~req.emitted
  BY DEF Failed, ShouldRetry, CallInv, CallTypeOK


LEMMA FailCalls ==
  ASSUME CallAssumption, CallInv, Fail
  PROVE  CallInv'
  <1>1. /\ request' = Failed(request) /\ request.phase = "asking"
        /\ UNCHANGED <<config, client, asked, shown, reply>>
    BY DEF Fail
  <1>2. /\ request'.kind = request.kind /\ request'.bound = request.bound
        /\ request'.emitted = request.emitted /\ request'.buffer = request.buffer
        /\ request'.phase \in {"pausing", "failed"}
        /\ request'.phase = "pausing" => Attempt < MaxRetries /\ ~request.emitted
    BY <1>1, FailedCalls DEF CallInv, ShownIsBuffer
  <1>3. request' \in [kind : {"none", "chat", "stream", "embed"}, bound : Nat, emitted : BOOLEAN,
                      buffer : Seq(Shown), phase : {"idle", "asking", "pausing", "failed", "answered"}]
    BY <1>1, <1>2 DEF CallInv, CallTypeOK, Failed
  <1>. QED  BY <1>1, <1>2, <1>3
            DEF CallInv, CallTypeOK, NoneAhead, ShownIsBuffer, AskedOnce, ReplyIsOneAnswer, Attempt

LEMMA TokenCalls ==
  ASSUME CallAssumption, CallInv, Token
  PROVE  CallInv'
  <1>. DEFINE token == [attempt |-> Attempt, n |-> Len(request.buffer) + 1]
              taken == [request EXCEPT !.emitted = TRUE, !.buffer = Append(@, token)]
  <1>1. /\ request.phase = "asking" /\ request.kind = "stream"
        /\ UNCHANGED <<config, client, asked, reply>>
        /\ shown = request.buffer /\ asked # <<>>
        /\ request.buffer \in Seq(Shown) /\ Len(request.buffer) \in Nat
        /\ Attempt \in Nat
    BY DEF Token, CallInv, CallTypeOK, ShownIsBuffer, AskedOnce, Attempt
  <1>2. CASE token.n <= MaxBytes /\ request' = taken /\ shown' = Append(shown, token)
    <2>1. /\ request'.kind = "stream" /\ request'.phase = "asking" /\ request'.emitted = TRUE
          /\ request'.bound = request.bound /\ request'.buffer = Append(request.buffer, token)
          /\ request' \in [kind : {"none", "chat", "stream", "embed"}, bound : Nat, emitted : BOOLEAN,
                           buffer : Seq(Shown), phase : {"idle", "asking", "pausing", "failed", "answered"}]
      <3>1. token \in Shown /\ Append(request.buffer, token) \in Seq(Shown)
        BY <1>1 DEF Shown
      <3>2. request' = [request EXCEPT !.emitted = TRUE, !.buffer = Append(request.buffer, token)]
        BY <1>2
      <3>. HIDE DEF token, taken
      <3>. QED  BY <1>1, <3>1, <3>2 DEF CallInv, CallTypeOK
    <2>2. /\ Len(shown') = Len(shown) + 1 /\ Len(shown') <= MaxBytes /\ DOMAIN shown' = 1 .. Len(shown) + 1
          /\ \A i \in 1 .. Len(shown) : shown'[i] = shown[i]
          /\ shown'[Len(shown) + 1] = [attempt |-> Attempt, n |-> Len(shown) + 1]
      BY <1>1, <1>2
    <2>3. \A i \in DOMAIN shown' : shown'[i] = [attempt |-> Attempt, n |-> i]
      BY <1>1, <2>2 DEF CallInv, ReplyIsOneAnswer
    <2>4. ReplyIsOneAnswer'
      BY <1>1, <2>1, <2>2, <2>3 DEF CallInv, ReplyIsOneAnswer, Attempt
    <2>5. CallTypeOK' /\ NoneAhead' /\ ShownIsBuffer' /\ AskedOnce'
      BY <1>1, <1>2, <2>1 DEF CallInv, CallTypeOK, NoneAhead, ShownIsBuffer, AskedOnce, Shown
    <2>. QED  BY <2>4, <2>5 DEF CallInv
  <1>3. CASE request' = Failed([request EXCEPT !.emitted = TRUE]) /\ UNCHANGED shown
    <2>1. /\ request'.kind = "stream" /\ request'.bound = request.bound
          /\ request'.emitted = TRUE /\ request'.buffer = request.buffer /\ request'.phase = "failed"
      BY <1>1, <1>3 DEF Failed, ShouldRetry, CallInv, CallTypeOK
    <2>2. request' \in [kind : {"none", "chat", "stream", "embed"}, bound : Nat, emitted : BOOLEAN,
                        buffer : Seq(Shown), phase : {"idle", "asking", "pausing", "failed", "answered"}]
      BY <1>1, <1>3, <2>1 DEF CallInv, CallTypeOK, Failed
    <2>. QED  BY <1>1, <1>3, <2>1, <2>2
              DEF CallInv, CallTypeOK, NoneAhead, ShownIsBuffer, AskedOnce, ReplyIsOneAnswer, Attempt
  <1>. QED  BY <1>2, <1>3 DEF Token

LEMMA AnswerCalls ==
  ASSUME CallAssumption, CallInv, Answer
  PROVE  CallInv'
  <1>1. /\ request.phase = "asking" /\ request' = [request EXCEPT !.phase = "answered"]
        /\ reply' = IF request.kind = "stream" THEN request.buffer ELSE <<[attempt |-> Attempt, n |-> 1]>>
        /\ UNCHANGED <<config, client, asked, shown>>
        /\ shown = request.buffer /\ Attempt \in Nat
    BY DEF Answer, CallInv, CallTypeOK, ShownIsBuffer, Attempt
  <1>2. /\ request'.kind = request.kind /\ request'.phase = "answered" /\ request'.bound = request.bound
        /\ request'.emitted = request.emitted /\ request'.buffer = request.buffer
        /\ request' \in [kind : {"none", "chat", "stream", "embed"}, bound : Nat, emitted : BOOLEAN,
                         buffer : Seq(Shown), phase : {"idle", "asking", "pausing", "failed", "answered"}]
    BY <1>1 DEF CallInv, CallTypeOK
  <1>3. reply' \in Seq(Shown) /\ \A i \in DOMAIN reply' : reply'[i].attempt = Attempt
    <2>1. CASE request.kind = "stream"
      BY <1>1, <2>1 DEF CallInv, CallTypeOK, ReplyIsOneAnswer
    <2>2. CASE request.kind # "stream"
      <3>1. reply' = <<[attempt |-> Attempt, n |-> 1]>> /\ [attempt |-> Attempt, n |-> 1] \in Shown
        BY <1>1, <2>2 DEF Shown
      <3>. QED  BY <3>1
    <2>. QED  BY <2>1, <2>2
  <1>4. ReplyIsOneAnswer'
    BY <1>1, <1>2, <1>3 DEF CallInv, ReplyIsOneAnswer, Attempt
  <1>. QED  BY <1>1, <1>2, <1>3, <1>4
            DEF CallInv, CallTypeOK, NoneAhead, ShownIsBuffer, AskedOnce


\* A call is tried again only when nothing was shown of the attempt before.
LEMMA RetryCalls ==
  ASSUME CallAssumption, CallInv, Retry
  PROVE  CallInv'
  <1>. DEFINE next == [endpoint |-> Endpoint, model |-> config]
  <1>1. /\ request.phase = "pausing" /\ ~request.emitted /\ shown = <<>>
        /\ request' = [request EXCEPT !.phase = "asking", !.buffer = <<>>]
        /\ asked' = Append(asked, next)
        /\ UNCHANGED <<config, client, shown, reply>>
        /\ asked # <<>> /\ asked \in Seq(AskedOf) /\ Attempt < MaxRetries
    BY DEF Retry, CallInv, CallTypeOK, ShownIsBuffer, AskedOnce
  <1>2. /\ request'.kind = request.kind /\ request'.phase = "asking" /\ request'.bound = request.bound
        /\ request'.emitted = request.emitted /\ request'.buffer = <<>>
        /\ request' \in [kind : {"none", "chat", "stream", "embed"}, bound : Nat, emitted : BOOLEAN,
                         buffer : Seq(Shown), phase : {"idle", "asking", "pausing", "failed", "answered"}]
    BY <1>1 DEF CallInv, CallTypeOK
  <1>3. next \in AskedOf /\ next.endpoint <= next.model
    BY DEF CallInv, CallTypeOK, NoneAhead, Endpoint, AskedOf
  <1>. HIDE DEF next
  <1>4. /\ asked' \in Seq(AskedOf) /\ Len(asked') = Len(asked) + 1 /\ DOMAIN asked' = 1 .. Len(asked) + 1
        /\ \A i \in 1 .. Len(asked) : asked'[i] = asked[i]
        /\ asked'[Len(asked) + 1] = next /\ asked' # <<>> /\ Len(asked) \in Nat \ {0}
    BY <1>1, <1>3
  <1>5. Len(asked') <= MaxRetries
    BY <1>1, <1>4 DEF Attempt, CallAssumption
  <1>6. ReplyIsOneAnswer'
    <2>1. \A i \in DOMAIN asked' : asked'[i].endpoint <= asked'[i].model
      BY <1>1, <1>3, <1>4 DEF CallInv, ReplyIsOneAnswer
    <2>2. asked'[1].endpoint = asked'[1].model
      BY <1>1, <1>4 DEF CallInv, ReplyIsOneAnswer
    <2>. QED  BY <1>1, <1>2, <1>5, <2>1, <2>2 DEF CallInv, ReplyIsOneAnswer, Attempt
  <1>. QED  BY <1>1, <1>2, <1>4, <1>6
            DEF CallInv, CallTypeOK, NoneAhead, ShownIsBuffer, AskedOnce

LEMMA OthersCall ==
  ASSUME CallAssumption, CallInv, ChangeConfig \/ OtherCall
  PROVE  CallInv'
  <1>1. CASE ChangeConfig
    BY <1>1 DEF ChangeConfig, CallInv, CallTypeOK, NoneAhead, ShownIsBuffer, AskedOnce, ReplyIsOneAnswer, Attempt
  <1>2. CASE OtherCall
    <2>1. /\ client' \in [chat : Nat, embed : Nat] /\ client'.chat = config /\ client'.embed \in {0, config}
          /\ UNCHANGED <<config, request, asked, shown, reply>>
      BY <1>2, FreshClient DEF OtherCall
    <2>. QED  BY <2>1 DEF CallInv, CallTypeOK, NoneAhead, ShownIsBuffer, AskedOnce, ReplyIsOneAnswer, Attempt
  <1>. QED  BY <1>1, <1>2

LEMMA CallStep ==
  ASSUME CallAssumption, CallInv, [CallNext]_callVars
  PROVE  CallInv'
  <1>1. CASE CallNext
    BY <1>1, AskCalls, FailCalls, TokenCalls, AnswerCalls, RetryCalls, OthersCall DEF CallNext
  <1>2. CASE UNCHANGED callVars
    BY <1>2 DEF callVars, CallInv, CallTypeOK, NoneAhead, ShownIsBuffer, AskedOnce, ReplyIsOneAnswer, Attempt
  <1>. QED  BY <1>1, <1>2

\* For any number of attempts, tokens and changes of the configuration, and
\* whatever other calls do meanwhile: the caller is shown the tokens of one
\* attempt and returned what it was shown (chatStream, runWithRetry).
THEOREM ReplyTheorem ==
  ASSUME MaxRetries \in Nat \ {0}, MaxBytes \in Nat
  PROVE  CallInit /\ [][CallNext]_callVars => []ReplyIsOneAnswer
  <1>1. CallAssumption
    BY DEF CallAssumption
  <1>2. CallInit => CallInv
    BY <1>1, CallStart
  <1>3. CallInv /\ [CallNext]_callVars => CallInv'
    BY <1>1, CallStep
  <1>4. CallInv => ReplyIsOneAnswer
    BY DEF CallInv
  <1>. QED  BY <1>2, <1>3, <1>4, PTL


-----------------------------------------------------------------------------
(* The packet of an escalation (Triage).                                   *)

LEMMA LeastNumber == ASSUME NEW S \in SUBSET Nat, S # {}
                     PROVE  Min(S) \in S /\ \A k \in S : Min(S) <= k
  <1>1. PICK m \in S : \A k \in S : ~(<<k, m>> \in OpToRel(<, Nat))
    BY WFMin, NatLessThanWellFounded
  <1>2. \A k \in S : ~(k < m)
    BY <1>1 DEF OpToRel
  <1>3. \A k \in S : m <= k
    BY <1>2
  <1>. QED  BY <1>3 DEF Min

\* determineReasonCode: the first reason that applies, when all before it do not.
LEMMA ReasonIsFirst ==
  ASSUME NEW text, NEW status
  PROVE  \E i \in 1 .. 10 : /\ ReasonCode(text, status) = ReasonOrder[i]
                            /\ Applies(ReasonOrder[i], text, status)
                            /\ \A j \in 1 .. i - 1 : ~Applies(ReasonOrder[j], text, status)
  <1>. DEFINE R == {i \in DOMAIN ReasonOrder : Applies(ReasonOrder[i], text, status)}
  <1>1. DOMAIN ReasonOrder = 1 .. 10 /\ ReasonOrder[10] = "low_confidence_or_coverage_gap"
    BY DEF ReasonOrder
  <1>2. 10 \in R /\ R \in SUBSET Nat
    <2>1. Applies("low_confidence_or_coverage_gap", text, status)
      BY DEF Applies
    <2>. QED  BY <1>1, <2>1
  <1>3. Min(R) \in R /\ \A k \in R : Min(R) <= k
    <2>. HIDE DEF R
    <2>. QED  BY <1>2, LeastNumber
  <1>4. \A j \in 1 .. Min(R) - 1 : j \notin R
    <2>. HIDE DEF R
    <2>1. PICK m \in Nat : m = Min(R)
      BY <1>2, <1>3
    <2>2. \A k \in R : k \in Nat /\ m <= k
      BY <1>2, <1>3, <2>1
    <2>3. \A j \in 1 .. m - 1 : j \notin R
      BY <2>2
    <2>. QED  BY <2>1, <2>3
  <1>. QED  BY <1>1, <1>3, <1>4 DEF ReasonCode

\* A reason and what the rules before it exclude.
LEMMA ReasonTells ==
  ASSUME NEW text, NEW status
  PROVE  LET reason == ReasonCode(text, status)
             security == {"unauthorized_transaction", "account_security"}
         IN  /\ reason \in security <=> "unauthorized" \in text \/ "accountSecurity" \in text
             /\ reason \in security \cup {"safety_risk"} <=>
                   "unauthorized" \in text \/ "accountSecurity" \in text \/ "safety" \in text
             /\ reason = "knowledge_conflict" => status = "conflicting" \/ "conflict" \in text
             /\ reason = "unsupported_business_action" => status = "high_risk" \/ "private" \in text
  <1>1. PICK i \in 1 .. 10 : /\ ReasonCode(text, status) = ReasonOrder[i]
                             /\ Applies(ReasonOrder[i], text, status)
                             /\ \A j \in 1 .. i - 1 : ~Applies(ReasonOrder[j], text, status)
    BY ReasonIsFirst
  <1>2. /\ ReasonOrder[1] = "unauthorized_transaction" /\ ReasonOrder[2] = "account_security"
        /\ ReasonOrder[3] = "safety_risk" /\ ReasonOrder[4] = "knowledge_conflict"
        /\ ReasonOrder[5] = "complaint" /\ ReasonOrder[6] = "unsupported_business_action"
        /\ ReasonOrder[7] = "user_requested_human" /\ ReasonOrder[8] = "frustration"
        /\ ReasonOrder[9] = "model_requested_escalation"
        /\ ReasonOrder[10] = "low_confidence_or_coverage_gap"
    BY DEF ReasonOrder
  <1>3. /\ Applies("unauthorized_transaction", text, status) <=> "unauthorized" \in text
        /\ Applies("account_security", text, status) <=> "accountSecurity" \in text
        /\ Applies("safety_risk", text, status) <=> "safety" \in text
        /\ Applies("knowledge_conflict", text, status) <=> status = "conflicting" \/ "conflict" \in text
        /\ Applies("unsupported_business_action", text, status) <=> status = "high_risk" \/ "private" \in text
    BY DEF Applies
  <1>4. CASE i = 1
    BY <1>1, <1>2, <1>3, <1>4
  <1>5. CASE i = 2
    BY <1>1, <1>2, <1>3, <1>5
  <1>6. CASE i = 3
    BY <1>1, <1>2, <1>3, <1>6
  <1>7. CASE i \in 4 .. 10
    <2>1. /\ "unauthorized" \notin text /\ "accountSecurity" \notin text /\ "safety" \notin text
      BY <1>1, <1>2, <1>3, <1>7
    <2>. QED  BY <1>1, <1>2, <1>3, <1>7, <2>1
  <1>. QED  BY <1>4, <1>5, <1>6, <1>7

\* determineRiskFlags, determinePriority, determineQueue.
LEMMA RulesAgree ==
  ASSUME NEW text, NEW int \in {"none", "refund", "general"}, NEW status
  PROVE  LET flags == RiskFlags(text, status)
         IN  /\ Priority(text, flags) = "urgent" <=>
                   "unauthorized" \in text \/ "accountSecurity" \in text \/ "safety" \in text
             /\ status \in {"conflicting", "high_risk"} \/ "conflict" \in text \/ "private" \in text
                   => Priority(text, flags) \in {"urgent", "high"}
             /\ Queue(Category(text, int)) = "account_security" <=>
                   "unauthorized" \in text \/ "accountSecurity" \in text

  <1>. DEFINE flags == RiskFlags(text, status)
  <1>1. /\ \A f \in {"accountSecurity", "unauthorized", "safety"} : f \in flags <=> f \in text
        /\ status = "conflicting" \/ "conflict" \in text => "knowledge_conflict" \in flags
        /\ status = "high_risk" \/ "private" \in text => "private_data" \in flags
    BY DEF RiskFlags
  <1>. HIDE DEF flags
  <1>2. Has(flags, {"accountSecurity", "unauthorized", "safety"}) <=>
           "unauthorized" \in text \/ "accountSecurity" \in text \/ "safety" \in text
    BY <1>1 DEF Has
  <1>3. /\ Priority(text, flags) = "urgent" <=> Has(flags, {"accountSecurity", "unauthorized", "safety"})
        /\ Has(flags, {"knowledge_conflict", "private_data"}) /\ Priority(text, flags) # "urgent"
              => Priority(text, flags) = "high"
    BY DEF Priority
  <1>4. "knowledge_conflict" \in flags \/ "private_data" \in flags
           => Has(flags, {"knowledge_conflict", "private_data"})
    BY DEF Has
  <1>5. Has(text, {"accountSecurity", "unauthorized"}) <=> "unauthorized" \in text \/ "accountSecurity" \in text
    BY DEF Has
  <1>6. Category(text, int) = "account_security" <=> Has(text, {"accountSecurity", "unauthorized"})
    <2>1. CASE Has(text, {"accountSecurity", "unauthorized"})
      BY <2>1 DEF Category
    <2>2. CASE ~Has(text, {"accountSecurity", "unauthorized"})
      BY <2>2 DEF Category
    <2>. QED  BY <2>1, <2>2
  <1>7. Category(text, int) \in {"account_security", "complaint", "refund", "order", "technical", "general"}
    BY DEF Category
  <1>8. \A c \in {"account_security", "complaint", "refund", "order", "technical", "general"} :
           Queue(c) = "account_security" <=> c = "account_security"
    BY DEF Queue
  <1>. QED
    <2>1. flags = RiskFlags(text, status)
      BY DEF flags
    <2>2. Queue(Category(text, int)) = "account_security" <=>
             "unauthorized" \in text \/ "accountSecurity" \in text
      BY <1>5, <1>6, <1>7, <1>8
    <2>. QED  BY <1>1, <1>2, <1>3, <1>4, <2>1, <2>2


\* A packet is that of the rules, or an enriched one: with the facts, the
\* missing information and the summary of a model.
OfTheRules(pack, all, int, status) ==
    \/ pack = Packet(all, int, status)
    \/ \E facts \in SUBSET {f \in [message : Messages, quote : Messages] : Cites(f)}, missing \in SUBSET Wanted,
          mode \in {"llm_json_schema", "llm_json_object", "llm_text"} :
             pack = [Packet(all, int, status) EXCEPT !.facts = facts, !.missing = missing,
                                                     !.summary = "model", !.mode = mode]

PacketInv ==
    /\ intent \in {"none", "refund", "general"} /\ attempt \in Nat \ {0}
    /\ packet = NoPacket \/ OfTheRules(packet, texts, intent, grounding)

LEMMA TriageStarts == TriageInit => PacketInv
  BY DEF TriageInit, PacketInv

LEMMA PacketBuilt ==
  ASSUME PacketInv, BuildPacket
  PROVE  PacketInv'
  <1>1. /\ packet' = Packet(texts, intent, grounding) /\ texts' = texts /\ intent' = intent
        /\ grounding' = grounding /\ attempt' = attempt
    BY DEF BuildPacket
  <1>2. OfTheRules(packet', texts, intent, grounding)
    BY <1>1 DEF OfTheRules
  <1>. QED  BY <1>1, <1>2 DEF PacketInv

\* enrichEscalationPacket.
LEMMA PacketEnriched ==
  ASSUME PacketInv, Enrich
  PROVE  PacketInv'
  <1>. DEFINE p == Packet(texts, intent, grounding)
  <1>1. PICK c \in Candidates :
           packet' = [packet EXCEPT !.facts = {f \in c.facts : Cites(f)}, !.missing = c.missing,
                                    !.summary = "model", !.mode = Formats[attempt]]
    BY DEF Enrich
  <1>2. /\ texts' = texts /\ intent' = intent /\ grounding' = grounding
        /\ packet.mode = "deterministic" /\ attempt <= 3 /\ attempt' = attempt
    BY DEF Enrich, Enriching, Formats
  <1>3. /\ {f \in c.facts : Cites(f)} \in SUBSET {f \in [message : Messages, quote : Messages] : Cites(f)}
        /\ c.missing \in SUBSET Wanted
    BY DEF Candidates
  <1>4. packet = p
    <2>1. packet # NoPacket
      BY <1>2 DEF NoPacket
    <2>2. ASSUME NEW facts, NEW missing, NEW mode \in {"llm_json_schema", "llm_json_object", "llm_text"},
                 packet = [p EXCEPT !.facts = facts, !.missing = missing, !.summary = "model", !.mode = mode]
          PROVE  FALSE
      <3>1. packet.mode = mode
        BY <2>2 DEF Packet
      <3>. QED  BY <1>2, <3>1
    <2>. QED  BY <2>1, <2>2 DEF PacketInv, OfTheRules
  <1>5. Formats[attempt] \in {"llm_json_schema", "llm_json_object", "llm_text"}
    <2>1. attempt \in {1, 2, 3}
      BY <1>2 DEF PacketInv
    <2>. QED  BY <2>1 DEF Formats
  <1>6. packet' = [p EXCEPT !.facts = {f \in c.facts : Cites(f)}, !.missing = c.missing,
                            !.summary = "model", !.mode = Formats[attempt]]
    BY <1>1, <1>4
  <1>7. OfTheRules(packet', texts, intent, grounding)
    BY <1>3, <1>5, <1>6 DEF OfTheRules
  <1>. QED  BY <1>2, <1>7 DEF PacketInv


LEMMA PacketStep ==
  ASSUME PacketInv, [TriageNext]_triageVars
  PROVE  PacketInv'
  <1>1. CASE TryNextFormat \/ GiveUp \/ UNCHANGED triageVars
    <2>1. /\ UNCHANGED <<texts, intent, grounding, packet>> /\ attempt' \in {attempt, attempt + 1}
      BY <1>1 DEF TryNextFormat, GiveUp, triageVars
    <2>. QED  BY <2>1 DEF PacketInv
  <1>. QED  BY <1>1, PacketBuilt, PacketEnriched DEF TriageNext

LEMMA PacketAgrees == PacketInv => TriageAgrees
  <1>. SUFFICES ASSUME PacketInv, packet # NoPacket
                PROVE  TriageAgrees
    BY DEF TriageAgrees
  <1>. DEFINE text == UNION {texts[m] : m \in Messages}
              flags == RiskFlags(text, grounding)
              p == Packet(texts, intent, grounding)
  <1>1. OfTheRules(packet, texts, intent, grounding)
    BY DEF PacketInv
  <1>2. /\ packet.reason = ReasonCode(text, grounding) /\ packet.priority = Priority(text, flags)
        /\ packet.queue = Queue(Category(text, intent)) /\ Routed(packet) = Routed(p)
        /\ packet.mode = "deterministic" => packet = p
        /\ packet.facts \in SUBSET {f \in [message : Messages, quote : Messages] : Cites(f)}
    <2>. DEFINE quotes == {[message |-> m, quote |-> m] : m \in Visible}
    <2>1. CASE packet = p
      <3>1. quotes \in SUBSET {f \in [message : Messages, quote : Messages] : Cites(f)}
        BY DEF Cites, Messages
      <3>2. p.facts = quotes /\ p.reason = ReasonCode(text, grounding) /\ p.priority = Priority(text, flags)
            /\ p.queue = Queue(Category(text, intent))
        BY DEF Packet
      <3>. HIDE DEF p, quotes
      <3>. QED  BY <2>1, <3>1, <3>2
    <2>2. ASSUME NEW facts \in SUBSET {f \in [message : Messages, quote : Messages] : Cites(f)}, NEW missing,
                 NEW mode \in {"llm_json_schema", "llm_json_object", "llm_text"},
                 packet = [p EXCEPT !.facts = facts, !.missing = missing, !.summary = "model", !.mode = mode]
          PROVE  /\ packet.reason = ReasonCode(text, grounding) /\ packet.priority = Priority(text, flags)
                 /\ packet.queue = Queue(Category(text, intent)) /\ Routed(packet) = Routed(p)
                 /\ packet.mode # "deterministic" /\ packet.facts = facts
      BY <2>2 DEF Packet, Routed
    <2>. QED  BY <1>1, <2>1, <2>2 DEF OfTheRules
  <1>3. \A f \in packet.facts : f.message \in Visible /\ f.quote = f.message
    BY <1>2 DEF Cites
  <1>. HIDE DEF text
  <1>4. /\ ReasonCode(text, grounding) \in {"unauthorized_transaction", "account_security"} <=>
              "unauthorized" \in text \/ "accountSecurity" \in text
        /\ ReasonCode(text, grounding) \in {"unauthorized_transaction", "account_security"} \cup {"safety_risk"} <=>
              "unauthorized" \in text \/ "accountSecurity" \in text \/ "safety" \in text
        /\ ReasonCode(text, grounding) \in {"knowledge_conflict", "unsupported_business_action"} =>
              grounding \in {"conflicting", "high_risk"} \/ "conflict" \in text \/ "private" \in text
    BY ReasonTells
  <1>5. /\ Priority(text, flags) = "urgent" <=>
              "unauthorized" \in text \/ "accountSecurity" \in text \/ "safety" \in text
        /\ grounding \in {"conflicting", "high_risk"} \/ "conflict" \in text \/ "private" \in text
              => Priority(text, flags) \in {"urgent", "high"}
        /\ Queue(Category(text, intent)) = "account_security" <=>
              "unauthorized" \in text \/ "accountSecurity" \in text
    BY RulesAgree DEF PacketInv
  <1>. HIDE DEF flags, p
  <1>6. packet.reason \in {"knowledge_conflict", "unsupported_business_action"} => packet.priority = "high"
    <2>1. "knowledge_conflict" \notin {"unauthorized_transaction", "account_security"} \cup {"safety_risk"}
      OBVIOUS
    <2>2. "unsupported_business_action" \notin {"unauthorized_transaction", "account_security"} \cup {"safety_risk"}
      OBVIOUS
    <2>. QED  BY <1>2, <1>4, <1>5, <2>1, <2>2
  <1>. QED  BY <1>2, <1>3, <1>4, <1>5, <1>6 DEF TriageAgrees, p

\* For every set of patterns and whatever the model answers in what time: the
\* rules agree with each other, the model overrules none of them, and a fact
\* quotes a message it was shown (determineReasonCode, enrichEscalationPacket).
THEOREM TriageTheorem == TriageInit /\ [][TriageNext]_triageVars => []TriageAgrees
  <1>. QED  BY TriageStarts, PacketStep, PacketAgrees, PTL
=============================================================================
