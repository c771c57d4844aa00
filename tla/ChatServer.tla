------------------------------ MODULE ChatServer ------------------------------
(***************************************************************************)
(* The chat endpoint (routes/chat.ts): a message of the customer becomes a *)
(* stored question, a streamed answer, a stored reply, a retrieval trace   *)
(* and perhaps a handoff and a review item.  The handler loses the thread  *)
(* wherever it awaits a provider; the statements between two awaits are    *)
(* one step, except that saving the question is a step of its own.         *)
(*                                                                         *)
(* Conversation is the abstract view of the same turns: what they do to    *)
(* the sessions table.                                                     *)
(***************************************************************************)
EXTENDS Naturals, Sequences, FiniteSets

CONSTANTS
    Sessions,  \* session ids
    Turns,     \* chat requests, each used once
    MaxLookups,  \* bound on the results of order lookups that are stored
    MaxRare    \* bound on the events beside sending and answering, together: crashes,
               \* lost connections, failed inserts of a trace, half hours without a
               \* message, ratings, new conversations and visits to the history

ASSUME ChatAssumption ==
    Turns \subseteq (Nat \ {0}) /\ IsFiniteSet(Turns) /\ MaxLookups \in Nat /\ MaxRare \in Nat

VARIABLES
    up, sessions, handoffs,  \* as in Conversation
    messages,  \* the messages table, by row id
    traces,    \* retrieval_traces
    reviews,   \* knowledge_review_items, by the question's row id (FaqKnowledge
               \* has what becomes of them)
    turns,     \* the handlers
    wire,      \* what each request has sent to the browser
    rare       \* how many of those events there were

serverVars == <<up, sessions, handoffs, messages, traces, reviews, turns, wire, rare>>

Ids == 1..(2 * Cardinality(Turns) + MaxLookups)
NoTurn == [pc |-> "none"]
Awaiting == {"classifying", "generating", "preparing"}
\* One user and one assistant row for a turn, and a row for the result of an
\* order lookup, which replies to no message.  mode: how a reply was made.
Message == [session : Sessions, role : {"user", "assistant"}, to : Ids \cup {0},
            mode : {"question", "order", "canned", "generated", "result"}, escalated : BOOLEAN,
            rating : {"none", "low", "high"}]
\* A request and its connection.  named: the session the browser asks for.
Unsent == [state |-> "unsent", named |-> "none", events |-> <<>>, got |-> 0]
NoReview == "none"
Results(ms) == {m \in DOMAIN ms : ms[m].mode = "result"}

\* What the conversation's life cycle sees of a handler.
LifeTurns == [t \in Turns |->
    CASE turns[t].pc \in {"ordering", "refusing", "classifying", "generating"} ->
           [pc |-> "answering", session |-> turns[t].session, answered |-> FALSE]
      [] turns[t].pc = "preparing" ->
           [pc |-> "preparing", session |-> turns[t].session, answered |-> turns[t].mode # "empty"]
      [] OTHER -> NoTurn]

Life == INSTANCE Conversation WITH turns <- LifeTurns

ServerTypeOK ==
    /\ Life!ConvTypeOK
    /\ \A m \in DOMAIN messages : messages[m] \in Message
    /\ traces \subseteq [user : Ids, assistant : Ids \cup {0}]
    /\ reviews \in [Ids -> {NoReview, "unrated", "low", "high"}]
    /\ rare \in 0..MaxRare

ServerInit ==
    /\ up = TRUE /\ handoffs = {}
    /\ sessions = [s \in Sessions |-> [status |-> "absent", reason |-> "none", idle |-> FALSE]]
    /\ messages = <<>> /\ traces = {}
    /\ reviews = [u \in Ids |-> NoReview]
    /\ turns = [t \in Turns |-> NoTurn]
    /\ wire = [t \in Turns |-> Unsent]
    /\ rare = 0

-----------------------------------------------------------------------------
Rarely == rare < MaxRare /\ rare' = rare + 1

\* sseSend: a browser that is gone misses what is written to it.
Write(t, events) == wire' =
    IF wire[t].state = "open" THEN [wire EXCEPT ![t].events = @ \o events] ELSE wire

Event(type, m) == [type |-> type, message |-> m]
Token(text) == Event(text, 0)
Answered(m) == <<Event("done", m), Event("end", 0)>>
Failing == <<Event("error", 0), Event("end", 0)>>

End(t) == turns' = [turns EXCEPT ![t] = [pc |-> "ended"]]
Become(t, pc, mode) == turns' = [turns EXCEPT ![t].pc = pc, ![t].mode = mode]

NextId == Len(messages) + 1
Row(s, role, to, mode, escalated) ==
    [session |-> s, role |-> role, to |-> to, mode |-> mode, escalated |-> escalated, rating |-> "none"]
SaveReply(t, mode, escalated) ==
    messages' = Append(messages, Row(turns[t].session, "assistant", turns[t].user, mode, escalated))

\* finalizeTrace: at most one, only once the question is stored; a failure of
\* the insert is swallowed.
FinalizeTrace(t, m) ==
    \/ ~turns[t].traced /\ UNCHANGED <<traces, rare>>
    \/ turns[t].traced /\ traces' = traces \cup {[user |-> turns[t].user, assistant |-> m]}
                       /\ UNCHANGED rare
    \/ turns[t].traced /\ UNCHANGED traces /\ Rarely

\* captureKnowledgeGapSafely: only when nothing or too little was found; its
\* failure is swallowed.  INSERT OR IGNORE on the question.
CaptureGap(t, captured) == reviews' =
    IF captured /\ reviews[turns[t].user] = NoReview
    THEN [reviews EXCEPT ![turns[t].user] = "unrated"] ELSE reviews

-----------------------------------------------------------------------------
\* The request is refused: rate limit, schema, the database.
Refuse(t) ==
    /\ up /\ wire[t].state = "sent"
    /\ End(t)
    /\ wire' = [wire EXCEPT ![t].state = "open", ![t].events = <<Event("end", 0)>>]
    /\ UNCHANGED <<up, sessions, handoffs, messages, traces, reviews, rare>>

\* resolveSessionForMessage and the insert of the question.  named: the
\* session the browser named, or "none".
Resolve(named, s) ==
    LET found == Life!ExpireInactive(sessions) IN
       IF named # "none" /\ Life!Resumable(found[named])
       THEN s = named /\ sessions' = Life!Touch(Life!Resumed(found, s), s)
       ELSE /\ s = CHOOSE new \in Sessions : found[new].status = "absent"
            /\ found[s].status = "absent"
            /\ sessions' = Life!UpdateStatus(found, s, "active", "none")

Receive(t) ==
    /\ up /\ wire[t].state = "sent"
    /\ \E s \in Sessions, pc \in {"ordering", "refusing", "classifying"} :
          /\ Resolve(wire[t].named, s)
          /\ messages' = Append(messages, Row(s, "user", 0, "question", FALSE))
          /\ turns' = [turns EXCEPT ![t] = [pc |-> pc, session |-> s, user |-> NextId,
                                            mode |-> "none", traced |-> pc = "classifying"]]
    /\ wire' = [wire EXCEPT ![t].state = "open"]
    /\ UNCHANGED <<up, handoffs, traces, reviews, rare>>

\* An order lookup: the reply asks for verification or announces the lookup.
ReplyToOrder(t) ==
    /\ turns[t].pc = "ordering"
    /\ SaveReply(t, "order", FALSE)
    /\ sessions' = Life!Touch(sessions, turns[t].session)
    /\ Write(t, <<Token("whole")>> \o Answered(NextId))
    /\ End(t)
    /\ UNCHANGED <<up, handoffs, traces, reviews, rare>>

\* An explicit request for a human, or a write action: refused and handed off
\* before any retrieval.
RefuseAction(t) ==
    /\ turns[t].pc = "refusing"
    /\ Become(t, "preparing", "canned")
    /\ UNCHANGED <<up, sessions, handoffs, messages, traces, reviews, wire, rare>>

\* Intent and retrieval are back: a direct answer or a refusal is saved, or
\* handed off with a conflict or an unauthorised action, or the model is asked.
SaveAnswer(t, mode, captured) ==
    /\ SaveReply(t, mode, FALSE)
    /\ sessions' = Life!Touch(sessions, turns[t].session)
    /\ FinalizeTrace(t, NextId)
    /\ CaptureGap(t, captured)
    /\ End(t)

Classified(t) ==
    /\ turns[t].pc = "classifying"
    /\ \/ /\ \E captured \in BOOLEAN : SaveAnswer(t, "canned", captured)
          /\ Write(t, <<Token("whole")>> \o Answered(NextId))
          /\ UNCHANGED <<up, handoffs>>
       \/ /\ Become(t, "preparing", "canned") /\ Write(t, <<Token("whole")>>)
          /\ UNCHANGED <<up, sessions, handoffs, messages, traces, reviews, rare>>
       \/ /\ Become(t, "generating", "none")
          /\ UNCHANGED <<up, sessions, handoffs, messages, traces, reviews, wire, rare>>

\* onToken: the browser is shown what the model says while it says it.
Stream(t) ==
    /\ turns[t].pc = "generating" /\ turns[t].mode = "none"
    /\ Become(t, "generating", "shown")
    /\ Write(t, <<Token("part")>>)
    /\ UNCHANGED <<up, sessions, handoffs, messages, traces, reviews, rare>>

\* Mutant: what was shown of a failed answer is kept.
KeepPartial(t) ==
    /\ turns[t].pc = "generating"
    /\ Write(t, Failing) /\ FinalizeTrace(t, 0)
    /\ SaveReply(t, "generated", FALSE) /\ End(t)
    /\ UNCHANGED <<up, sessions, handoffs, reviews>>

\* The model fails, in the middle of its answer or before it: nothing of it
\* is kept, and the question stays without a reply.
StreamFails(t) ==
    /\ turns[t].pc = "generating"
    /\ Write(t, Failing) /\ FinalizeTrace(t, 0)
    /\ End(t)
    /\ UNCHANGED <<up, sessions, handoffs, messages, reviews>>

\* The answer is whole.  marked: it held an ESCALATE line, which the browser
\* has seen and the stored text has not.  A marker or an angry question hands
\* off; an answer with nothing else in it is an error.
StreamEnds(t) ==
    /\ turns[t].pc = "generating"
    /\ \/ /\ turns[t].mode = "shown"
          /\ \E captured \in BOOLEAN : SaveAnswer(t, "generated", captured)
          /\ Write(t, <<Token("whole")>> \o Answered(NextId))
          /\ UNCHANGED <<up, handoffs>>
       \/ /\ turns[t].mode = "shown"
          /\ Become(t, "preparing", "generated")
          /\ \E text \in {"whole", "marked"} : Write(t, <<Token(text)>>)
          /\ UNCHANGED <<up, sessions, handoffs, messages, traces, reviews, rare>>
       \/ /\ Become(t, "preparing", "empty")
          /\ UNCHANGED <<up, sessions, handoffs, messages, traces, reviews, wire, rare>>
       \/ /\ Write(t, Failing) /\ FinalizeTrace(t, 0) /\ End(t)
          /\ UNCHANGED <<up, sessions, handoffs, messages, reviews>>

\* Mutant: the session keeps its status.
HandOffOpen(t) ==
    /\ turns[t].pc = "preparing" /\ turns[t].mode # "empty"
    /\ handoffs' = handoffs \cup {turns[t].session}
    /\ sessions' = Life!Touch(sessions, turns[t].session)
    /\ SaveReply(t, turns[t].mode, TRUE)
    /\ FinalizeTrace(t, NextId) /\ UNCHANGED reviews
    /\ Write(t, Answered(NextId)) /\ End(t)
    /\ UNCHANGED up

\* The packet is prepared: the reply, the log row, the packet and the status
\* are one transaction; then the trace and the gap.  An empty answer is handed
\* off without a reply.
HandOff(t) ==
    /\ turns[t].pc = "preparing"
    /\ Life!PersistEscalation(turns[t].session)
    /\ IF turns[t].mode = "empty"
       THEN /\ Write(t, Failing) /\ FinalizeTrace(t, 0)
            /\ UNCHANGED <<messages, reviews>>
       ELSE /\ SaveReply(t, turns[t].mode, TRUE)
            /\ FinalizeTrace(t, NextId)
            /\ \E captured \in BOOLEAN : CaptureGap(t, captured /\ turns[t].traced)
            /\ Write(t, (IF turns[t].traced THEN <<>> ELSE <<Token("whole")>>) \o Answered(NextId))
    /\ End(t)
    /\ UNCHANGED up

\* The catch of the handler: an await throws.  Headers that are sent already
\* make the error handler break the connection.
Throw(t) ==
    /\ turns[t].pc \in Awaiting
    /\ FinalizeTrace(t, 0)
    /\ Write(t, <<Event("end", 0)>>) /\ End(t)
    /\ UNCHANGED <<up, sessions, handoffs, messages, reviews>>
Handle(t) == \/ Refuse(t) \/ Receive(t) \/ ReplyToOrder(t) \/ RefuseAction(t)
             \/ Classified(t) \/ Stream(t) \/ StreamFails(t) \/ StreamEnds(t)
             \/ HandOff(t) \/ Throw(t)

-----------------------------------------------------------------------------
\* findPreviousUserMessage: the question a reply was stored for; for a reply
\* that names none, the last one before it in its session.
Earlier(ms, m) == {u \in DOMAIN ms : u < m /\ ms[u].session = ms[m].session /\ ms[u].role = "user"}
Answers(ms, m, q) ==
    IF ms[m].to # 0 THEN q = ms[m].to
    ELSE q \in Earlier(ms, m) /\ \A u \in Earlier(ms, m) : u <= q

\* Mutant: a review that is there already is left alone.
RateNewOnly(m, r) ==
    \E q \in DOMAIN messages :
       /\ Answers(messages, m, q)
       /\ messages' = [messages EXCEPT ![m].rating = r]
       /\ reviews' = [reviews EXCEPT ![q] = IF @ = NoReview /\ r = "low" THEN r ELSE @]

\* recordRating: the rating goes to the reply and to the review of its
\* question, whichever reply that was opened for; a low one opens a review where
\* there is none.
RecordRating(m, r) ==
    \E q \in DOMAIN messages :
       /\ Answers(messages, m, q)
       /\ messages' = [messages EXCEPT ![m].rating = r]
       /\ reviews' = [reviews EXCEPT ![q] = IF @ # NoReview \/ r = "low" THEN r ELSE @]

\* The inactivity cutoff passes a session's updated_at.
GrowIdle(s) ==
    /\ sessions[s].status = "active" /\ Rarely
    /\ sessions' = [sessions EXCEPT ![s].idle = TRUE]
    /\ UNCHANGED <<up, handoffs, messages, traces, reviews, turns, wire>>

\* The process dies: what it was doing is lost and its connections break.
Crash ==
    /\ up /\ up' = FALSE /\ Rarely
    /\ turns' = [t \in Turns |-> IF wire[t].state = "unsent" THEN NoTurn ELSE [pc |-> "ended"]]
    /\ wire' = [t \in Turns |->
          IF wire[t].state = "sent" \/ (wire[t].state = "open" /\ turns[t].pc # "ended")
          THEN [wire[t] EXCEPT !.state = "open", !.events = @ \o <<Event("end", 0)>>] ELSE wire[t]]
    /\ UNCHANGED <<sessions, handoffs, messages, traces, reviews>>

Boot ==
    /\ ~up /\ up' = TRUE
    /\ UNCHANGED <<sessions, handoffs, messages, traces, reviews, turns, wire, rare>>

-----------------------------------------------------------------------------
\* A trace names the reply of its question, and a trace that names none stands
\* for a question that was never answered: no order of failures, refusals
\* and handoffs makes operations believe otherwise (finalizeTrace).
TraceTellsOutcome == \A trace \in traces :
    /\ \A other \in traces : other.user = trace.user => other = trace
    /\ IF trace.assistant # 0 THEN messages[trace.assistant].to = trace.user
       ELSE \A m \in DOMAIN messages : messages[m].to # trace.user

\* The replies to a question that were rated.
Rated(ms, q) == {m \in DOMAIN ms : ms[m].rating # "none" /\ Answers(ms, m, q)}

\* A low rating always reaches the reviewers, and a review shows the rating of
\* a reply to its question, whichever of the gap's capture and the rating came
\* first or failed.  Two replies have the same question when one is the result
\* of an order lookup: then the review shows what either was rated, and it is
\* without a rating only when the gap was captured after a result was rated
\* high (captureChatGap, recordRating, findPreviousUserMessage).
RatingReachesReview == \A m \in DOMAIN messages :
    messages[m].rating # "none" =>
        \E q \in DOMAIN messages :
            /\ m \in Rated(messages, q)
            /\ \/ \E n \in Rated(messages, q) : reviews[q] = messages[n].rating
               \/ /\ \A n \in Rated(messages, q) : messages[n].rating = "high"
                  /\ \/ reviews[q] = NoReview
                     \/ reviews[q] = "unrated" /\ Rated(messages, q) \subseteq Results(messages)
=============================================================================
