------------------------------ MODULE ChatClient ------------------------------
(***************************************************************************)
(* The chat of one browser (hooks/useChat.ts, api/chat.ts, ChatPage.tsx)   *)
(* and the server it talks to: a message and its event stream, a new       *)
(* conversation, a conversation of the history, an order looked up from    *)
(* its card, a rating.  Requests and answers travel: the view can be       *)
(* replaced while a stream or a lookup is under way.                       *)
(***************************************************************************)
EXTENDS ChatServer

VARIABLES
    view,     \* sessionId and isStreaming
    bubbles,  \* the assistant's messages on the screen
    closing,  \* the close request of a new conversation
    opening,  \* the request for a conversation of the history
    lookups   \* what the card of an order reply has asked for, by its turn

clientVars == <<view, bubbles, closing, opening, lookups>>
vars == <<serverVars, clientVars>>

SessionId == Sessions \cup {"none"}
NoRequest == [session |-> "none", upto |-> 0]

Bubble == [turn : Turns \cup {0}, message : Ids \cup {0}, live : BOOLEAN, failed : BOOLEAN,
           text : {"none", "part", "whole", "marked", "error"}]

\* asked: for the verification or the lookup; looking: the provider is awaited;
\* saved: the answer with the stored result is on its way.
Lookup == [pc : {"none", "asked", "looking", "saved"}, session : SessionId, message : Ids \cup {0}]
NoLookup == [pc |-> "none", session |-> "none", message |-> 0]

TypeOK ==
    /\ ServerTypeOK
    /\ view \in [session : SessionId, busy : BOOLEAN]
    /\ bubbles \subseteq Bubble
    /\ closing \in SessionId
    /\ opening \in [session : SessionId, upto : Ids \cup {0}]
    /\ lookups \in [Turns -> Lookup]

Empty == [session |-> "none", busy |-> FALSE]
Init ==
    /\ ServerInit
    /\ view = Empty /\ bubbles = {}
    /\ closing = "none" /\ opening = NoRequest
    /\ lookups = [t \in Turns |-> NoLookup]

\* Updates go to the message with the placeholder's id, if it is on the screen.
Waiting(b, t) == b.turn = t /\ b.live
Shown(t, text) == {IF Waiting(b, t) THEN [b EXCEPT !.text = text] ELSE b : b \in bubbles}
Completed(t, m) ==
    {IF Waiting(b, t) THEN [b EXCEPT !.message = m, !.live = FALSE] ELSE b : b \in bubbles}
Failed(t) == {IF Waiting(b, t) THEN [b EXCEPT !.text = "error", !.failed = TRUE, !.live = FALSE]
              ELSE b : b \in bubbles}

-----------------------------------------------------------------------------
\* sendMessage: nothing while a stream is under way.
Send(t) ==
    /\ ~view.busy /\ wire[t].state = "unsent"
    /\ \A u \in Turns : u < t => wire[u].state # "unsent"
    /\ view' = [view EXCEPT !.busy = TRUE]
    /\ bubbles' = bubbles \cup {[turn |-> t, message |-> 0, text |-> "none",
                                 live |-> TRUE, failed |-> FALSE]}
    /\ wire' = [wire EXCEPT ![t].state = "sent", ![t].named = view.session]
    /\ UNCHANGED <<up, sessions, handoffs, messages, traces, reviews, turns, rare, closing, opening, lookups>>

\* The connection is lost: a request that was not received yet never will be,
\* and what was not read yet is lost.
Drop(t) ==
    /\ wire[t].state \in {"sent", "open"} /\ Rarely
    /\ wire' = [wire EXCEPT ![t].state = "cut", ![t].events = <<Event("end", 0)>>]
    /\ UNCHANGED <<up, sessions, handoffs, messages, traces, reviews, turns, clientVars>>

\* onError and the catch of sendMessage.
FailBubble(t) == bubbles' = Failed(t)

\* Mutant: a stream that ends without its done event counts as an answer.
EndedAnyhow(t) ==
    /\ view' = [view EXCEPT !.busy = FALSE]
    /\ bubbles' = Completed(t, wire[t].got)

\* Mutant: only an answer takes isStreaming back.
EndedStuck(t) ==
    IF wire[t].state = "open" /\ wire[t].got # 0
    THEN /\ view' = [session |-> messages[wire[t].got].session, busy |-> FALSE]
         /\ bubbles' = Completed(t, wire[t].got)
    ELSE UNCHANGED view /\ FailBubble(t)

\* The stream is over: the placeholder takes the reply's id and the view its
\* session; without a done event, or after a network error, it has failed.
Ended(t) ==
    IF wire[t].state = "open" /\ wire[t].got # 0
    THEN /\ view' = [session |-> messages[wire[t].got].session, busy |-> FALSE]
         /\ bubbles' = Completed(t, wire[t].got)
    ELSE view' = [view EXCEPT !.busy = FALSE] /\ FailBubble(t)

Read == [Unsent EXCEPT !.state = "read"]

\* One event of the stream; an error event ends the reading.
Deliver(t) ==
    /\ wire[t].events # <<>>
    /\ LET event == Head(wire[t].events) IN
          \/ /\ event.type \in {"part", "whole", "marked"}
             /\ bubbles' = Shown(t, event.type)
             /\ wire' = [wire EXCEPT ![t].events = Tail(@)]
             /\ UNCHANGED view
          \/ /\ event.type = "done"
             /\ view' = [view EXCEPT !.session = messages[event.message].session]
             /\ wire' = [wire EXCEPT ![t].events = Tail(@), ![t].got = event.message]
             /\ UNCHANGED bubbles
          \/ /\ event.type = "error"
             /\ view' = [view EXCEPT !.busy = FALSE] /\ FailBubble(t)
             /\ wire' = [wire EXCEPT ![t] = Read]
          \/ /\ event.type = "end"
             /\ Ended(t)
             /\ wire' = [wire EXCEPT ![t] = Read]
    /\ UNCHANGED <<up, sessions, handoffs, messages, traces, reviews, turns, rare, closing, opening, lookups>>

-----------------------------------------------------------------------------
\* clearChat: the session is closed on the server before the view is emptied.
\* The button is off while a stream is under way, not while the close is.
NewChat ==
    /\ up /\ ~view.busy /\ closing = "none" /\ view.session # "none" /\ Rarely
    /\ sessions' = Life!CloseUserSession(sessions, view.session)
    /\ closing' = view.session
    /\ UNCHANGED <<up, handoffs, messages, traces, reviews, turns, wire, view, bubbles, opening, lookups>>

\* A close that fails leaves the view as it is.
Closed ==
    /\ closing # "none" /\ closing' = "none"
    /\ \/ view' = Empty /\ bubbles' = {}
       \/ UNCHANGED <<view, bubbles>>
    /\ UNCHANGED <<serverVars, opening, lookups>>

\* A conversation of the list, which is hidden while one is loading, but not
\* while a stream is under way (getUserConversationDetail).
Open(s) ==
    /\ up /\ opening = NoRequest /\ sessions[s].status # "absent" /\ Rarely
    /\ sessions' = Life!ExpireInactive(sessions)
    /\ opening' = [session |-> s, upto |-> Len(messages)]
    /\ UNCHANGED <<up, handoffs, messages, traces, reviews, turns, wire, view, bubbles, closing, lookups>>

\* loadHistory.
Replies(s, upto) == {m \in 1..upto : messages[m].session = s /\ messages[m].role = "assistant"}
Opened ==
    /\ opening # NoRequest
    /\ \/ /\ view' = [session |-> opening.session, busy |-> FALSE]
          /\ bubbles' = {[turn |-> 0, message |-> m, text |-> "whole", live |-> FALSE,
                           failed |-> FALSE] : m \in Replies(opening.session, opening.upto)}
       \/ UNCHANGED <<view, bubbles>>
    /\ opening' = NoRequest
    /\ UNCHANGED <<serverVars, closing, lookups>>

Complete(b) == ~b.live /\ ~b.failed

-----------------------------------------------------------------------------
\* The card of an order reply: it verifies the order and looks it up, in the
\* session the view has when it is used, whatever the reply's is.
AskLookup(b) ==
    /\ b.turn # 0 /\ Complete(b) /\ messages[b.message].mode = "order"
    /\ view.session # "none" /\ lookups[b.turn] = NoLookup
    /\ lookups' = [lookups EXCEPT ![b.turn] = [pc |-> "asked", session |-> view.session, message |-> 0]]
    /\ UNCHANGED <<serverVars, view, bubbles, closing, opening>>

\* authorizeOrderLookup: a grant is good for an active session, which has one
\* lookup at a time.
StartLookup(t) ==
    /\ up /\ lookups[t].pc = "asked"
    /\ sessions[lookups[t].session].status = "active"
    /\ \A u \in Turns : lookups[u].pc = "looking" => lookups[u].session # lookups[t].session
    /\ lookups' = [lookups EXCEPT ![t].pc = "looking"]
    /\ UNCHANGED <<serverVars, view, bubbles, closing, opening>>

\* The provider has answered: a summary is stored as a reply to no message,
\* whatever has become of the session.
SaveLookup(t) ==
    /\ lookups[t].pc = "looking"
    /\ Cardinality(Results(messages)) < MaxLookups
    /\ messages' = Append(messages, Row(lookups[t].session, "assistant", 0, "result", FALSE))
    /\ sessions' = Life!Touch(sessions, lookups[t].session)
    /\ lookups' = [lookups EXCEPT ![t].pc = "saved", ![t].message = NextId]
    /\ UNCHANGED <<up, handoffs, traces, reviews, turns, wire, rare, view, bubbles, closing, opening>>

\* An answer that cannot be verified is handed off, and the lookup has failed.
UnsafeLookup(t) ==
    /\ lookups[t].pc = "looking"
    /\ Life!PersistEscalation(lookups[t].session)
    /\ lookups' = [lookups EXCEPT ![t] = NoLookup]
    /\ UNCHANGED <<up, messages, traces, reviews, turns, wire, rare, view, bubbles, closing, opening>>

\* It is refused, fails, runs out of time, or its answer is lost: the card can be
\* used again.
FailLookup(t) ==
    /\ lookups[t].pc # "none"
    /\ lookups' = [lookups EXCEPT ![t] = NoLookup]
    /\ UNCHANGED <<serverVars, view, bubbles, closing, opening>>

\* The card, if it is still on the screen, becomes the result's.
ShowLookup(t) ==
    /\ lookups[t].pc = "saved"
    /\ bubbles' = {IF b.turn = t /\ Complete(b) THEN [b EXCEPT !.message = lookups[t].message]
                   ELSE b : b \in bubbles}
    /\ lookups' = [lookups EXCEPT ![t] = NoLookup]
    /\ UNCHANGED <<serverVars, view, closing, opening>>

\* A crash breaks the lookups that await the provider.
CrashAll ==
    /\ Crash
    /\ lookups' = [t \in Turns |-> IF lookups[t].pc = "looking" THEN NoLookup ELSE lookups[t]]
    /\ UNCHANGED <<view, bubbles, closing, opening>>

\* A bubble that is complete can be rated, an order card only once its lookup
\* has succeeded, and again too where it was loaded before it was rated; the
\* server checks that the session it is sent with is the reply's.
Rate(b, r) ==
    /\ up /\ Complete(b) /\ view.session # "none" /\ Rarely
    /\ LET m == b.message IN
          /\ m # 0
          /\ b.turn = 0 \/ messages[m].mode # "order"
          /\ messages[m].session = view.session
          /\ RecordRating(m, r)
    /\ UNCHANGED <<up, sessions, handoffs, traces, turns, wire, clientVars>>

-----------------------------------------------------------------------------
Serve(t) == Handle(t) /\ UNCHANGED clientVars
Restart == Boot /\ UNCHANGED clientVars

Next ==
    \/ \E t \in Turns : Send(t) \/ Serve(t) \/ Drop(t) \/ Deliver(t)
    \/ NewChat \/ Closed \/ Opened
    \/ \E s \in Sessions : Open(s)
    \/ \E b \in bubbles, r \in {"low", "high"} : Rate(b, r)
    \/ \E s \in Sessions : GrowIdle(s) /\ UNCHANGED clientVars
    \/ \E b \in bubbles : AskLookup(b)
    \/ \E t \in Turns : \/ StartLookup(t) \/ SaveLookup(t) \/ UnsafeLookup(t)
                        \/ FailLookup(t) \/ ShowLookup(t)
    \/ CrashAll
    \/ Restart

\* The awaits of the handler end, the browser reads what arrives, and the
\* process is started again.
Fairness == /\ \A t \in Turns : WF_vars(Serve(t)) /\ WF_vars(Deliver(t))
            /\ WF_vars(Restart)
Spec == Init /\ [][Next]_vars /\ Fairness

-----------------------------------------------------------------------------
\* The handlers implement the conversations' life cycle: whatever way a turn
\* or a lookup ends, the sessions table and the handoff queue change as
\* Conversation's actions change them, as a lookup's result or handoff does, or
\* by a close, a crash or a start (routes/chat.ts, saveMessageAndEscalate,
\* createEscalation, order-tool.service.ts).
LookupStep(s) == /\ \/ sessions' = Life!Touch(sessions, s) /\ UNCHANGED handoffs
                    \/ Life!PersistEscalation(s)
                 /\ UNCHANGED <<up, LifeTurns>>
LifeStep == \/ Life!ConvNext
            \/ \E s \in Sessions : /\ sessions' = Life!CloseUserSession(sessions, s)
                                   /\ UNCHANGED <<up, handoffs, LifeTurns>>
            \/ \E t \in Turns : lookups[t].pc = "looking" /\ LookupStep(lookups[t].session)
            \/ up' # up /\ UNCHANGED <<sessions, handoffs>>
LifeImplemented == [][LifeStep]_<<up, sessions, handoffs, LifeTurns>>

\* What the screen shows as an answer is stored: a bubble that is neither
\* waiting nor failed has the id of a reply in the table and its whole text (of
\* an order lookup, the id of the summary that is stored of its result),
\* whatever was shown before a failure, a crash, a lost connection or another
\* conversation took the stream's place (chat.ts, useChat.ts, api/chat.ts).
ShownAnswersAreStored == \A b \in bubbles :
    Complete(b) =>
        /\ b.message \in DOMAIN messages
        /\ messages[b.message].role = "assistant"
        /\ b.text \in {"whole", "marked"}

\* The customer can always write again: however a stream ends, is lost or is
\* left behind by another view, isStreaming is taken back.
StreamingEnds == view.busy ~> ~view.busy
=============================================================================
