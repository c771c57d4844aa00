--------------------------------- MODULE Prompt ---------------------------------
(***************************************************************************)
(* What the model is sent: the window on the conversation                  *)
(* (context-manager.ts) and the system prompt with the knowledge           *)
(* (prompt-manager.ts).  A message is [n, role, tokens, words]: words tell *)
(* two texts apart.                                                        *)
(***************************************************************************)
EXTENDS Integers, Sequences, FiniteSetsExt, SequencesExt

CONSTANTS
    Histories,      \* conversations, the customer's question last
    SummaryTokens,  \* sizes a summary may have
    KnowledgeTokens,\* sizes of the knowledge that was found
    RecentRounds, MaxContext, MaxPrompt,
    BaseTokens, TriggerTokens   \* the fixed parts of the system prompt

\* A conversation is numbered in the order it was written.
Conversation(messages) ==
    /\ messages # <<>> /\ messages \in Seq(ToSet(messages)) /\ Last(messages).role = "user"
    /\ \A i \in DOMAIN messages : messages[i].n \in Nat \ {0} /\ messages[i].role \in {"user", "assistant"}
    /\ \A i, j \in DOMAIN messages : i < j => messages[i].n < messages[j].n

ASSUME PromptAssumption ==
    /\ \A messages \in Histories : Conversation(messages)
    /\ RecentRounds \in Nat \ {0} /\ MaxContext \in Nat

VARIABLES stage, history, window, system, sent

promptVars == <<stage, history, window, system, sent>>

Tokens(messages) == FoldLeft(LAMBDA acc, m : acc + m.tokens, 0, messages)

Question == Last(history)

\* A round is the messages that a question opens; an answer replaces an earlier
\* answer of its round.
AddToRounds(rounds, m) ==
    LET n == Len(rounds)
    IN  CASE n = 0 \/ m.role = "user" -> Append(rounds, <<m>>)
          [] n > 0 /\ m.role = "assistant" ->
                [rounds EXCEPT ![n] = IF @[1].role = "user" THEN <<@[1], m>> ELSE <<m>>]

Rounds(messages) == FoldLeft(AddToRounds, <<>>, messages)
Recent(rounds) == SubSeq(rounds, IF Len(rounds) > RecentRounds THEN Len(rounds) - RecentRounds + 1 ELSE 1, Len(rounds))
Older(rounds) == SubSeq(rounds, 1, Len(rounds) - RecentRounds)

\* Mutant: the newest messages are given up first.
CutNewest(messages) ==
    LET fits == {k \in 0 .. Len(messages) : Tokens(SubSeq(messages, 1, k)) <= MaxContext}
    IN  SubSeq(messages, 1, Max(fits))

\* The oldest messages are given up until the rest fits.
Cut(messages) ==
    LET fits == {k \in 1 .. Len(messages) + 1 : Tokens(SubSeq(messages, k, Len(messages))) <= MaxContext}
    IN  SubSeq(messages, Min(fits), Len(messages))

Summary(t) == [n |-> 0, role |-> "system", tokens |-> t, words |-> "summary"]

PromptInit ==
    /\ stage = "window" /\ history \in Histories
    /\ window = <<>> /\ system = {} /\ sent = <<>>

\* getWindow: older rounds are summarised, or their last message stands for
\* them when the model cannot be reached.
Window ==
    LET rounds == Rounds(history)
    IN  /\ stage = "window"
        /\ \/ /\ Len(rounds) <= RecentRounds
              /\ window' = Cut(FlattenSeq(rounds))
           \/ /\ Len(rounds) > RecentRounds
              /\ \/ \E t \in SummaryTokens : window' = Cut(<<Summary(t)>> \o FlattenSeq(Recent(rounds)))
                 \/ window' = Cut(<<Last(FlattenSeq(Older(rounds)))>> \o FlattenSeq(Recent(rounds)))
        /\ stage' = "system"
        /\ UNCHANGED <<history, system, sent>>

\* buildSystemPrompt: the knowledge goes first when the prompt is too long,
\* then the conditions of a handoff.
SystemPrompt ==
    /\ stage = "system"
    /\ \E k \in KnowledgeTokens :
          system' = CASE BaseTokens + TriggerTokens + k <= MaxPrompt -> {"base", "triggers", "knowledge"}
                      [] BaseTokens + TriggerTokens + k > MaxPrompt /\ BaseTokens + TriggerTokens <= MaxPrompt ->
                            {"base", "triggers"}
                      [] OTHER -> {"base"}
    /\ stage' = "send"
    /\ UNCHANGED <<history, window, sent>>

\* buildMessages: the question is added unless the window's last question reads so.
BuildMessages ==
    LET questions == {i \in DOMAIN window : window[i].role = "user"}
    IN  /\ stage = "send"
        /\ sent' = IF questions # {} /\ window[Max(questions)].words = Question.words
                   THEN window ELSE Append(window, Question)
        /\ stage' = "done"
        /\ UNCHANGED <<history, window, system>>

PromptNext == Window \/ SystemPrompt \/ BuildMessages

\* However much of the conversation was given up, the model is asked the
\* customer's question last and once, after what was kept in the order it was
\* written, and within the budget (getWindow, buildMessages).
PromptAsksTheQuestion ==
    stage = "done" =>
        /\ Last(sent).n = Question.n
        /\ \A i, j \in DOMAIN sent : i < j => sent[i].n < sent[j].n
        /\ Tokens(window) <= MaxContext
        /\ Tokens(sent) <= MaxContext \/ sent = <<Question>>

=============================================================================
