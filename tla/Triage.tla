--------------------------------- MODULE Triage ---------------------------------
(***************************************************************************)
(* The packet an escalation carries: its category, reason, risks, priority *)
(* and queue by rules, then enriched by the model within a time budget     *)
(* (escalation-triage.ts).  A text is the set of patterns it matches.      *)
(***************************************************************************)
EXTENDS Integers, Sequences, FiniteSets, FiniteSetsExt, SequencesExt

CONSTANTS
    Features,     \* the patterns of the rules
    MaxFeatures,  \* most patterns a text is tried with
    Visible,      \* messages the extraction is shown: the last twelve
    Hidden,       \* older ones
    Wanted,       \* what a model may name as missing
    Budget        \* time of the enrichment, in units

VARIABLES texts, intent, grounding, packet, attempt, spent

triageVars == <<texts, intent, grounding, packet, attempt, spent>>

Messages == Visible \cup Hidden
Formats == <<"llm_json_schema", "llm_json_object", "llm_text">>

Has(text, features) == text \cap features # {}

Category(text, int) ==
    CASE Has(text, {"accountSecurity", "unauthorized"}) -> "account_security"
      [] ~Has(text, {"accountSecurity", "unauthorized"}) /\ Has(text, {"complaint"}) -> "complaint"
      [] OTHER ->
         CASE int # "none" -> int
           [] int = "none" /\ "refund" \in text -> "refund"
           [] int = "none" /\ "refund" \notin text /\ "order" \in text -> "order"
           [] int = "none" /\ ~Has(text, {"refund", "order"}) /\ "technical" \in text -> "technical"
           [] OTHER -> "general"

\* What each reason needs, the first that applies wins.
ReasonOrder == <<"unauthorized_transaction", "account_security", "safety_risk", "knowledge_conflict", "complaint",
                 "unsupported_business_action", "user_requested_human", "frustration",
                 "model_requested_escalation", "low_confidence_or_coverage_gap">>

Applies(reason, text, status) ==
    CASE reason = "unauthorized_transaction" -> "unauthorized" \in text
      [] reason = "account_security" -> "accountSecurity" \in text
      [] reason = "safety_risk" -> "safety" \in text
      [] reason = "knowledge_conflict" -> status = "conflicting" \/ "conflict" \in text
      [] reason = "complaint" -> "complaint" \in text
      [] reason = "unsupported_business_action" -> status = "high_risk" \/ "private" \in text
      [] reason = "user_requested_human" -> "human" \in text
      [] reason = "frustration" -> "frustration" \in text
      [] reason = "model_requested_escalation" -> "model" \in text
      [] reason = "low_confidence_or_coverage_gap" -> TRUE

ReasonCode(text, status) == ReasonOrder[Min({i \in DOMAIN ReasonOrder : Applies(ReasonOrder[i], text, status)})]

\* Mutant: the risks are read from the text alone.
RiskFlagsOfText(text, status) ==
    (text \cap {"accountSecurity", "unauthorized", "safety", "complaint"})
    \cup (IF "conflict" \in text THEN {"knowledge_conflict"} ELSE {})
    \cup (IF "private" \in text THEN {"private_data", "business_action"} ELSE {})

RiskFlags(text, status) ==
    (text \cap {"accountSecurity", "unauthorized", "safety", "complaint"})
    \cup (IF status = "conflicting" \/ "conflict" \in text THEN {"knowledge_conflict"} ELSE {})
    \cup (IF status = "high_risk" \/ "private" \in text THEN {"private_data", "business_action"} ELSE {})
    \cup (IF status = "insufficient" THEN {"low_confidence"} ELSE {})

Priority(text, flags) ==
    CASE Has(flags, {"accountSecurity", "unauthorized", "safety"}) -> "urgent"
      [] ~Has(flags, {"accountSecurity", "unauthorized", "safety"})
            /\ (Has(flags, {"knowledge_conflict", "private_data"}) \/ "material" \in text) -> "high"
      [] OTHER -> "normal"

Queue(category) ==
    CASE category = "account_security" -> "account_security" [] category = "complaint" -> "complaints"
      [] category = "refund" -> "after_sales" [] category = "order" -> "order_support"
      [] category = "technical" -> "technical_support" [] category = "general" -> "general_support"

\* What the agent still has to ask for.
MissingInformation(category, flags) ==
    CASE category = "account_security" -> {"identity", "account", "time"}
      [] category = "refund" -> {"order", "reason"}
      [] category = "order" -> {"order"}
      [] category = "technical" -> {"environment", "steps"}
      [] category = "complaint" -> {"resolution"}
      [] category = "general" -> IF "private_data" \in flags THEN {"identity"} ELSE {"resolution"}

\* buildDeterministicEscalationPacket: everything the customer wrote counts.
Packet(all, int, status) ==
    LET text == UNION {all[m] : m \in Messages}
        flags == RiskFlags(text, status)
        category == Category(text, int)
    IN  [category |-> category, reason |-> ReasonCode(text, status), flags |-> flags,
         priority |-> Priority(text, flags), queue |-> Queue(category),
         missing |-> MissingInformation(category, flags), summary |-> "rules",
         facts |-> {[message |-> m, quote |-> m] : m \in Visible}, mode |-> "deterministic"]

-----------------------------------------------------------------------------
NoPacket == [mode |-> "none"]

TriageInit ==
    /\ \E text \in UNION {kSubset(k, Features) : k \in 0 .. MaxFeatures} : \E m \in Messages :
          texts = [x \in Messages |-> IF x = m THEN text ELSE {}]
    /\ intent \in {"none", "refund", "general"}
    /\ grounding \in {"none", "conflicting", "high_risk", "insufficient"}
    /\ packet = NoPacket /\ attempt = 1 /\ spent = 0

BuildPacket ==
    /\ packet = NoPacket
    /\ packet' = Packet(texts, intent, grounding)
    /\ UNCHANGED <<texts, intent, grounding, attempt, spent>>

\* What the model answers: a summary, facts that quote a message, truly or
\* not, what is missing, and fields the schema does not know.
Candidates == [facts : SUBSET [message : Messages, quote : Messages], missing : SUBSET Wanted, strict : BOOLEAN]

\* hasValidFactCitation
Cites(fact) == fact.message \in Visible /\ fact.quote = fact.message

Enriching == packet.mode = "deterministic" /\ attempt <= Len(Formats) /\ spent < Budget

\* A usable answer in time: its summary and what it finds missing replace those
\* of the rules, and its facts too, without those that cite nothing.
Enrich ==
    /\ Enriching
    /\ \E c \in Candidates : \E time \in 1 .. Budget - spent :
          /\ c.strict
          /\ packet' = [packet EXCEPT !.facts = {f \in c.facts : Cites(f)}, !.missing = c.missing,
                                      !.summary = "model", !.mode = Formats[attempt]]
          /\ spent' = spent + time
    /\ UNCHANGED <<texts, intent, grounding, attempt>>

\* A useless answer: the next format is tried with the time that is left.
TryNextFormat ==
    /\ Enriching
    /\ \E time \in 1 .. Budget - spent : spent' = spent + time
    /\ attempt' = attempt + 1
    /\ UNCHANGED <<texts, intent, grounding, packet>>

\* The time is over: no other format is tried.
GiveUp ==
    /\ Enriching
    /\ spent' = Budget
    /\ UNCHANGED <<texts, intent, grounding, packet, attempt>>

TriageNext == BuildPacket \/ Enrich \/ TryNextFormat \/ GiveUp

\* What is routed: a packet without what a model may describe.
Routed(pack) == [pack EXCEPT !.facts = {}, !.missing = {}, !.summary = "any", !.mode = "any"]

\* The rules agree with each other and the model overrules none of them: a
\* security reason is urgent and goes to the security queue, a reason that
\* needs private data or a checked answer is never of normal priority, every
\* fact quotes a message the extraction was shown, the category, the reason,
\* the flags, the priority and the queue are those of the rules whatever the
\* model answered, and a packet that is not marked as a model's has nothing of
\* an answer that came too late or was useless, nor lacks anything of the rules
\* (determineReasonCode, determineRiskFlags, determinePriority, enrichEscalationPacket).
TriageAgrees ==
    packet # NoPacket =>
        LET security == {"unauthorized_transaction", "account_security"}
            rules == Packet(texts, intent, grounding)
        IN  /\ packet.reason \in security \cup {"safety_risk"} <=> packet.priority = "urgent"
            /\ packet.reason \in security <=> packet.queue = "account_security"
            /\ packet.reason \in {"knowledge_conflict", "unsupported_business_action"} => packet.priority = "high"
            /\ \A f \in packet.facts : f.message \in Visible /\ f.quote = f.message
            /\ Routed(packet) = Routed(rules)
            /\ packet.mode = "deterministic" => packet = rules

=============================================================================
