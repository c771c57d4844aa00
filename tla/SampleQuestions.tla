----------------------------- MODULE SampleQuestions -----------------------------
(***************************************************************************)
(* The questions, conversations and test cases of Algorithms.              *)
(***************************************************************************)
EXTENDS Integers, Sequences, TLC

\* Two entries and a chunk; what is stored of them is current, old, or of
\* another embedding model.
SampleStores ==
    LET Base == [id \in {"f1", "f2", "d1"} |-> [rev |-> 1, profile |-> "current"]]
    IN  {Base, [Base EXCEPT !["f1"].rev = 0], [Base EXCEPT !["f2"].profile = "other", !["d1"].rev = 0]}

Said(intent, confidence) == [json |-> TRUE, intent |-> intent, number |-> TRUE, confidence |-> confidence]
Noise == [json |-> FALSE, intent |-> "none", number |-> FALSE, confidence |-> 0]
NoWords == [refund |-> 0, order |-> 0, technical |-> 0, general |-> 0]
Policy(direct, generation) == [direct |-> direct, generation |-> generation, ratio |-> 60, rerank |-> FALSE]
Clause(lang, marks, tail) == {[lang |-> lang, marks |-> marks, tail |-> tail]}

PlainAsk ==
    [answers |-> <<Said("order", 120)>>, found |-> NoWords, policy |-> Policy(80, 55), explicit |-> FALSE,
     clauses |-> Clause("zh", {"howto"}, {}), text |-> "q1",
     question |-> [f1 |-> "q1", f2 |-> "q2"], answer |-> [f1 |-> "a", f2 |-> "b"],
     overlap |-> [f1 |-> 0, f2 |-> 1000, d1 |-> 500]]

SampleAsks ==
    {PlainAsk,
     [PlainAsk EXCEPT !.question["f2"] = "q1", !.answers = <<Noise, Said("other", 50), Said("refund", 50)>>],
     [PlainAsk EXCEPT !.policy = [direct |-> 60, generation |-> 70, ratio |-> 100, rerank |-> TRUE], !.text = "q3",
                      !.answers = <<Noise, Noise, Noise>>, !.found = [NoWords EXCEPT !.order = 1, !.general = 1]],
     [PlainAsk EXCEPT !.clauses = Clause("zh", {"informs"}, {"polite", "acts"}), !.policy.ratio = 10],
     [PlainAsk EXCEPT !.clauses = Clause("en", {"negated", "howto"}, {"polite", "acts"}), !.answers = <<>>]}

-----------------------------------------------------------------------------
(* Test cases: what was retrieved against what is expected of it.           *)

SamplePolicies == <<Policy(80, 55), Policy(65, 55), Policy(80, 70), [Policy(65, 40) EXCEPT !.rerank = TRUE]>>

Found(id, source, vector, keyword) ==
    [id |-> id, rev |-> 1, vrev |-> 1, source |-> source, vector |-> vector, keyword |-> keyword,
     fusion |-> (IF keyword > 0 THEN 40 ELSE 0) + (IF vector > 0 THEN 9 ELSE 0),
     similarity |-> IF vector > keyword THEN vector ELSE keyword, rerank |-> 0]

Expect(status, mode, sources) == [status |-> status, mode |-> mode, sources |-> sources]

Cases ==
    {[policy |-> SamplePolicies[1], explicit |-> FALSE, text |-> "q9", clauses |-> Clause("zh", {"howto"}, {}),
      question |-> [f1 |-> "q1", f2 |-> "q1"], answer |-> [f1 |-> "a", f2 |-> "b"],
      overlap |-> [f1 |-> 0, f2 |-> 900, d1 |-> 500], candidates |-> found, expected |-> expected] :
        found \in {{Found("f1", "hybrid", 60, 70)}, {Found("f1", "keyword", 0, 90), Found("f2", "keyword", 0, 70)},
                   {Found("f1", "keyword", 0, 90), Found("d1", "vector", 60, 0)}, {Found("d1", "vector", 60, 0)},
                   {Found("d1", "vector", 45, 0), Found("f2", "vector", 50, 0)}, {}},
        expected \in {Expect("sufficient", "direct_faq", {"f1"}), Expect("sufficient", "grounded_generation", {"d1"}),
                      Expect("conflicting", "refusal", {}), Expect("insufficient", "refusal", {}),
                      Expect("escalated", "refusal", {})}}
SampleCaseSets == {<<a, b>> : a, b \in Cases}

-----------------------------------------------------------------------------
(* Conversations of up to five messages before the question, which may      *)
(* repeat an earlier one.                                                   *)

Message(n, role, tokens, words) == [n |-> n, role |-> role, tokens |-> tokens, words |-> words]
SampleHistories ==
    {[i \in 1 .. Len(roles) |->
          Message(i, roles[i], IF i = 2 THEN 4 ELSE 2, IF roles[i] = "user" /\ i < 3 THEN "again" ELSE "other")]
     \o <<Message(Len(roles) + 1, "user", tokens, words)>> :
        roles \in UNION {[1 .. n -> {"user", "assistant"}] : n \in 0 .. 5}, tokens \in {1, 9}, words \in {"again", "new"}}

SampleFeatures ==
    {"accountSecurity", "unauthorized", "safety", "complaint", "material", "refund", "order", "technical", "human",
     "frustration", "conflict", "private", "model"}
=============================================================================
