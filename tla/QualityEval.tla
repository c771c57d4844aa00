------------------------------- MODULE QualityEval -------------------------------
(***************************************************************************)
(* Retrieval policies compared on a set of test cases                      *)
(* (quality-evaluator.ts): every policy ranks and judges the candidates    *)
(* that were retrieved once, and one policy is recommended.                *)
(*                                                                         *)
(* A case is a question (see Retrieval) with what was retrieved, how long  *)
(* it took, and what is expected: [status, mode, sources].                 *)
(***************************************************************************)
EXTENDS Retrieval

CONSTANTS
    CaseSets,     \* sequences of cases
    Policies      \* sequence: the key of a policy is its position

\* What was retrieved for a case is what a search finds, nothing twice.
ASSUME QualityAssumption ==
    /\ Policies \in Seq(ToSet(Policies))
    /\ \A list \in CaseSets :
          /\ list \in Seq(ToSet(list))
          /\ \A i \in DOMAIN list :
                /\ {"policy", "explicit"} \subseteq DOMAIN list[i] /\ list[i].overlap \in [Ids -> Int]
                /\ list[i].candidates \subseteq RetrievalResults /\ IsFiniteSet(list[i].candidates)
                /\ \A r, q \in list[i].candidates : r.id = q.id => r = q

VARIABLES
    cases,
    measured,     \* sequence: what each policy made of every case, the first policy first
    recommended   \* 0 before the choice

evalVars == <<cases, measured, recommended>>

\* evaluateCase
Evaluated(case, policy) ==
    LET asked == [case EXCEPT !.policy = policy, !.explicit = case.expected.status = "escalated"]
        judged == Grounding(asked, Rank(case.candidates, 3, policy, case.overlap))
        expects == case.expected.status = "sufficient"
        answers == judged.status = "sufficient"
        agrees == judged.mode = case.expected.mode /\ judged.status = case.expected.status
    IN  [failure |-> CASE ~expects /\ answers -> "unsafe_answer"
                       [] expects /\ ~answers -> "over_refusal"
                       [] expects = answers /\ ~agrees -> "decision_mismatch"
                       [] OTHER -> "none",
         sources |-> [i \in DOMAIN judged.cites |-> judged.cites[i].id]]

\* 0 when no expected source was cited.
RankOfSource(case, sources) ==
    LET at == {i \in DOMAIN sources : sources[i] \in case.expected.sources}
    IN  IF at = {} THEN 0 ELSE Min(at)

CountFailure(p, failure) == Cardinality({i \in DOMAIN cases : measured[p][i].failure = failure})

\* The metrics that compare, over common denominators; sources are looked at
\* only where an answer is expected, at their reciprocal rank in sixths.
MetricsOf(p) ==
    LET rank == [i \in DOMAIN cases |-> IF cases[i].expected.status = "sufficient"
                                        THEN RankOfSource(cases[i], measured[p][i].sources) ELSE 0]
    IN  [unsafe |-> CountFailure(p, "unsafe_answer"),
         refused |-> CountFailure(p, "over_refusal"),
         passed |-> CountFailure(p, "none"),
         recallAt3 |-> Cardinality({i \in DOMAIN cases : rank[i] \in 1 .. 3}),
         mrr |-> FoldLeft(LAMBDA acc, r : IF r > 0 THEN acc + 6 \div r ELSE acc, 0, rank)]

\* Mutant: the most accurate one first.
AccuracyKey(p) ==
    LET m == MetricsOf(p) IN <<-m.passed, m.unsafe, m.refused, -m.recallAt3, -m.mrr, p>>

\* compareCandidates: the smaller key is the better one.  All policies are
\* measured on one retrieval: the latencies that come before the key differ
\* by what the ranking takes, and are left out.
CandidateKey(p) ==
    LET m == MetricsOf(p) IN <<m.unsafe, m.refused, -m.passed, -m.recallAt3, -m.mrr, p>>

EvalInit == cases \in CaseSets /\ measured = <<>> /\ recommended = 0

\* evaluateQualityCandidates, one policy.
EvaluatePolicy ==
    /\ Len(measured) < Len(Policies)
    /\ measured' = Append(measured, [i \in DOMAIN cases |-> Evaluated(cases[i], Policies[Len(measured) + 1])])
    /\ UNCHANGED <<cases, recommended>>

\* evaluateQualityCandidates, the choice among all.
Recommend ==
    /\ Len(measured) = Len(Policies) /\ recommended = 0
    /\ LET key == [p \in DOMAIN Policies |-> CandidateKey(p)]
       IN  recommended' = CHOOSE p \in DOMAIN key : \A q \in DOMAIN key \ {p} : Before(key[p], key[q])
    /\ UNCHANGED <<cases, measured>>

EvalNext == EvaluatePolicy \/ Recommend

-----------------------------------------------------------------------------
\* The recommended policy answers a question that must not be answered in no
\* more cases than any other policy does, and of those that are as safe none
\* refuses less; every case a policy does not pass fails for one reason
\* (evaluateCase, compareCandidates).
RecommendedIsSafest ==
    recommended # 0 =>
        LET sufficient == {i \in DOMAIN cases : cases[i].expected.status = "sufficient"}
            unsafe == [p \in DOMAIN Policies |->
                Cardinality({i \in DOMAIN cases \ sufficient : measured[p][i].failure = "unsafe_answer"})]
            refused == [p \in DOMAIN Policies |->
                Cardinality({i \in sufficient : measured[p][i].failure = "over_refusal"})]
        IN  \A p \in DOMAIN Policies :
                /\ unsafe[recommended] <= unsafe[p]
                /\ unsafe[recommended] = unsafe[p] => refused[recommended] <= refused[p]
                /\ CountFailure(p, "unsafe_answer") = unsafe[p]
                /\ CountFailure(p, "over_refusal") = refused[p]
=============================================================================
