------------------------------- MODULE Retrieval -------------------------------
(***************************************************************************)
(* One question: recalled by vector and by keyword, fused, ranked          *)
(* (knowledge-retriever.ts, retrieval-ranking.ts) and judged               *)
(* (grounding-policy.ts), while an administrator may edit the entries.     *)
(*                                                                         *)
(* Scores are hundredths.  Fusion scores are kept over a common divisor.   *)
(***************************************************************************)
EXTENDS Integers, Sequences, FiniteSets, FiniteSetsExt, SequencesExt

CONSTANTS
    Entries, Passages, \* entries, and chunks of documents
    Asks,              \* the questions tried
    Stores,            \* id |-> [rev, profile]: what the vector store may hold
    VectorScores, KeywordScores,   \* 0: not found
    HighK, LowK,       \* results for a sure intent, and for a doubtful one
    MinPool, MaxPool, Multiplier,  \* how many candidates are recalled
    Edits              \* bound on concurrent edits

Ids == Entries \cup Passages
KnowledgeTypes == {"faq", "document"}
Type(id) == IF id \in Entries THEN "faq" ELSE "document"

ASSUME RetrievalAssumption ==
    /\ IsFiniteSet(Ids) /\ "none" \notin Ids
    /\ VectorScores \subseteq Nat /\ KeywordScores \subseteq Nat
    /\ {HighK, LowK} \subseteq Nat \ {0, 1} /\ {MinPool, MaxPool, Multiplier} \subseteq Nat
    /\ \A a \in Asks : a.explicit \in BOOLEAN /\ a.overlap \in [Ids -> Int]

VARIABLES
    step, ask,
    db,        \* id |-> [rev, active]
    stored,    \* id |-> the revision and the profile the vector store has
    hits,      \* vector candidates, best first
    merged,    \* results by id, those not found absent
    ranked, decision,
    valid      \* history: the revisions that were active during this search

answerVars == <<step, ask, db, stored, hits, merged, ranked, decision, valid>>

-----------------------------------------------------------------------------
(* Orders.                                                                  *)

\* Of two sequences of numbers the first difference decides.
Before(a, b) ==
    \E i \in DOMAIN a : a[i] < b[i] /\ \A j \in 1 .. i - 1 : a[j] = b[j]

\* The members of a set, which their keys tell apart, the smallest key first.
Sorted(S, key) ==
    [i \in 1 .. Cardinality(S) |-> CHOOSE x \in S : Cardinality({y \in S : Before(key[y], key[x])}) = i - 1]

FirstOf(n, seq) == SubSeq(seq, 1, Min({n, Len(seq)}))

\* What a search finds: one revision of an entry or a chunk, with its scores.
RetrievalResults ==
    [id : Ids, rev : Nat, vrev : Nat, source : {"vector", "keyword", "hybrid"}, vector : Nat, keyword : Nat,
     fusion : Nat, similarity : Nat, rerank : Int]

-----------------------------------------------------------------------------
(* What the words of a message ask for (grounding-policy.ts).  A clause is  *)
(* [lang, marks, tail]: the patterns it matches, and those of an action     *)
(* that follows a connective in it.                                         *)

Exempt(marks) == {"negated", "informs"} \cap marks # {}

\* splitChineseActionConnector, splitEnglishActionConnector: only an exempt
\* clause is split; a how-to is not, unless a polite English action follows.
Parts(c) ==
    LET whole == {c.marks \cup c.tail}
        apart == {c.marks, c.tail}
    IN  IF c.tail = {} \/ ~Exempt(c.marks \cup c.tail) THEN whole
        ELSE IF "howto" \in c.marks /\ ~(c.lang = "en" /\ "polite" \in c.tail) THEN whole
        ELSE apart

RequestsAction(lang, marks) ==
    /\ ~Exempt(marks)
    /\ \/ {"polite", "acts"} \subseteq marks
       \/ lang = "zh" /\ "howto" \notin marks /\ {"imperative", "private"} \cap marks # {}
       \/ lang = "en" /\ "imperative" \in marks
       \/ lang = "en" /\ "howto" \notin marks /\ "private" \in marks
       \/ lang = "en" /\ {"howto", "policy"} \cap marks = {} /\ {"acts", "target"} \subseteq marks

\* Mutant: a clause is judged as a whole.
RequestsWhole(clauses) == \E c \in clauses : RequestsAction(c.lang, c.marks \cup c.tail)

RequestsUnsupportedBusinessAction(clauses) ==
    \E c \in clauses : \E p \in Parts(c) : RequestsAction(c.lang, p)

-----------------------------------------------------------------------------
(* The intent of a message (intent-classifier.ts, intent.service.ts).       *)

Intents == <<"refund", "order", "technical", "general">>

\* parseIntentResponse: the confidence is cut to its range.
Clamped(x) == IF x < 0 THEN 0 ELSE IF x > 100 THEN 100 ELSE x
Usable(answer) == answer.json /\ answer.intent \in ToSet(Intents) /\ answer.number

KeywordIntent(found) ==
    LET best == CHOOSE i \in 1 .. 4 : \A j \in 1 .. 4 :
                    \/ found[Intents[i]] > found[Intents[j]]
                    \/ found[Intents[i]] = found[Intents[j]] /\ i <= j
        n == found[Intents[best]]
    IN  IF n = 0 THEN [intent |-> "general", confidence |-> 30]
        ELSE [intent |-> Intents[best], confidence |-> Min({80, 20 * n})]

\* classify: three formats are tried, and keywords when none is usable.
Classify(answers, found) ==
    LET good == {i \in DOMAIN answers : Usable(answers[i])}
    IN  IF good = {} THEN KeywordIntent(found)
        ELSE [intent |-> answers[Min(good)].intent, confidence |-> Clamped(answers[Min(good)].confidence)]

IntentOf(a) == Classify(a.answers, a.found)
TopK(a) == IF IntentOf(a).confidence >= 70 THEN HighK ELSE LowK

-----------------------------------------------------------------------------
(* Recall and fusion.                                                       *)

Pool(topK) == Min({MaxPool, Max({MinPool, topK * Multiplier})})

IdOrder == SetToSeq(Ids)
Position(id) == CHOOSE i \in DOMAIN IdOrder : IdOrder[i] = id

\* The best n of a set by a score; equal ones in the order of the store.
Best(S, score, n) == FirstOf(n, Sorted(S, [id \in S |-> <<-score[id], Position(id)>>]))

\* rrfScore over the common divisor.
Divisor == FoldLeft(LAMBDA acc, rank : acc * (60 + rank), 1, [i \in 1 .. Cardinality(Ids) |-> i])
Rrf(rank, weight) == (weight * Divisor) \div (60 + rank)

NoResult == [id |-> "none", rev |-> 0, vrev |-> 0, source |-> "none", vector |-> 0, keyword |-> 0,
             fusion |-> 0, similarity |-> 0, rerank |-> 0]

\* Mutant: a match is taken for the entry whatever revision it was made of.
MatchesAnyRevision(hit) == db[hit.id].active /\ hit.profile = "current"

\* hydrateVectorCandidates and the checks that follow it.
Matches(hit) == db[hit.id].active /\ hit.rev = db[hit.id].rev /\ hit.profile = "current"

ByVector(failing) ==
    LET kept == {i \in DOMAIN hits : Type(hits[i].id) \notin failing /\ Matches(hits[i])}
    IN  [id \in Ids |->
            IF \E i \in kept : hits[i].id = id
            THEN LET i == CHOOSE i \in kept : hits[i].id = id
                 IN  [NoResult EXCEPT !.id = id, !.rev = db[id].rev, !.vrev = hits[i].rev,
                          !.source = "vector", !.vector = hits[i].score,
                          !.fusion = Rrf(i, 1), !.similarity = hits[i].score]
            ELSE NoResult]

\* One keyword result over what the vectors found.
WithKeyword(r, id, score, rank) ==
    IF r.id = id
    THEN [r EXCEPT !.source = "hybrid", !.keyword = score, !.fusion = @ + Rrf(rank, 4),
                   !.similarity = Max({r.vector, score})]
    ELSE [NoResult EXCEPT !.id = id, !.rev = db[id].rev, !.source = "keyword", !.keyword = score,
                          !.fusion = Rrf(rank, 4), !.similarity = score]

-----------------------------------------------------------------------------
(* Ranking (retrieval-ranking.ts).                                          *)

SourcePriority(r) == CASE r.source = "hybrid" -> 3 [] r.source = "vector" -> 2 [] r.source = "keyword" -> 1

\* isDirectFaqCandidate and isFaqPriorityCandidate.
Direct(r, threshold) == r.id \in Entries /\ r.source \in {"keyword", "hybrid"} /\ r.keyword >= threshold

\* compareBase as a sequence of numbers, the smaller one first.
BaseKey(r) ==
    <<IF Direct(r, 65) THEN 0 ELSE 1, -r.fusion, -SourcePriority(r), Position(r.id)>>

RerankKey(r) ==
    <<IF Direct(r, 65) THEN 0 ELSE 1, -r.rerank, -r.fusion, -SourcePriority(r), Position(r.id)>>

\* rerankByLocalOverlap: a quarter fusion, three quarters shared terms.
Rerank(results, overlap) ==
    LET low == Min({r.fusion : r \in results})
        range == Max({r.fusion : r \in results}) - low
        Normal(r) == IF range = 0 THEN 1000 ELSE (1000 * (r.fusion - low)) \div range
    IN  {[r EXCEPT !.rerank = 25 * Normal(r) + 75 * overlap[r.id]] : r \in results}

Relevance(r, policy) == IF policy.rerank THEN r.rerank ELSE r.fusion

\* selectDiverseResults: the first, the best of each other type above the
\* floor, then the rest in their order; with two types the picks keep theirs.
Diverse(all, topK, policy) ==
    LET floor == Relevance(all[1], policy) * policy.ratio
        Good(t) == {i \in DOMAIN all : Type(all[i].id) = t /\ 100 * Relevance(all[i], policy) >= floor}
        others == {t \in KnowledgeTypes \ {Type(all[1].id)} : Good(t) # {}}
        picked == {1} \cup {Min(Good(t)) : t \in others}
        order == Sorted(DOMAIN all, [i \in DOMAIN all |-> <<IF i \in picked THEN 0 ELSE 1, i>>])
    IN  [i \in 1 .. Min({topK, Len(all)}) |-> all[order[i]]]

Select(all, topK, policy) ==
    IF topK <= 1 \/ Len(all) <= 1 THEN FirstOf(topK, all) ELSE Diverse(all, topK, policy)

\* rankRetrievalResults
Rank(results, topK, policy, overlap) ==
    IF results = {} THEN <<>>
    ELSE IF policy.rerank
         THEN LET reranked == Rerank(results, overlap)
              IN  Select(Sorted(reranked, [r \in reranked |-> RerankKey(r)]), topK, policy)
         ELSE Select(Sorted(results, [r \in results |-> BaseKey(r)]), topK, policy)

-----------------------------------------------------------------------------
(* Judging (evaluateGrounding).                                             *)

Decision(mode, status, reason, cites) ==
    [mode |-> mode, status |-> status, reason |-> reason, cites |-> cites]
Undecided == Decision("none", "none", "none", <<>>)

\* The first group of entries that answer one question differently: twins do.
Conflicting(results, eligible, a) ==
    LET Alike(i, j) == a.question[results[i].id] = a.question[results[j].id]
        split == {i \in eligible : \E j \in eligible :
                     Alike(i, j) /\ a.answer[results[i].id] # a.answer[results[j].id]}
    IN  {i \in split : Alike(i, Min(split))}

\* selectDirectFaqCandidates
DirectChoice(results, eligible, a) ==
    LET exact == {i \in eligible : a.question[results[i].id] = a.text}
    IN  IF exact # {} THEN exact ELSE IF Cardinality(eligible) = 1 THEN eligible ELSE {}

\* The results are told by their places.
Grounding(a, results) ==
    LET eligible == {i \in DOMAIN results : Direct(results[i], a.policy.direct)}
        conflicts == Conflicting(results, eligible, a)
        direct == DirectChoice(results, eligible, a)
        evidence == Max({results[1].keyword, results[1].vector, results[1].similarity})
        order == Sorted(conflicts, [i \in conflicts |-> <<i>>])
    IN  CASE a.explicit -> Decision("refusal", "escalated", "user_requested_human", <<>>)
          [] ~a.explicit /\ RequestsUnsupportedBusinessAction(a.clauses) ->
                Decision("refusal", "high_risk", "unsupported_business_action", FirstOf(3, results))
          [] OTHER ->
             CASE results = <<>> -> Decision("refusal", "insufficient", "no_evidence", <<>>)
               [] results # <<>> /\ conflicts # {} ->
                     Decision("refusal", "conflicting", "conflicting_direct_faq",
                              FirstOf(3, [k \in DOMAIN order |-> results[order[k]]]))
               [] results # <<>> /\ conflicts = {} /\ direct # {} ->
                     Decision("direct_faq", "sufficient", "direct_faq_match", <<results[Min(direct)]>>)
               [] results # <<>> /\ conflicts = {} /\ direct = {} /\ evidence < a.policy.generation ->
                     Decision("refusal", "insufficient", "weak_evidence", FirstOf(3, results))
               [] OTHER -> Decision("grounded_generation", "sufficient", "retrieval_supported", FirstOf(3, results))

-----------------------------------------------------------------------------
(* One search.                                                              *)

AnswerInit ==
    /\ step = "recall" /\ ask \in Asks
    /\ db = [id \in Ids |-> [rev |-> 1, active |-> TRUE]]
    /\ stored \in Stores
    /\ hits = <<>> /\ merged = [id \in Ids |-> NoResult] /\ ranked = <<>> /\ decision = Undecided
    /\ valid = [id \in Ids |-> {1}]

\* embedQueries and the vector search: either may fail, or find nothing stored.
VectorRecall ==
    /\ step = "recall"
    /\ \/ hits' = <<>>
       \/ \E score \in [Ids -> VectorScores] :
             LET Take(t) == Best({id \in Ids : Type(id) = t /\ score[id] > 0}, score, Pool(TopK(ask)))
                 found == ToSet(Take("faq")) \cup ToSet(Take("document"))
                 order == Best(found, score, Cardinality(found))
             IN  hits' = [i \in DOMAIN order |-> [id |-> order[i], score |-> score[order[i]],
                                                 rev |-> stored[order[i]].rev, profile |-> stored[order[i]].profile]]
    /\ step' = "hydrate"
    /\ UNCHANGED <<ask, db, stored, merged, ranked, decision, valid>>

\* The matches are read back from the database; a source may fail.
Hydrate ==
    /\ step = "hydrate"
    /\ \E failing \in SUBSET {"faq", "document"} : merged' = ByVector(failing)
    /\ step' = "keyword"
    /\ UNCHANGED <<ask, db, stored, hits, ranked, decision, valid>>

\* Keyword recall per source, on what is active now, and the fusion.
KeywordRecall ==
    /\ step = "keyword"
    /\ \E score \in [Ids -> KeywordScores] :
          LET Take(t) == Best({id \in Ids : Type(id) = t /\ db[id].active /\ score[id] > 0},
                              score, Pool(TopK(ask)))
              RankOf(id) == CHOOSE i \in DOMAIN Take(Type(id)) : Take(Type(id))[i] = id
          IN  merged' = [id \in Ids |-> IF id \in ToSet(Take(Type(id)))
                                        THEN WithKeyword(merged[id], id, score[id], RankOf(id)) ELSE merged[id]]
    /\ step' = "rank"
    /\ UNCHANGED <<ask, db, stored, hits, ranked, decision, valid>>

RankFound ==
    /\ step = "rank"
    /\ ranked' = Rank({merged[id] : id \in Ids} \ {NoResult}, TopK(ask), ask.policy, ask.overlap)
    /\ step' = "judge"
    /\ UNCHANGED <<ask, db, stored, hits, merged, decision, valid>>

Judge ==
    /\ step = "judge"
    /\ decision' = Grounding(ask, ranked)
    /\ step' = "done"
    /\ UNCHANGED <<ask, db, stored, hits, merged, ranked, valid>>

\* An administrator edits or hides an entry; its vector is renewed later.
EditEntry(id) ==
    /\ step \notin {"judge", "done"}
    /\ MapThenSumSet(LAMBDA x : db[x].rev - 1, Ids) < Edits
    /\ \E active \in BOOLEAN :
          /\ db' = [db EXCEPT ![id] = [rev |-> @.rev + 1, active |-> active]]
          /\ valid' = IF active THEN [valid EXCEPT ![id] = @ \cup {db[id].rev + 1}] ELSE valid
    /\ UNCHANGED <<step, ask, stored, hits, merged, ranked, decision>>

AnswerNext ==
    \/ VectorRecall \/ Hydrate \/ KeywordRecall \/ RankFound \/ Judge
    \/ \E id \in Ids : EditEntry(id)

-----------------------------------------------------------------------------
\* What is ranked is what was found: as much of it as was asked for, nothing
\* twice, an entry that answers by its words first, and every source that is
\* good enough represented (rankRetrievalResults, retrieveCandidates).
RankingSound ==
    step \in {"judge", "done"} =>
        LET found == {merged[id] : id \in Ids} \ {NoResult}
            shown == {ranked[i].id : i \in DOMAIN ranked}
        IN  /\ Len(ranked) = Min({TopK(ask), Cardinality(found)})
            /\ Cardinality(shown) = Len(ranked)
            /\ shown \subseteq {r.id : r \in found}
            /\ (\E r \in found : Direct(r, 65)) => Direct(ranked[1], 65)
            /\ \A r \in found : 100 * r.fusion >= ranked[1].fusion * ask.policy.ratio /\ ~ask.policy.rerank
                    => \E id \in shown : Type(id) = Type(r.id)

\* An answer rests on text that was active while it was sought, and a match by
\* vector is a match of that very text, although entries change between the
\* recall and the reading of the database (retrieveCandidates).
AnswerIsCurrent ==
    step = "done" => \A c \in ToSet(decision.cites) :
        c.rev \in valid[c.id] /\ (c.source # "keyword" => c.vrev = c.rev)

\* An action asked for in so many words is refused, wherever it stands in the
\* message; what is not refused has evidence, and no entry is quoted while
\* another one that was found answers its question differently
\* (requestsUnsupportedBusinessAction, evaluateGrounding).
AnswerIsGrounded ==
    step = "done" =>
        /\ (\E c \in ask.clauses : {"polite", "acts"} \subseteq c.tail /\ ~Exempt(c.tail) /\ "howto" \notin c.marks)
              => decision.mode = "refusal"
        /\ decision.mode # "refusal" => decision.cites # <<>>
        /\ decision.mode = "direct_faq" =>
              \A r \in ToSet(ranked) :
                  Direct(r, ask.policy.direct) /\ ask.question[r.id] = ask.question[decision.cites[1].id]
                      => ask.answer[r.id] = ask.answer[decision.cites[1].id]
=============================================================================
