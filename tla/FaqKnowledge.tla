----------------------------- MODULE FaqKnowledge -----------------------------
(***************************************************************************)
(* FAQ entries, their vectors in SQLite and in the process's index, and    *)
(* the review items that are converted to entries (faq.service.ts,         *)
(* semantic-search.ts, knowledge-adapters.ts, knowledge-retriever.ts,      *)
(* knowledge-review.service.ts).  Every operation reads entries, waits for *)
(* the embedding provider and then writes; administrators, a rebuild and a *)
(* change of the embedding model come in between.                          *)
(*                                                                         *)
(* The index is the in-memory store: its calls end within the step that    *)
(* makes them.                                                             *)
(***************************************************************************)
EXTENDS Naturals, FiniteSets

CONSTANTS
    Faqs,     \* ids of entries
    Reviews,  \* review items
    Jobs,     \* operations that may wait for an embedding at once
    Kinds,    \* the operations of this instance
    MaxClock, \* bound on writes that set updated_at
    MaxModel, \* embedding models
    MaxBoots, \* bound on crashes
    NoReview

ASSUME FaqAssumption ==
    /\ MaxClock \in Nat /\ MaxModel \in Nat \ {0} /\ MaxBoots \in Nat
    /\ Kinds \subseteq {"edit", "import", "refresh", "convert"} /\ NoReview \notin Reviews

VARIABLES
    rows,    \* faq_entries
    index,   \* the vectors of the process
    reviews, \* knowledge_review_items
    jobs,    \* operations that wait for an embedding
    model,   \* the configured model, which is the current embedding profile
    clock, boots

vars == <<rows, index, reviews, jobs, model, clock, boots>>

\* What an embedding was computed from: a version of the text, and a model.
Vector == [text : 1..MaxClock, by : 1..MaxModel]
NoVector == [text |-> 0, by |-> 0]

\* updated_at is the clock; every write of an entry has one of its own.  label:
\* embedding_profile.  from: the review an entry was made for.
Row == [on : BOOLEAN, text : 0..MaxClock, rev : 0..MaxClock, vec : Vector \cup {NoVector},
        label : 0..MaxModel, from : Reviews \cup {NoReview}]
NoRow == [on |-> FALSE, text |-> 0, rev |-> 0, vec |-> NoVector, label |-> 0, from |-> NoReview]

\* A vector record: the revision and the profile it claims.
Entry == [rev : 0..MaxClock, vec : Vector \cup {NoVector}, label : 0..MaxModel]
NoEntry == [rev |-> 0, vec |-> NoVector, label |-> 0]

Review == [status : {"pending", "converted", "dismissed"}, faq : SUBSET Faqs]

\* seen: the entries as they were read.  by: the model that embeds them.  label:
\* the profile at the start.
Seen == [text : 1..MaxClock, rev : 1..MaxClock]
Job == [kind : {"edit", "import", "refresh", "convert"}, seen : UNION {[S -> Seen] : S \in SUBSET Faqs},
        tries : 0..2, by : 1..MaxModel, label : 1..MaxModel, review : Reviews \cup {NoReview}]
Idle == [kind |-> "idle", seen |-> [f \in {} |-> 0], tries |-> 0, by |-> 1, label |-> 1,
         review |-> NoReview]

\* One type invariant.
TypeOK ==
    /\ rows \in [Faqs -> Row] /\ index \in [Faqs -> Entry]
    /\ reviews \in [Reviews -> Review]
    /\ jobs \in [Jobs -> Job \cup {Idle}]
    /\ model \in 1..MaxModel /\ clock \in 0..MaxClock /\ boots \in 0..MaxBoots

Present(f) == rows[f].rev # 0

\* Ids are uuids: that of a removed entry comes back only once nothing holds it.
Fresh(f) == ~Present(f) /\ index[f] = NoEntry /\ \A j \in Jobs : f \notin DOMAIN jobs[j].seen
Current(row) == row.vec # NoVector /\ row.label = model

Init ==
    /\ rows = [f \in Faqs |-> NoRow] /\ index = [f \in Faqs |-> NoEntry]
    /\ reviews = [r \in Reviews |-> [status |-> "pending", faq |-> {}]]
    /\ jobs = [j \in Jobs |-> Idle]
    /\ model = 1 /\ clock = 0 /\ boots = 0

-----------------------------------------------------------------------------
(* Helpers.                                                                *)

now == clock + 1
Tick == clock < MaxClock /\ clock' = now

\* faqRepo.create.
NewRow(on, r) ==
    [on |-> on, text |-> now, rev |-> now, vec |-> NoVector, label |-> 0, from |-> r]

\* An operation begins to wait for the embeddings of the entries S of table t.
Call(kind, S, t, tries, r) ==
    [kind |-> kind, seen |-> [f \in S |-> [text |-> t[f].text, rev |-> t[f].rev]],
     tries |-> tries, by |-> model, label |-> model, review |-> r]

Wait(j, call) == jobs' = [jobs EXCEPT ![j] = call]
Done(j) == Wait(j, Idle)

\* toVectorRecord labels a record with the profile of the moment; a record
\* without a vector is not stored.
Record(row) ==
    IF row.vec = NoVector THEN NoEntry ELSE [rev |-> row.rev, vec |-> row.vec, label |-> model]

Upsert(f, row) == index' = [index EXCEPT ![f] = Record(row)]
Drop(f) == index' = [index EXCEPT ![f] = NoEntry]

\* Mutant: an embedding is stored whatever became of the entry.
UnchangedAny(j) == \A f \in DOMAIN jobs[j].seen : Present(f)

\* The compare-and-swap of the embedding writes, on updated_at.
Unchanged(j) == \A f \in DOMAIN jobs[j].seen : rows[f].rev = jobs[j].seen[f].rev

\* The rows once the job's embeddings are stored under a profile.
Embedded(j, label) ==
    [f \in Faqs |-> IF f \in DOMAIN jobs[j].seen
        THEN [rows[f] EXCEPT !.vec = [text |-> jobs[j].seen[f].text, by |-> jobs[j].by], !.label = label]
        ELSE rows[f]]

-----------------------------------------------------------------------------
(* Entries.                                                                *)

\* updateIndex up to its first await.
UpdateIndex(f, t) ==
    \/ ~t[f].on /\ Drop(f) /\ UNCHANGED jobs
    \/ t[f].on /\ Current(t[f]) /\ Upsert(f, t[f]) /\ UNCHANGED jobs
    \/ /\ t[f].on /\ ~Current(t[f]) /\ UNCHANGED index
       /\ \E j \in Jobs : jobs[j] = Idle /\ Wait(j, Call("edit", {f}, t, 0, NoReview))

\* createFaq.
Create(f) ==
    /\ "edit" \in Kinds /\ Fresh(f) /\ Tick
    /\ rows' = [rows EXCEPT ![f] = NewRow(TRUE, NoReview)]
    /\ UpdateIndex(f, rows')
    /\ UNCHANGED <<reviews, model, boots>>

\* updateFaq changes the text, which takes the vector away, or switches the entry
\* on or off (DELETE of the route does), or touches it.
Edited(f, on, newText) ==
    [rows[f] EXCEPT !.on = on, !.rev = now,
                    !.text = IF newText THEN now ELSE @,
                    !.vec = IF newText THEN NoVector ELSE @,
                    !.label = IF newText THEN 0 ELSE @]

Edit(f) ==
    /\ "edit" \in Kinds /\ Present(f) /\ Tick
    /\ \E on, newText \in BOOLEAN : rows' = [rows EXCEPT ![f] = Edited(f, on, newText)]
    /\ UpdateIndex(f, rows')
    /\ UNCHANGED <<reviews, model, boots>>

\* importFaq creates entries and embeds them together.
Import ==
    /\ "import" \in Kinds /\ Tick
    /\ \E S \in (SUBSET {f \in Faqs : Fresh(f)}) \ {{}}, j \in Jobs :
         /\ jobs[j] = Idle
         /\ rows' = [f \in Faqs |-> IF f \in S THEN NewRow(TRUE, NoReview) ELSE rows[f]]
         /\ Wait(j, Call("import", S, rows', 0, NoReview))
    /\ UNCHANGED <<index, reviews, model, boots>>

\* loadIndexItems finds what to embed; refreshSource runs once at a time.
Stale == {f \in Faqs : rows[f].on /\ ~Current(rows[f])}
Loaded(t) == [f \in Faqs |-> IF t[f].on THEN Record(t[f]) ELSE NoEntry]

Refresh ==
    /\ "refresh" \in Kinds /\ \A j \in Jobs : jobs[j] # Idle => jobs[j].kind # "refresh"
    /\ \/ Stale = {} /\ index' = Loaded(rows) /\ UNCHANGED jobs
       \/ /\ Stale # {} /\ UNCHANGED index
          /\ \E j \in Jobs : jobs[j] = Idle /\ Wait(j, Call("refresh", Stale, rows, 0, NoReview))
    /\ UNCHANGED <<rows, reviews, model, clock, boots>>

-----------------------------------------------------------------------------
(* What an operation does once its embeddings have come.                   *)

Waiting(j, kind) == jobs[j] # Idle /\ jobs[j].kind = kind
Target(j) == CHOOSE f \in DOMAIN jobs[j].seen : TRUE

\* persistCurrentFaqEmbedding: an entry that changed is read again, three times.
Again(j, f) ==
    /\ ~Unchanged(j) /\ jobs[j].tries < 2 /\ rows[f].on /\ ~Current(rows[f])
    /\ Wait(j, Call("edit", {f}, rows, jobs[j].tries + 1, NoReview))
    /\ UNCHANGED index

EditEnds(j) ==
    /\ Waiting(j, "edit")
    /\ LET f == Target(j) IN
         \/ /\ Unchanged(j) /\ rows' = Embedded(j, model)
            /\ Upsert(f, rows'[f]) /\ Done(j)
         \/ /\ ~Unchanged(j) /\ jobs[j].tries < 2 /\ rows[f].on /\ Current(rows[f])
            /\ Upsert(f, rows[f]) /\ Done(j) /\ UNCHANGED rows
         \/ /\ ~Unchanged(j) /\ (jobs[j].tries = 2 \/ ~rows[f].on)
            /\ Drop(f) /\ Done(j) /\ UNCHANGED rows
         \/ Again(j, f) /\ UNCHANGED rows
    /\ UNCHANGED <<reviews, model, clock, boots>>

\* updateIndexBatch: all of the embeddings are stored, or none.
Batch(j, t) ==
    index' = [f \in Faqs |-> IF f \in DOMAIN jobs[j].seen /\ t[f].on /\ t[f].vec # NoVector
                             THEN Record(t[f]) ELSE index[f]]

ImportEnds(j) ==
    /\ Waiting(j, "import") /\ Done(j)
    /\ \/ Unchanged(j) /\ rows' = Embedded(j, jobs[j].label) /\ Batch(j, rows')
       \/ ~Unchanged(j) /\ UNCHANGED <<rows, index>>
    /\ UNCHANGED <<reviews, model, clock, boots>>

\* applySourceRefresh: all of the embeddings are stored, and the index replaced.
RefreshEnds(j) ==
    /\ Waiting(j, "refresh") /\ Done(j)
    /\ \/ Unchanged(j) /\ rows' = Embedded(j, jobs[j].label) /\ index' = Loaded(rows')
       \/ ~Unchanged(j) /\ UNCHANGED <<rows, index>>
    /\ UNCHANGED <<reviews, model, clock, boots>>

\* The embedding call fails after its retries.  An edit takes the vector of the
\* entry away; an import still stores what others have embedded.
EmbedFails(j) ==
    /\ jobs[j] # Idle /\ Done(j)
    /\ \/ Waiting(j, "edit") /\ Drop(Target(j))
       \/ Waiting(j, "import") /\ Batch(j, rows)
       \/ jobs[j].kind \in {"refresh", "convert"} /\ UNCHANGED index
    /\ UNCHANGED <<rows, reviews, model, clock, boots>>

\* A retry of the call reads the model again (llm-client.ts).
Retry(j) ==
    /\ jobs[j] # Idle /\ jobs[j].by # model
    /\ jobs' = [jobs EXCEPT ![j].by = model]
    /\ UNCHANGED <<rows, index, reviews, model, clock, boots>>

-----------------------------------------------------------------------------
(* Reviews.                                                                *)

\* Mutant: every conversion makes an entry of its own.
LinkedNew(r) == {}

\* linked_faq_id.
Linked(r) == reviews[r].faq

\* convert up to its await; a converted item is answered at once.
Convert(r) ==
    /\ "convert" \in Kinds /\ reviews[r].status = "pending"
    /\ \/ /\ Linked(r) = {} /\ Tick
          /\ \E f \in Faqs :
               /\ Fresh(f)
               /\ rows' = [rows EXCEPT ![f] = NewRow(FALSE, r)]
               /\ reviews' = [reviews EXCEPT ![r].faq = {f}]
       \/ /\ Linked(r) # {} /\ (\A f \in Linked(r) : Present(f)) /\ UNCHANGED <<rows, reviews, clock>>
    /\ \E j \in Jobs : jobs[j] = Idle /\ Wait(j, Call("convert", reviews'[r].faq, rows', 0, r))
    /\ UNCHANGED <<index, model, boots>>

\* The index takes the entry as it was read, with its new vector.
Prepared(j, f) ==
    [rev |-> jobs[j].seen[f].rev,
     vec |-> [text |-> jobs[j].seen[f].text, by |-> jobs[j].by], label |-> model]

\* The item was dismissed, or the entry is gone: the vector is taken out again.
TooLate(j, f) ==
    /\ reviews[jobs[j].review].status = "dismissed" \/ ~Present(f)
    /\ Drop(f) /\ UNCHANGED <<rows, reviews, clock>>

\* The last transaction of convert, after commitPreparedIndex.
Converted(j, f) ==
    /\ reviews[jobs[j].review].status # "dismissed" /\ Present(f) /\ Tick
    /\ index' = [index EXCEPT ![f] = Prepared(j, f)]
    /\ rows' = [rows EXCEPT ![f].vec = Prepared(j, f).vec, ![f].label = model,
                            ![f].on = TRUE, ![f].rev = now]
    /\ reviews' = [reviews EXCEPT ![jobs[j].review].status = "converted"]

ConvertEnds(j) ==
    /\ Waiting(j, "convert") /\ Done(j)
    /\ LET f == Target(j) IN TooLate(j, f) \/ Converted(j, f)
    /\ UNCHANGED <<model, boots>>

MayDismiss(r) == reviews[r].status = "pending" /\ \A f \in Linked(r) : ~rows[f].on

\* Mutant: the entry that was made for the item is left behind.
WithoutLinkedKeeps(r) == rows

\* dismiss takes an entry that was never switched on with it.
WithoutLinked(r) == [f \in Faqs |-> IF f \in Linked(r) THEN NoRow ELSE rows[f]]

Dismiss(r) ==
    /\ "convert" \in Kinds /\ MayDismiss(r)
    /\ rows' = WithoutLinked(r)
    /\ reviews' = [reviews EXCEPT ![r] = [status |-> "dismissed", faq |-> {}]]
    /\ UNCHANGED <<index, jobs, model, clock, boots>>

-----------------------------------------------------------------------------
(* The process.                                                            *)

\* configService.save.
SwitchModel ==
    /\ \E m \in 1..MaxModel : m # model /\ model' = m
    /\ UNCHANGED <<rows, index, reviews, jobs, clock, boots>>

\* A crash loses the index and the operations; the next start loads the index.
Crash ==
    /\ boots < MaxBoots /\ boots' = boots + 1
    /\ index' = [f \in Faqs |-> NoEntry] /\ jobs' = [j \in Jobs |-> Idle]
    /\ UNCHANGED <<rows, reviews, model, clock>>

Next ==
    \/ \E f \in Faqs : Create(f) \/ Edit(f)
    \/ Import \/ Refresh
    \/ \E j \in Jobs : EditEnds(j) \/ ImportEnds(j) \/ RefreshEnds(j) \/ ConvertEnds(j)
                       \/ EmbedFails(j) \/ Retry(j)
    \/ \E r \in Reviews : Convert(r) \/ Dismiss(r)
    \/ SwitchModel \/ Crash

Spec == Init /\ [][Next]_vars

-----------------------------------------------------------------------------
(* Properties.                                                             *)

\* hydrateVectorMatches and the filter of retrieveCandidates: a match counts for
\* an active entry of the same revision and profile.
Served(f) == rows[f].on /\ index[f].rev = rows[f].rev /\ index[f].label = model

\* An entry is never found by the vector of a text it no longer has, however
\* edits, imports, rebuilds and their embedding calls overlap.  For an entry that
\* a review was converted to, or two edits in one millisecond, the code does not
\* ensure it: see the README.
ServedTextIsCurrent == \A f \in Faqs :
    rows[f].from = NoReview /\ Served(f) => index[f].vec.text = rows[f].text

\* A dismissed item leaves no entry behind, and an entry that is switched off or
\* removed no vector, even when conversions and embeddings of it were under way.
DismissLeavesNothing ==
    /\ \A r \in Reviews, f \in Faqs : reviews[r].status = "dismissed" => rows[f].from # r
    /\ \A f \in Faqs : index[f] # NoEntry => rows[f].on

\* Retries and concurrent conversions of an item make one entry, and a converted
\* item keeps it.
OneFaqPerReview == \A r \in Reviews :
    /\ {f \in Faqs : rows[f].from = r} = reviews[r].faq
    /\ Cardinality(reviews[r].faq) <= 1
    /\ reviews[r].status = "converted" => reviews[r].faq # {}
=============================================================================
