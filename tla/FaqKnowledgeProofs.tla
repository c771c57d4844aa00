-------------------------- MODULE FaqKnowledgeProofs --------------------------
(***************************************************************************)
(* Proofs about FAQ entries: for any numbers of entries, reviews and       *)
(* operations, an entry is never served by the vector of another text, a   *)
(* dismissed review leaves nothing behind, and a review has one entry.     *)
(*                                                                         *)
(* The argument is that a revision is written once.  What an operation has *)
(* read of an entry is therefore either still true of it, or carries a     *)
(* revision that the entry will not have again; and the id of a removed    *)
(* entry comes back only when no operation holds it.                       *)
(***************************************************************************)
EXTENDS FaqKnowledge, FiniteSetTheorems, TLAPS

\* A row at clock c.  The vector of an entry that no review was converted to is
\* that of its text.
RowSound(row, c) ==
    /\ row \in Row /\ row.rev <= c
    /\ row.rev = 0 => row = NoRow
    /\ row.rev # 0 => row.text # 0
    /\ row.from = NoReview /\ row.vec # NoVector => row.vec.text = row.text

\* A vector record beside the row of its entry.
EntrySound(entry, row, c) ==
    /\ entry \in Entry /\ entry.rev <= c
    /\ entry # NoEntry => row.on
    /\ row.from = NoReview /\ row.rev # 0 /\ entry.rev = row.rev => entry.vec.text = row.text

\* What an operation read of an entry, beside the entry's row.
SeenSound(seen, kind, review, row, c) ==
    /\ seen.rev <= c
    /\ seen.rev = row.rev => seen.text = row.text /\ (kind = "edit" => row.on)
    /\ kind = "convert" /\ row.rev # 0 => row.from = review

JobSound(job, t, c) ==
    /\ job \in Job \cup {Idle}
    /\ job # Idle => DOMAIN job.seen # {}
    /\ job.kind = "convert" => job.review \in Reviews
    /\ \A f \in DOMAIN job.seen : SeenSound(job.seen[f], job.kind, job.review, t[f], c)

ReviewSound(r) ==
    /\ \A f \in Faqs : rows[f].from = r <=> f \in reviews[r].faq
    /\ Cardinality(reviews[r].faq) <= 1
    /\ reviews[r].status = "converted" => reviews[r].faq # {}
    /\ reviews[r].status = "dismissed" => reviews[r].faq = {}

\* The conjuncts of the inductive invariant.
RowsSound == rows \in [Faqs -> Row] /\ \A f \in Faqs : RowSound(rows[f], clock)
IndexSound == index \in [Faqs -> Entry] /\ \A f \in Faqs : EntrySound(index[f], rows[f], clock)
JobsSound == jobs \in [Jobs -> Job \cup {Idle}] /\ \A j \in Jobs : JobSound(jobs[j], rows, clock)
ReviewsSound == reviews \in [Reviews -> Review] /\ \A r \in Reviews : ReviewSound(r)
Counters == model \in 1..MaxModel /\ clock \in 0..MaxClock /\ boots \in 0..MaxBoots

IInv == RowsSound /\ IndexSound /\ JobsSound /\ ReviewsSound /\ Counters

-----------------------------------------------------------------------------
(* One row, one vector record and one operation.                           *)

\* What a write may do to a row: leave what operations read of it, give it a
\* revision of its own, or remove it.
Kept(row, new, c) ==
    \/ new.on = row.on /\ new.text = row.text /\ new.rev = row.rev /\ new.from = row.from
    \/ new.rev = c + 1 /\ new.from = row.from /\ row.rev # 0
    \/ new.rev = 0

\* What an operation has read stays sound (updated_at).
LEMMA SeenKept ==
    ASSUME NEW seen \in Seen, NEW kind, NEW review, NEW row \in Row, NEW new \in Row,
           NEW c \in Nat, NEW d \in {c, c + 1}, Kept(row, new, c),
           SeenSound(seen, kind, review, row, c)
    PROVE  SeenSound(seen, kind, review, new, d)
<1>1. /\ seen.rev \in Nat /\ seen.rev > 0 /\ seen.rev <= c
      /\ row.rev \in Nat /\ new.rev \in Nat
    BY FaqAssumption DEF Seen, Row, SeenSound
<1>2. seen.rev <= d
    BY <1>1
<1>3. CASE new.on = row.on /\ new.text = row.text /\ new.rev = row.rev /\ new.from = row.from
    BY <1>2, <1>3 DEF SeenSound
<1>4. CASE new.rev = c + 1 /\ new.from = row.from /\ row.rev # 0
    BY <1>1, <1>2, <1>4 DEF SeenSound
<1>5. CASE new.rev = 0
    BY <1>1, <1>2, <1>5 DEF SeenSound
<1> QED
    BY <1>3, <1>4, <1>5 DEF Kept

\* The entries an operation has read have the type Seen.
LEMMA SeenType ==
    ASSUME NEW job \in Job \cup {Idle}, NEW f \in DOMAIN job.seen
    PROVE  f \in Faqs /\ job.seen[f] \in Seen /\ job \in Job
<1>1. job # Idle
    BY DEF Idle
<1>2. job \in Job /\ job.seen \in UNION {[S -> Seen] : S \in SUBSET Faqs}
    BY <1>1 DEF Job
<1>3. PICK S \in SUBSET Faqs : job.seen \in [S -> Seen]
    BY <1>2
<1> QED
    BY <1>2, <1>3

\* An operation that goes on waiting stays sound.
LEMMA JobKept ==
    ASSUME NEW t \in [Faqs -> Row], NEW u \in [Faqs -> Row], NEW c \in Nat,
           NEW d \in {c, c + 1}, NEW job, JobSound(job, t, c),
           \A f \in DOMAIN job.seen : Kept(t[f], u[f], c)
    PROVE  JobSound(job, u, d)
<1>1. ASSUME NEW f \in DOMAIN job.seen
      PROVE  SeenSound(job.seen[f], job.kind, job.review, u[f], d)
    <2>1. job \in Job \cup {Idle} /\ SeenSound(job.seen[f], job.kind, job.review, t[f], c)
        BY <1>1 DEF JobSound
    <2>2. f \in Faqs /\ job.seen[f] \in Seen
        BY <1>1, <2>1, SeenType
    <2> QED
        BY <1>1, <2>1, <2>2, SeenKept
<1> QED
    BY <1>1 DEF JobSound

LEMMA IdleSound ==
    ASSUME NEW t, NEW c
    PROVE  JobSound(Idle, t, c)
BY DEF JobSound, Idle

\* An operation that begins to wait has read the rows of the moment (updateIndex,
\* importFaq, refreshSource, convert).
LEMMA CallSound ==
    ASSUME NEW kind \in {"edit", "import", "refresh", "convert"}, NEW S \in SUBSET Faqs, S # {},
           NEW t \in [Faqs -> Row], NEW tries \in 0..2, NEW r \in Reviews \cup {NoReview},
           NEW c \in 0..MaxClock, model \in 1..MaxModel, kind = "convert" => r \in Reviews,
           \A f \in S : /\ RowSound(t[f], c) /\ t[f].rev # 0
                        /\ kind = "edit" => t[f].on
                        /\ kind = "convert" => t[f].from = r
    PROVE  JobSound(Call(kind, S, t, tries, r), t, c)
<1> DEFINE seen == [f \in S |-> [text |-> t[f].text, rev |-> t[f].rev]]
           call == Call(kind, S, t, tries, r)
<1>1. ASSUME NEW f \in S
      PROVE  seen[f] \in Seen /\ t[f].rev <= c
    BY <1>1, FaqAssumption DEF RowSound, Row, Seen
<1>2. seen \in UNION {[T -> Seen] : T \in SUBSET Faqs}
    <2>1. seen \in [S -> Seen]
        BY <1>1
    <2> QED
        BY <2>1
<1>3. /\ call.kind = kind /\ call.seen = seen /\ call.tries = tries /\ call.by = model
      /\ call.label = model /\ call.review = r
    BY DEF Call
<1>4. call \in Job
    <2> HIDE DEF seen
    <2> QED
        BY <1>2 DEF Call, Job, seen
<1>5. ASSUME NEW f \in S
      PROVE  SeenSound(seen[f], kind, r, t[f], c)
    BY <1>1, <1>5 DEF SeenSound
<1> QED
    BY <1>3, <1>4, <1>5 DEF JobSound

\* toVectorRecord.
LEMMA RecordSound ==
    ASSUME NEW row, NEW c \in 0..MaxClock, RowSound(row, c), row.on, model \in 1..MaxModel
    PROVE  EntrySound(Record(row), row, c)
<1>1. row.rev \in 0..MaxClock /\ row.vec \in Vector \cup {NoVector} /\ row.rev <= c
    BY DEF RowSound, Row
<1>2. CASE row.vec = NoVector
    BY <1>2, FaqAssumption DEF Record, NoEntry, Entry, EntrySound, NoVector
<1>3. CASE row.vec # NoVector
    <2>1. Record(row) = [rev |-> row.rev, vec |-> row.vec, label |-> model]
        BY <1>3 DEF Record
    <2>2. Record(row) \in Entry
        BY <1>1, <2>1, FaqAssumption DEF Entry
    <2> QED
        BY <1>1, <1>3, <2>1, <2>2 DEF EntrySound, RowSound
<1> QED
    BY <1>2, <1>3

LEMMA NoEntrySound ==
    ASSUME NEW row \in Row, NEW c \in Nat
    PROVE  EntrySound(NoEntry, row, c)
BY FaqAssumption DEF EntrySound, NoEntry, Entry, NoVector, Row

\* An index that a write leaves alone stays sound where the entry stays on.
LEMMA EntryKept ==
    ASSUME NEW entry, NEW row \in Row, NEW new \in Row, NEW c \in Nat, NEW d \in {c, c + 1},
           EntrySound(entry, row, c), Kept(row, new, c), entry # NoEntry => new.on
    PROVE  EntrySound(entry, new, d)
<1>1. entry.rev \in Nat /\ entry.rev <= c /\ entry \in Entry /\ new.rev \in Nat
    BY FaqAssumption DEF EntrySound, Entry, Row
<1>2. CASE new.on = row.on /\ new.text = row.text /\ new.rev = row.rev /\ new.from = row.from
    BY <1>1, <1>2 DEF EntrySound
<1>3. CASE new.rev = c + 1
    BY <1>1, <1>3 DEF EntrySound
<1>4. CASE new.rev = 0
    BY <1>1, <1>4 DEF EntrySound
<1> QED
    BY <1>2, <1>3, <1>4 DEF Kept

-----------------------------------------------------------------------------
(* The rows that the operations write.                                     *)

\* A removed entry, and an entry that was just made (faqRepo.create).
LEMMA NoRowSound ==
    ASSUME NEW c \in Nat
    PROVE  RowSound(NoRow, c)
BY FaqAssumption DEF RowSound, NoRow, Row, NoVector

LEMMA NewRowSound ==
    ASSUME NEW on \in BOOLEAN, NEW r \in Reviews \cup {NoReview}, now \in 1..MaxClock
    PROVE  RowSound(NewRow(on, r), now) /\ NewRow(on, r).rev = now
<1>1. NewRow(on, r) \in Row
    BY FaqAssumption DEF NewRow, Row, NoVector
<1> HIDE DEF now
<1> QED
    BY <1>1 DEF NewRow, RowSound

\* A row stays sound as the clock goes on.
LEMMA RowLater ==
    ASSUME NEW row, NEW c \in Nat, NEW d \in {c, c + 1}, RowSound(row, c)
    PROVE  RowSound(row, d)
BY FaqAssumption DEF RowSound, Row

\* An administrator's edit of an entry that is there.
LEMMA EditedSound ==
    ASSUME IInv, NEW f \in Faqs, Present(f), Tick, NEW on \in BOOLEAN, NEW newText \in BOOLEAN
    PROVE  /\ RowSound(Edited(f, on, newText), now)
           /\ Edited(f, on, newText).rev = now /\ Edited(f, on, newText).on = on
           /\ Edited(f, on, newText).from = rows[f].from
<1> DEFINE e == Edited(f, on, newText)
<1>1. now \in 1..MaxClock
    BY FaqAssumption DEF IInv, Counters, Tick, now
<1>2. rows[f] \in Row /\ RowSound(rows[f], clock) /\ rows[f].rev # 0
    BY DEF IInv, RowsSound, Present
<1>3. /\ e.on = on /\ e.rev = now /\ e.from = rows[f].from
      /\ e.text = IF newText THEN now ELSE rows[f].text
      /\ e.vec = IF newText THEN NoVector ELSE rows[f].vec
      /\ e.label = IF newText THEN 0 ELSE rows[f].label
    BY <1>2 DEF Edited, Row
<1>4. /\ now \in 0..MaxClock
      /\ (IF newText THEN now ELSE rows[f].text) \in 0..MaxClock
      /\ (IF newText THEN NoVector ELSE rows[f].vec) \in Vector \cup {NoVector}
      /\ (IF newText THEN 0 ELSE rows[f].label) \in 0..MaxModel
    BY <1>1, <1>2, FaqAssumption DEF Row
<1>5. e \in Row
    <2> HIDE DEF now
    <2> QED
        BY <1>2, <1>4 DEF Edited, Row
<1> HIDE DEF e, now
<1>6. RowSound(e, now)
    BY <1>1, <1>2, <1>3, <1>5 DEF RowSound
<1> QED
    BY <1>3, <1>6 DEF e

\* The rows once the embeddings of an operation are stored, by the
\* compare-and-swap on the revisions that it has read.
LEMMA EmbeddedSound ==
    ASSUME IInv, NEW j \in Jobs, Unchanged(j), NEW label \in 1..MaxModel, NEW f \in Faqs
    PROVE  /\ RowSound(Embedded(j, label)[f], clock)
           /\ Embedded(j, label)[f].on = rows[f].on /\ Embedded(j, label)[f].text = rows[f].text
           /\ Embedded(j, label)[f].rev = rows[f].rev /\ Embedded(j, label)[f].from = rows[f].from
<1> DEFINE job == jobs[j]
           e == Embedded(j, label)[f]
<1>1. rows[f] \in Row /\ RowSound(rows[f], clock)
    BY DEF IInv, RowsSound
<1>2. CASE f \notin DOMAIN job.seen
    BY <1>1, <1>2 DEF Embedded
<1>3. CASE f \in DOMAIN job.seen
    <2>1. job \in Job \cup {Idle} /\ SeenSound(job.seen[f], job.kind, job.review, rows[f], clock)
        BY <1>3 DEF IInv, JobsSound, JobSound
    <2>2. job \in Job /\ job.seen[f] \in Seen
        BY <1>3, <2>1, SeenType
    <2>3. job.seen[f].rev = rows[f].rev
        BY <1>3 DEF Unchanged
    <2>4. /\ job.seen[f].text = rows[f].text /\ job.seen[f].text \in 1..MaxClock
          /\ rows[f].rev # 0 /\ job.by \in 1..MaxModel
        BY <2>1, <2>2, <2>3 DEF SeenSound, Seen, Job
    <2>5. e = [rows[f] EXCEPT !.vec = [text |-> job.seen[f].text, by |-> job.by], !.label = label]
        BY <1>3 DEF Embedded
    <2> DEFINE vec == [text |-> rows[f].text, by |-> job.by]
    <2>6. vec \in Vector /\ vec.text = rows[f].text
        BY <2>4 DEF Vector
    <2>7. e = [rows[f] EXCEPT !.vec = vec, !.label = label]
        BY <2>4, <2>5
    <2> HIDE DEF vec, job
    <2>8. /\ e.on = rows[f].on /\ e.text = rows[f].text /\ e.rev = rows[f].rev
          /\ e.from = rows[f].from /\ e.vec = vec
        BY <1>1, <2>7 DEF Row
    <2>9. e \in Row
        <3>1. label \in 0..MaxModel /\ vec \in Vector \cup {NoVector}
            BY <2>6, FaqAssumption
        <3> QED
            BY <1>1, <2>7, <3>1 DEF Row
    <2> HIDE DEF e
    <2>10. RowSound(e, clock)
        BY <1>1, <2>4, <2>6, <2>8, <2>9 DEF RowSound
    <2> QED
        BY <2>8, <2>10 DEF e
<1> QED
    BY <1>2, <1>3

-----------------------------------------------------------------------------
(* What a step leaves alone.                                               *)

\* The operations under way, when an operation begins or ends.
LEMMA JobsNext ==
    ASSUME IInv, rows' \in [Faqs -> Row], clock' \in {clock, clock + 1},
           \A i \in Jobs : \A f \in DOMAIN jobs[i].seen : Kept(rows[f], rows'[f], clock),
           NEW j \in Jobs, NEW call, jobs' = [jobs EXCEPT ![j] = call] \/ jobs' = jobs,
           JobSound(call, rows', clock')
    PROVE  JobsSound'
<1>1. clock \in Nat /\ rows \in [Faqs -> Row] /\ jobs \in [Jobs -> Job \cup {Idle}]
    BY FaqAssumption DEF IInv, Counters, RowsSound, JobsSound
<1>2. ASSUME NEW i \in Jobs
      PROVE  JobSound(jobs[i], rows', clock')
    <2>1. JobSound(jobs[i], rows, clock)
        BY DEF IInv, JobsSound
    <2> QED
        BY <1>1, <2>1, JobKept
<1>3. call \in Job \cup {Idle}
    BY DEF JobSound
<1>4. jobs' \in [Jobs -> Job \cup {Idle}]
    BY <1>1, <1>3
<1>5. ASSUME NEW i \in Jobs
      PROVE  JobSound(jobs'[i], rows', clock')
    BY <1>1, <1>2
<1> QED
    BY <1>4, <1>5 DEF JobsSound

\* The reviews, when no entry changes the review it was made for.
LEMMA ReviewsKept ==
    ASSUME IInv, UNCHANGED reviews, \A f \in Faqs : rows'[f].from = rows[f].from
    PROVE  ReviewsSound'
BY DEF IInv, ReviewsSound, ReviewSound

\* An id that is free: no row, no vector, and no operation that read it.
LEMMA FreshRow ==
    ASSUME IInv, NEW f \in Faqs, Fresh(f)
    PROVE  /\ rows[f] = NoRow /\ index[f] = NoEntry
           /\ \A j \in Jobs : f \notin DOMAIN jobs[j].seen
BY DEF IInv, RowsSound, RowSound, Fresh, Present

\* updateIndex after a write of entry f.
LEMMA UpdateIndexSound ==
    ASSUME IInv, RowsSound', NEW f \in Faqs, rows'[f].rev # 0, UpdateIndex(f, rows'),
           clock' \in {clock, clock + 1}, clock' \in 0..MaxClock,
           \A g \in Faqs \ {f} : rows'[g] = rows[g],
           \A i \in Jobs : f \in DOMAIN jobs[i].seen => Kept(rows[f], rows'[f], clock),
           index[f] = NoEntry \/ Kept(rows[f], rows'[f], clock)
    PROVE  IndexSound' /\ JobsSound'
<1>1. /\ clock \in Nat /\ clock' \in Nat /\ rows \in [Faqs -> Row] /\ rows' \in [Faqs -> Row]
      /\ jobs \in [Jobs -> Job \cup {Idle}] /\ index \in [Faqs -> Entry] /\ model \in 1..MaxModel
    BY FaqAssumption DEF IInv, Counters, RowsSound, JobsSound, IndexSound
<1>2. \A i \in Jobs : \A g \in DOMAIN jobs[i].seen : Kept(rows[g], rows'[g], clock)
    <2>1. ASSUME NEW i \in Jobs, NEW g \in DOMAIN jobs[i].seen
          PROVE  Kept(rows[g], rows'[g], clock)
        <3>1. g \in Faqs
            BY <1>1, SeenType
        <3>2. CASE g # f
            BY <3>1, <3>2 DEF Kept
        <3>3. CASE g = f
            BY <3>3
        <3> QED
            BY <3>2, <3>3
    <2> QED
        BY <2>1
<1>3. ASSUME NEW g \in Faqs, g # f
      PROVE  EntrySound(index[g], rows'[g], clock')
    <2>1. EntrySound(index[g], rows[g], clock) /\ rows'[g] = rows[g]
        BY <1>3 DEF IInv, IndexSound
    <2>2. Kept(rows[g], rows'[g], clock) /\ (index[g] # NoEntry => rows'[g].on)
        BY <2>1 DEF Kept, EntrySound
    <2> QED
        BY <1>1, <2>1, <2>2, EntryKept
<1>4. RowSound(rows'[f], clock') /\ rows'[f] \in Row
    BY DEF RowsSound
<1>5. ASSUME NEW entry, index' = [index EXCEPT ![f] = entry], EntrySound(entry, rows'[f], clock')
      PROVE  IndexSound'
    <2>1. index' \in [Faqs -> Entry]
        BY <1>1, <1>5 DEF EntrySound
    <2>2. ASSUME NEW g \in Faqs
          PROVE  EntrySound(index'[g], rows'[g], clock')
        BY <1>1, <1>3, <1>5
    <2> QED
        BY <2>1, <2>2 DEF IndexSound
<1>6. ASSUME UNCHANGED jobs
      PROVE  JobsSound'
    <2>1. CASE Jobs = {}
        BY <1>1, <1>6, <2>1 DEF JobsSound
    <2>2. CASE Jobs # {}
        BY <1>1, <1>2, <1>6, <2>2, IdleSound, JobsNext
    <2> QED
        BY <2>1, <2>2
<1>7. CASE ~rows'[f].on /\ Drop(f) /\ UNCHANGED jobs
    <2>1. EntrySound(NoEntry, rows'[f], clock')
        BY <1>1, <1>4, NoEntrySound
    <2> QED
        BY <1>5, <1>6, <1>7, <2>1 DEF Drop
<1>8. CASE rows'[f].on /\ Current(rows'[f]) /\ Upsert(f, rows'[f]) /\ UNCHANGED jobs
    <2>1. EntrySound(Record(rows'[f]), rows'[f], clock')
        BY <1>1, <1>4, <1>8, RecordSound
    <2> QED
        BY <1>5, <1>6, <1>8, <2>1 DEF Upsert
<1>9. ASSUME rows'[f].on, UNCHANGED index, NEW j \in Jobs,
             Wait(j, Call("edit", {f}, rows', 0, NoReview))
      PROVE  IndexSound' /\ JobsSound'
    <2>1. JobSound(Call("edit", {f}, rows', 0, NoReview), rows', clock')
        <3>1. /\ {f} \in SUBSET Faqs /\ {f} # {} /\ 0 \in 0..2
              /\ \A g \in {f} : RowSound(rows'[g], clock') /\ rows'[g].rev # 0 /\ rows'[g].on
            BY <1>4, <1>9
        <3> QED
            BY <1>1, <3>1, CallSound
    <2>2. JobsSound'
        BY <1>1, <1>2, <1>9, <2>1, JobsNext DEF Wait
    <2>3. EntrySound(index[f], rows'[f], clock')
        <3>1. CASE index[f] = NoEntry
            BY <1>1, <1>4, <3>1, NoEntrySound
        <3>2. CASE Kept(rows[f], rows'[f], clock)
            <4>1. EntrySound(index[f], rows[f], clock) /\ rows[f] \in Row
                BY DEF IInv, IndexSound, RowsSound
            <4> QED
                BY <1>1, <1>4, <1>9, <3>2, <4>1, EntryKept
        <3> QED
            BY <3>1, <3>2
    <2>4. ASSUME NEW g \in Faqs
          PROVE  EntrySound(index'[g], rows'[g], clock')
        BY <1>3, <1>9, <2>3
    <2> QED
        BY <1>1, <1>9, <2>2, <2>4 DEF IndexSound
<1> QED
    BY <1>7, <1>8, <1>9, <1>5 DEF UpdateIndex

-----------------------------------------------------------------------------
(* The initial state, and the steps.                                       *)

LEMMA InitInv ==
    ASSUME Init
    PROVE  IInv
<1>1. 0 \in Nat /\ NoRow \in Row /\ Counters
    BY FaqAssumption DEF Init, Counters, NoRow, Row, NoVector
<1>2. RowsSound
    BY <1>1, NoRowSound DEF Init, RowsSound
<1>3. IndexSound
    <2>1. EntrySound(NoEntry, NoRow, 0)
        BY <1>1, NoEntrySound
    <2>2. NoEntry \in Entry
        BY <2>1 DEF EntrySound
    <2> QED
        BY <2>1, <2>2 DEF Init, IndexSound
<1>4. JobsSound
    BY IdleSound DEF Init, JobsSound
<1>5. ReviewsSound
    <2>1. \A r \in Reviews, f \in Faqs : rows[f].from # r
        BY FaqAssumption DEF Init, NoRow
    <2>2. Cardinality({}) = 0
        BY FS_EmptySet
    <2>3. ASSUME NEW r \in Reviews
          PROVE  ReviewSound(r)
        BY <2>1, <2>2 DEF Init, ReviewSound
    <2> QED
        BY <2>3 DEF Init, ReviewsSound, Review
<1> QED
    BY <1>1, <1>2, <1>3, <1>4, <1>5 DEF IInv

\* createFaq.
LEMMA CreateInv ==
    ASSUME IInv, NEW f \in Faqs, Create(f)
    PROVE  IInv'
<1> USE DEF Create
<1>1. /\ now \in 1..MaxClock /\ clock' = now /\ clock' = clock + 1 /\ clock' \in 0..MaxClock
      /\ clock \in Nat
    BY FaqAssumption DEF IInv, Counters, Tick, now
<1>2. /\ rows[f] = NoRow /\ index[f] = NoEntry
      /\ \A j \in Jobs : f \notin DOMAIN jobs[j].seen
    BY FreshRow
<1>3. RowSound(NewRow(TRUE, NoReview), clock') /\ NewRow(TRUE, NoReview).rev # 0
    <2>1. TRUE \in BOOLEAN /\ NoReview \in Reviews \cup {NoReview}
        OBVIOUS
    <2>2. RowSound(NewRow(TRUE, NoReview), now) /\ NewRow(TRUE, NoReview).rev = now
        BY <1>1, <2>1, NewRowSound
    <2>3. now # 0 /\ clock' = now
        BY <1>1
    <2> QED
        BY <2>2, <2>3, Zenon
<1>4. /\ rows \in [Faqs -> Row] /\ rows'[f] = NewRow(TRUE, NoReview)
      /\ \A g \in Faqs \ {f} : rows'[g] = rows[g] /\ RowSound(rows[g], clock)
    BY DEF IInv, RowsSound
<1>5. RowsSound'
    <2>1. ASSUME NEW g \in Faqs
          PROVE  RowSound(rows'[g], clock')
        <3>1. CASE g = f
            BY <1>3, <1>4, <3>1
        <3>2. CASE g # f
            BY <1>1, <1>4, <3>2, RowLater
        <3> QED
            BY <3>1, <3>2
    <2>2. rows' \in [Faqs -> Row]
        BY <1>3, <1>4 DEF RowSound
    <2> QED
        BY <2>1, <2>2 DEF RowsSound
<1>6. IndexSound' /\ JobsSound'
    BY <1>1, <1>2, <1>3, <1>4, <1>5, UpdateIndexSound
<1>7. ReviewsSound'
    <2>1. \A g \in Faqs : rows'[g].from = rows[g].from
        BY <1>2, <1>4 DEF NewRow, NoRow
    <2> QED
        BY <2>1, ReviewsKept
<1> QED
    BY <1>1, <1>5, <1>6, <1>7 DEF IInv, Counters

\* updateFaq and DELETE.
LEMMA EditInv ==
    ASSUME IInv, NEW f \in Faqs, Edit(f)
    PROVE  IInv'
<1>1. PICK on \in BOOLEAN, newText \in BOOLEAN : rows' = [rows EXCEPT ![f] = Edited(f, on, newText)]
    BY DEF Edit
<1>2. /\ now \in 1..MaxClock /\ clock' = now /\ clock' = clock + 1 /\ clock' \in 0..MaxClock
      /\ clock \in Nat
      /\ Present(f) /\ Tick /\ UpdateIndex(f, rows') /\ UNCHANGED <<reviews, model, boots>>
    BY FaqAssumption DEF IInv, Counters, Edit, Tick, now
<1> DEFINE e == Edited(f, on, newText)
<1>3. RowSound(e, clock') /\ e.rev = clock + 1 /\ e.rev # 0 /\ e.from = rows[f].from
    BY <1>2, EditedSound
<1>4. /\ rows \in [Faqs -> Row] /\ rows'[f] = e
      /\ \A g \in Faqs \ {f} : rows'[g] = rows[g] /\ RowSound(rows[g], clock)
    BY <1>1 DEF IInv, RowsSound
<1> HIDE DEF e
<1>5. RowsSound'
    <2>1. ASSUME NEW g \in Faqs
          PROVE  RowSound(rows'[g], clock')
        <3>1. CASE g = f
            BY <1>3, <1>4, <3>1
        <3>2. CASE g # f
            BY <1>2, <1>4, <3>2, RowLater
        <3> QED
            BY <3>1, <3>2
    <2>2. rows' \in [Faqs -> Row]
        BY <1>1, <1>3, <1>4 DEF RowSound, e
    <2> QED
        BY <2>1, <2>2 DEF RowsSound
<1>6. Kept(rows[f], rows'[f], clock)
    BY <1>2, <1>3, <1>4 DEF Kept, Present
<1>7. IndexSound' /\ JobsSound'
    BY <1>2, <1>3, <1>4, <1>5, <1>6, UpdateIndexSound
<1>8. ReviewsSound'
    <2>1. \A g \in Faqs : rows'[g].from = rows[g].from
        BY <1>3, <1>4
    <2> QED
        BY <1>2, <2>1, ReviewsKept
<1> QED
    BY <1>2, <1>5, <1>7, <1>8 DEF IInv, Counters

\* importFaq.
LEMMA ImportInv ==
    ASSUME IInv, Import
    PROVE  IInv'
<1>1. PICK S \in (SUBSET {f \in Faqs : Fresh(f)}) \ {{}}, j \in Jobs :
          /\ rows' = [f \in Faqs |-> IF f \in S THEN NewRow(TRUE, NoReview) ELSE rows[f]]
          /\ Wait(j, Call("import", S, rows', 0, NoReview))
    BY DEF Import
<1>2. /\ now \in 1..MaxClock /\ clock' = now /\ clock' = clock + 1 /\ clock' \in 0..MaxClock
      /\ clock \in Nat
      /\ UNCHANGED <<index, reviews, model, boots>>
    BY FaqAssumption DEF IInv, Counters, Import, Tick, now
<1>3. RowSound(NewRow(TRUE, NoReview), clock') /\ NewRow(TRUE, NoReview).rev # 0
    <2>1. TRUE \in BOOLEAN /\ NoReview \in Reviews \cup {NoReview}
        OBVIOUS
    <2>2. RowSound(NewRow(TRUE, NoReview), now) /\ NewRow(TRUE, NoReview).rev = now
        BY <1>2, <2>1, NewRowSound
    <2>3. now # 0 /\ clock' = now
        BY <1>2
    <2> QED
        BY <2>2, <2>3, Zenon
<1>4. /\ rows \in [Faqs -> Row] /\ S \in SUBSET Faqs /\ S # {}
      /\ \A f \in Faqs : RowSound(rows[f], clock) /\ EntrySound(index[f], rows[f], clock)
      /\ jobs \in [Jobs -> Job \cup {Idle}] /\ index \in [Faqs -> Entry]
      /\ clock' \in Nat /\ model \in 1..MaxModel
    <2>1. clock' \in Nat /\ model \in 1..MaxModel
        BY <1>2, FaqAssumption DEF IInv, Counters
    <2>2. S \in SUBSET Faqs /\ S # {}
        BY <1>1
    <2>3. jobs \in [Jobs -> Job \cup {Idle}]
        BY DEF IInv, JobsSound
    <2> QED
        BY <2>1, <2>2, <2>3 DEF IInv, RowsSound, IndexSound
<1>5. \A f \in S : /\ rows[f] = NoRow /\ index[f] = NoEntry /\ rows'[f] = NewRow(TRUE, NoReview)
                   /\ \A i \in Jobs : f \notin DOMAIN jobs[i].seen
    BY <1>1, <1>4, FreshRow
<1>6. \A f \in Faqs \ S : rows'[f] = rows[f]
    BY <1>1
<1>7. RowsSound'
    <2>1. ASSUME NEW f \in Faqs
          PROVE  RowSound(rows'[f], clock')
        BY <1>2, <1>3, <1>4, <1>5, <1>6, RowLater
    <2>2. rows' \in [Faqs -> Row]
        BY <1>1, <1>3, <1>4 DEF RowSound
    <2> QED
        BY <2>1, <2>2 DEF RowsSound
<1>8. IndexSound'
    <2>1. ASSUME NEW f \in Faqs
          PROVE  EntrySound(index'[f], rows'[f], clock')
        <3>1. CASE f \in S
            <4>1. rows'[f] \in Row
                BY <1>7 DEF RowsSound
            <4> QED
                BY <1>2, <1>4, <1>5, <3>1, <4>1, NoEntrySound
        <3>2. CASE f \notin S
            <4>1. rows'[f] = rows[f] /\ Kept(rows[f], rows'[f], clock) /\ rows[f] \in Row
                BY <1>4, <1>6, <3>2 DEF Kept
            <4>2. index[f] # NoEntry => rows'[f].on
                BY <1>4, <4>1 DEF EntrySound
            <4> QED
                BY <1>2, <1>4, <4>1, <4>2, EntryKept
        <3> QED
            BY <3>1, <3>2
    <2> QED
        BY <1>2, <1>4, <2>1 DEF IndexSound
<1>9. JobsSound'
    <2>1. JobSound(Call("import", S, rows', 0, NoReview), rows', clock')
        <3>1. \A f \in S : RowSound(rows'[f], clock') /\ rows'[f].rev # 0
            BY <1>3, <1>5
        <3>2. rows' \in [Faqs -> Row] /\ 0 \in 0..2
            BY <1>7 DEF RowsSound
        <3> QED
            BY <1>2, <1>4, <3>1, <3>2, CallSound
    <2>2. ASSUME NEW i \in Jobs, NEW f \in DOMAIN jobs[i].seen
          PROVE  Kept(rows[f], rows'[f], clock)
        <3>1. f \in Faqs
            BY <1>4, SeenType
        <3> QED
            BY <1>5, <1>6, <3>1 DEF Kept
    <2> QED
        BY <1>1, <1>2, <1>4, <1>7, <2>1, <2>2, JobsNext DEF Wait, RowsSound
<1>10. ReviewsSound'
    <2>1. \A f \in Faqs : rows'[f].from = rows[f].from
        BY <1>5, <1>6 DEF NewRow, NoRow
    <2> QED
        BY <1>2, <2>1, ReviewsKept
<1> QED
    BY <1>2, <1>7, <1>8, <1>9, <1>10 DEF IInv, Counters

\* A vector is stored in the index, or taken out of it.
LEMMA EntryStored ==
    ASSUME IInv, NEW f \in Faqs, NEW entry, index' = [index EXCEPT ![f] = entry],
           EntrySound(entry, rows'[f], clock'),
           \A g \in Faqs \ {f} : EntrySound(index[g], rows'[g], clock')
    PROVE  IndexSound'
<1>1. index \in [Faqs -> Entry] /\ entry \in Entry
    BY DEF IInv, IndexSound, EntrySound
<1>2. ASSUME NEW g \in Faqs
      PROVE  EntrySound(index'[g], rows'[g], clock')
    BY <1>1
<1>3. index' \in [Faqs -> Entry]
    BY <1>1
<1> QED
    BY <1>2, <1>3 DEF IndexSound

LEMMA Dropped ==
    ASSUME IInv, NEW f \in Faqs, Drop(f), UNCHANGED <<rows, clock>>
    PROVE  IndexSound'
<1>1. rows[f] \in Row /\ clock \in Nat
    BY FaqAssumption DEF IInv, RowsSound, Counters
<1>2. EntrySound(NoEntry, rows'[f], clock')
    BY <1>1, NoEntrySound
<1>3. \A g \in Faqs \ {f} : EntrySound(index[g], rows'[g], clock')
    BY DEF IInv, IndexSound
<1> QED
    BY <1>2, <1>3, EntryStored DEF Drop

\* An operation ends, or asks again, without a write.
LEMMA NothingWritten ==
    ASSUME IInv, UNCHANGED <<rows, reviews, clock>>, NEW j \in Jobs, NEW call, Wait(j, call),
           JobSound(call, rows, clock)
    PROVE  RowsSound' /\ JobsSound' /\ ReviewsSound'
<1>1. RowsSound' /\ ReviewsSound'
    <2>1. RowsSound'
        BY DEF IInv, RowsSound
    <2>2. ReviewsSound'
        BY ReviewsKept
    <2> QED
        BY <2>1, <2>2
<1>2. JobsSound'
    <2>1. \A i \in Jobs : \A f \in DOMAIN jobs[i].seen : Kept(rows[f], rows'[f], clock)
        BY DEF Kept
    <2>2. rows' \in [Faqs -> Row] /\ clock' \in {clock, clock + 1}
        BY DEF IInv, RowsSound
    <2>3. JobSound(call, rows', clock')
        OBVIOUS
    <2> QED
        BY <2>1, <2>2, <2>3, JobsNext DEF Wait
<1> QED
    BY <1>1, <1>2

\* An operation stores its embeddings and ends.
LEMMA EmbeddingsStored ==
    ASSUME IInv, NEW j \in Jobs, Unchanged(j), NEW label \in 1..MaxModel,
           rows' = Embedded(j, label), Done(j), UNCHANGED <<reviews, clock>>
    PROVE  /\ RowsSound' /\ JobsSound' /\ ReviewsSound'
           /\ \A f \in Faqs : EntrySound(index[f], rows'[f], clock')
<1>1. ASSUME NEW f \in Faqs
      PROVE  /\ RowSound(rows'[f], clock) /\ rows'[f].on = rows[f].on /\ rows'[f].text = rows[f].text
             /\ rows'[f].rev = rows[f].rev /\ rows'[f].from = rows[f].from
    BY <1>1, EmbeddedSound
<1>2. rows' = [f \in Faqs |-> rows'[f]]
    BY DEF Embedded
<1>3. rows' \in [Faqs -> Row]
    BY <1>1, <1>2 DEF RowSound
<1>4. /\ rows \in [Faqs -> Row] /\ jobs \in [Jobs -> Job \cup {Idle}] /\ clock \in Nat
      /\ \A f \in Faqs : EntrySound(index[f], rows[f], clock)
    <2>1. clock \in Nat
        BY FaqAssumption DEF IInv, Counters
    <2> QED
        BY <2>1 DEF IInv, RowsSound, JobsSound, IndexSound
<1>5. RowsSound'
    BY <1>1, <1>3 DEF RowsSound
<1>6. JobsSound'
    <2>1. ASSUME NEW i \in Jobs, NEW f \in DOMAIN jobs[i].seen
          PROVE  Kept(rows[f], rows'[f], clock)
        <3>1. f \in Faqs
            BY <1>4, SeenType
        <3> QED
            BY <1>1, <3>1 DEF Kept
    <2>2. JobSound(Idle, rows', clock') /\ clock' \in {clock, clock + 1}
        BY IdleSound
    <2> QED
        BY <1>3, <2>1, <2>2, JobsNext DEF Done, Wait
<1>7. ReviewsSound'
    BY <1>1, ReviewsKept
<1>8. ASSUME NEW f \in Faqs
      PROVE  EntrySound(index[f], rows'[f], clock')
    <2>1. EntrySound(index[f], rows[f], clock) /\ Kept(rows[f], rows'[f], clock)
        BY <1>1, <1>4 DEF Kept
    <2>2. index[f] # NoEntry => rows'[f].on
        BY <1>1, <2>1 DEF EntrySound
    <2>3. rows[f] \in Row /\ rows'[f] \in Row /\ clock' \in {clock, clock + 1}
        BY <1>3, <1>4
    <2> QED
        BY <1>4, <2>1, <2>2, <2>3, EntryKept
<1> QED
    BY <1>5, <1>6, <1>7, <1>8

\* loadIndexItems: the index that a rebuild leaves.
LEMMA LoadedSound ==
    ASSUME NEW c \in 0..MaxClock, model \in 1..MaxModel, NEW t \in [Faqs -> Row],
           \A f \in Faqs : RowSound(t[f], c)
    PROVE  /\ Loaded(t) \in [Faqs -> Entry]
           /\ \A f \in Faqs : EntrySound(Loaded(t)[f], t[f], c)
<1>1. ASSUME NEW f \in Faqs
      PROVE  EntrySound(Loaded(t)[f], t[f], c) /\ Loaded(t)[f] \in Entry
    <2>1. CASE t[f].on
        <3>1. EntrySound(Record(t[f]), t[f], c)
            BY <2>1, RecordSound
        <3> QED
            BY <2>1, <3>1 DEF Loaded, EntrySound
    <2>2. CASE ~t[f].on
        <3>1. c \in Nat
            BY FaqAssumption
        <3>2. EntrySound(NoEntry, t[f], c)
            BY <3>1, NoEntrySound
        <3> QED
            BY <2>2, <3>2 DEF Loaded, EntrySound
    <2> QED
        BY <2>1, <2>2
<1>2. Loaded(t) = [f \in Faqs |-> Loaded(t)[f]]
    BY DEF Loaded
<1> QED
    BY <1>1, <1>2

\* updateIndexBatch.
LEMMA BatchSound ==
    ASSUME NEW j, NEW c \in 0..MaxClock, model \in 1..MaxModel, NEW t \in [Faqs -> Row],
           \A f \in Faqs : RowSound(t[f], c) /\ EntrySound(index[f], t[f], c),
           Batch(j, t), rows' = t, clock' = c
    PROVE  IndexSound'
<1>1. ASSUME NEW f \in Faqs
      PROVE  EntrySound(index'[f], t[f], c) /\ index'[f] \in Entry
    <2>1. CASE f \in DOMAIN jobs[j].seen /\ t[f].on /\ t[f].vec # NoVector
        <3>1. EntrySound(Record(t[f]), t[f], c)
            BY <2>1, RecordSound
        <3> QED
            BY <2>1, <3>1 DEF Batch, EntrySound
    <2>2. CASE ~(f \in DOMAIN jobs[j].seen /\ t[f].on /\ t[f].vec # NoVector)
        BY <2>2 DEF Batch, EntrySound
    <2> QED
        BY <2>1, <2>2
<1>2. index' = [f \in Faqs |-> index'[f]]
    BY DEF Batch
<1> QED
    BY <1>1, <1>2 DEF IndexSound

\* refreshSource up to its await.
LEMMA RefreshInv ==
    ASSUME IInv, Refresh
    PROVE  IInv'
<1>1. UNCHANGED <<rows, reviews, model, clock, boots>>
    BY DEF Refresh
<1>2. /\ clock \in 0..MaxClock /\ model \in 1..MaxModel /\ rows \in [Faqs -> Row]
      /\ \A f \in Faqs : RowSound(rows[f], clock)
    BY DEF IInv, Counters, RowsSound
<1>3. Counters'
    BY <1>1 DEF IInv, Counters
<1>4. CASE index' = Loaded(rows) /\ UNCHANGED jobs
    <2>1. RowsSound' /\ JobsSound' /\ ReviewsSound'
        BY <1>1, <1>4 DEF IInv, RowsSound, JobsSound, ReviewsSound, ReviewSound
    <2>2. IndexSound'
        BY <1>1, <1>2, <1>4, LoadedSound DEF IndexSound
    <2> QED
        BY <1>3, <2>1, <2>2 DEF IInv
<1>5. ASSUME Stale # {}, UNCHANGED index, NEW j \in Jobs,
             Wait(j, Call("refresh", Stale, rows, 0, NoReview))
      PROVE  IInv'
    <2>1. Stale \in SUBSET Faqs /\ \A f \in Stale : rows[f].rev # 0
        BY <1>2 DEF Stale, RowSound, NoRow
    <2>2. JobSound(Call("refresh", Stale, rows, 0, NoReview), rows, clock)
        BY SMTT(40), <1>2, <1>5, <2>1, CallSound
    <2>3. RowsSound' /\ JobsSound' /\ ReviewsSound'
        BY <1>1, <1>5, <2>2, NothingWritten
    <2>4. IndexSound'
        BY <1>1, <1>5 DEF IInv, IndexSound
    <2> QED
        BY <1>3, <2>3, <2>4 DEF IInv
<1> QED
    BY <1>4, <1>5 DEF Refresh

-----------------------------------------------------------------------------
(* The steps after an await.                                               *)

\* An operation under way, and the entry it is about.
LEMMA WaitingJob ==
    ASSUME IInv, NEW j \in Jobs, jobs[j] # Idle
    PROVE  /\ jobs[j] \in Job /\ JobSound(jobs[j], rows, clock)
           /\ Target(j) \in DOMAIN jobs[j].seen /\ Target(j) \in Faqs
           /\ jobs[j].seen[Target(j)] \in Seen
<1>1. /\ jobs[j] \in Job \cup {Idle} /\ JobSound(jobs[j], rows, clock)
      /\ DOMAIN jobs[j].seen # {}
    BY DEF IInv, JobsSound, JobSound
<1>2. Target(j) \in DOMAIN jobs[j].seen
    BY <1>1 DEF Target
<1> QED
    BY <1>1, <1>2, SeenType

\* persistCurrentFaqEmbedding.
LEMMA EditEndsInv ==
    ASSUME IInv, NEW j \in Jobs, EditEnds(j)
    PROVE  IInv'
<1> DEFINE f == Target(j)
<1>1. /\ UNCHANGED <<reviews, model, clock, boots>> /\ jobs[j] # Idle /\ jobs[j].kind = "edit"
      /\ f \in DOMAIN jobs[j].seen /\ f \in Faqs
      /\ SeenSound(jobs[j].seen[f], "edit", jobs[j].review, rows[f], clock)
    BY WaitingJob DEF EditEnds, Waiting, JobSound
<1>2. /\ clock \in 0..MaxClock /\ model \in 1..MaxModel /\ rows \in [Faqs -> Row]
      /\ \A g \in Faqs : RowSound(rows[g], clock)
    BY DEF IInv, Counters, RowsSound
<1>3. Counters'
    BY <1>1 DEF IInv, Counters
<1> HIDE DEF f
<1>4. CASE Unchanged(j) /\ rows' = Embedded(j, model) /\ Upsert(f, rows'[f]) /\ Done(j)
    <2>1. /\ RowsSound' /\ JobsSound' /\ ReviewsSound'
          /\ \A g \in Faqs : EntrySound(index[g], rows'[g], clock')
        BY <1>1, <1>2, <1>4, EmbeddingsStored
    <2>2. rows[f].on /\ rows'[f].on
        <3>1. rows[f].rev = jobs[j].seen[f].rev
            BY <1>1, <1>4 DEF Unchanged
        <3>2. Embedded(j, model)[f].on = rows[f].on
            BY <1>1, <1>2, <1>4, EmbeddedSound
        <3> QED
            BY <1>1, <1>4, <3>1, <3>2 DEF SeenSound
    <2>3. EntrySound(Record(rows'[f]), rows'[f], clock')
        BY <1>1, <1>2, <2>1, <2>2, RecordSound DEF RowsSound
    <2>4. IndexSound'
        BY <1>1, <1>4, <2>1, <2>3, EntryStored DEF Upsert
    <2> QED
        BY <1>3, <2>1, <2>4 DEF IInv
<1>5. CASE rows[f].on /\ Upsert(f, rows[f]) /\ Done(j) /\ UNCHANGED rows
    <2>1. RowsSound' /\ JobsSound' /\ ReviewsSound'
        BY <1>1, <1>5, IdleSound, NothingWritten DEF Done
    <2>2. EntrySound(Record(rows[f]), rows'[f], clock')
        BY <1>1, <1>2, <1>5, RecordSound
    <2>3. \A g \in Faqs \ {f} : EntrySound(index[g], rows'[g], clock')
        BY <1>1, <1>5 DEF IInv, IndexSound
    <2>4. IndexSound'
        BY <1>1, <1>5, <2>2, <2>3, EntryStored DEF Upsert
    <2> QED
        BY <1>3, <2>1, <2>4 DEF IInv
<1>6. CASE Drop(f) /\ Done(j) /\ UNCHANGED rows
    <2>1. RowsSound' /\ JobsSound' /\ ReviewsSound'
        BY <1>1, <1>6, IdleSound, NothingWritten DEF Done
    <2>2. IndexSound'
        BY <1>1, <1>6, Dropped
    <2> QED
        BY <1>3, <2>1, <2>2 DEF IInv
<1>7. CASE Again(j, f) /\ UNCHANGED rows
    <2> DEFINE tries == jobs[j].tries + 1
    <2>1. /\ tries \in 0..2 /\ rows[f].on /\ UNCHANGED index
          /\ Wait(j, Call("edit", {f}, rows, tries, NoReview))
        <3>1. jobs[j].tries \in 0..2 /\ jobs[j].tries < 2
            BY <1>1, <1>7, WaitingJob DEF Again, Job
        <3> QED
            BY <1>7, <3>1 DEF Again
    <2> HIDE DEF tries
    <2>2. {f} \in SUBSET Faqs /\ {f} # {} /\ \A g \in {f} : rows[g].rev # 0 /\ rows[g].on
        BY <1>1, <1>2, <2>1 DEF RowSound, NoRow
    <2>3. JobSound(Call("edit", {f}, rows, tries, NoReview), rows, clock)
        BY <1>1, <1>2, <2>1, <2>2, CallSound
    <2>4. RowsSound' /\ JobsSound' /\ ReviewsSound'
        BY <1>1, <1>7, <2>1, <2>3, NothingWritten
    <2>5. IndexSound'
        BY <1>1, <1>7, <2>1 DEF IInv, IndexSound
    <2> QED
        BY <1>3, <2>4, <2>5 DEF IInv
<1> QED
    BY <1>4, <1>5, <1>6, <1>7 DEF EditEnds, f

\* importFaq after its await.
LEMMA ImportEndsInv ==
    ASSUME IInv, NEW j \in Jobs, ImportEnds(j)
    PROVE  IInv'
<1>1. /\ UNCHANGED <<reviews, model, clock, boots>> /\ jobs[j] # Idle /\ Done(j)
      /\ jobs[j].label \in 1..MaxModel
    BY WaitingJob DEF ImportEnds, Waiting, Job
<1>2. clock \in 0..MaxClock /\ model \in 1..MaxModel
    BY DEF IInv, Counters
<1>3. Counters'
    BY <1>1 DEF IInv, Counters
<1>4. CASE Unchanged(j) /\ rows' = Embedded(j, jobs[j].label) /\ Batch(j, rows')
    <2>1. /\ RowsSound' /\ JobsSound' /\ ReviewsSound'
          /\ \A g \in Faqs : EntrySound(index[g], rows'[g], clock')
        BY <1>1, <1>4, EmbeddingsStored
    <2>2. IndexSound'
        BY <1>1, <1>2, <1>4, <2>1, BatchSound DEF RowsSound
    <2> QED
        BY <1>3, <2>1, <2>2 DEF IInv
<1>5. CASE UNCHANGED <<rows, index>>
    <2>1. RowsSound' /\ JobsSound' /\ ReviewsSound'
        BY <1>1, <1>5, IdleSound, NothingWritten DEF Done
    <2>2. IndexSound'
        BY <1>1, <1>5 DEF IInv, IndexSound
    <2> QED
        BY <1>3, <2>1, <2>2 DEF IInv
<1> QED
    BY <1>4, <1>5 DEF ImportEnds

\* applySourceRefresh.
LEMMA RefreshEndsInv ==
    ASSUME IInv, NEW j \in Jobs, RefreshEnds(j)
    PROVE  IInv'
<1>1. /\ UNCHANGED <<reviews, model, clock, boots>> /\ jobs[j] # Idle /\ Done(j)
      /\ jobs[j].label \in 1..MaxModel
    BY WaitingJob DEF RefreshEnds, Waiting, Job
<1>2. clock \in 0..MaxClock /\ model \in 1..MaxModel
    BY DEF IInv, Counters
<1>3. Counters'
    BY <1>1 DEF IInv, Counters
<1>4. CASE Unchanged(j) /\ rows' = Embedded(j, jobs[j].label) /\ index' = Loaded(rows')
    <2>1. RowsSound' /\ JobsSound' /\ ReviewsSound'
        BY <1>1, <1>4, EmbeddingsStored
    <2>2. IndexSound'
        BY <1>1, <1>2, <1>4, <2>1, LoadedSound DEF RowsSound, IndexSound
    <2> QED
        BY <1>3, <2>1, <2>2 DEF IInv
<1>5. CASE UNCHANGED <<rows, index>>
    <2>1. RowsSound' /\ JobsSound' /\ ReviewsSound'
        BY <1>1, <1>5, IdleSound, NothingWritten DEF Done
    <2>2. IndexSound'
        BY <1>1, <1>5 DEF IInv, IndexSound
    <2> QED
        BY <1>3, <2>1, <2>2 DEF IInv
<1> QED
    BY <1>4, <1>5 DEF RefreshEnds

\* The embedding provider refuses.
LEMMA EmbedFailsInv ==
    ASSUME IInv, NEW j \in Jobs, EmbedFails(j)
    PROVE  IInv'
<1>1. UNCHANGED <<rows, reviews, model, clock, boots>> /\ jobs[j] # Idle /\ Done(j)
    BY DEF EmbedFails
<1>2. RowsSound' /\ JobsSound' /\ ReviewsSound'
    BY <1>1, IdleSound, NothingWritten DEF Done
<1>3. Counters'
    BY <1>1 DEF IInv, Counters
<1>4. CASE Drop(Target(j))
    <2>1. Target(j) \in Faqs
        BY <1>1, WaitingJob
    <2> QED
        BY <1>1, <1>2, <1>3, <1>4, <2>1, Dropped DEF IInv
<1>5. CASE Batch(j, rows)
    <2>1. IndexSound'
        BY <1>1, <1>5, BatchSound DEF IInv, Counters, RowsSound, IndexSound
    <2> QED
        BY <1>2, <1>3, <2>1 DEF IInv
<1>6. CASE UNCHANGED index
    <2>1. IndexSound'
        BY <1>1, <1>6 DEF IInv, IndexSound
    <2> QED
        BY <1>2, <1>3, <2>1 DEF IInv
<1> QED
    BY <1>4, <1>5, <1>6 DEF EmbedFails

\* A retry of an embedding call under another model.
LEMMA RetryInv ==
    ASSUME IInv, NEW j \in Jobs, Retry(j)
    PROVE  IInv'
<1> DEFINE call == [jobs[j] EXCEPT !.by = model]
<1>1. /\ UNCHANGED <<rows, index, reviews, model, clock, boots>> /\ jobs[j] # Idle
      /\ jobs' = [jobs EXCEPT ![j] = call]
    BY DEF Retry
<1>2. JobSound(call, rows, clock)
    <2>1. jobs[j] \in Job /\ JobSound(jobs[j], rows, clock) /\ model \in 1..MaxModel
        BY <1>1, WaitingJob DEF IInv, Counters
    <2>2. call \in Job
        BY <2>1 DEF Job
    <2>3. call.kind = jobs[j].kind /\ call.seen = jobs[j].seen /\ call.review = jobs[j].review
        BY <2>1 DEF Job
    <2> QED
        BY <1>1, <2>1, <2>2, <2>3 DEF JobSound
<1> HIDE DEF call
<1>3. RowsSound' /\ JobsSound' /\ ReviewsSound'
    BY <1>1, <1>2, NothingWritten DEF Wait
<1> QED
    BY <1>1, <1>3 DEF IInv, IndexSound, Counters

\* configService.save.
LEMMA SwitchModelInv ==
    ASSUME IInv, SwitchModel
    PROVE  IInv'
<1>1. UNCHANGED <<rows, index, reviews, jobs, clock, boots>> /\ model' \in 1..MaxModel
    BY DEF SwitchModel
<1>2. RowsSound' /\ IndexSound' /\ JobsSound'
    BY <1>1 DEF IInv, RowsSound, IndexSound, JobsSound
<1>3. ReviewsSound' /\ Counters'
    BY <1>1 DEF IInv, ReviewsSound, ReviewSound, Counters
<1> QED
    BY <1>2, <1>3 DEF IInv

\* A crash.
LEMMA CrashInv ==
    ASSUME IInv, Crash
    PROVE  IInv'
<1>1. UNCHANGED <<rows, reviews, model, clock>>
    BY DEF Crash
<1>2. RowsSound' /\ ReviewsSound'
    <2>1. RowsSound'
        BY <1>1 DEF IInv, RowsSound
    <2> QED
        BY <1>1, <2>1, ReviewsKept
<1>3. Counters'
    BY <1>1, FaqAssumption DEF IInv, Counters, Crash
<1>4. JobsSound'
    BY IdleSound DEF Crash, JobsSound
<1>5. IndexSound'
    <2>1. \A f \in Faqs : rows'[f] \in Row /\ clock' \in Nat
        BY <1>1, FaqAssumption DEF IInv, RowsSound, Counters
    <2>2. \A f \in Faqs : EntrySound(NoEntry, rows'[f], clock')
        BY <2>1, NoEntrySound
    <2>3. index' = [f \in Faqs |-> NoEntry]
        BY DEF Crash
    <2> QED
        BY <2>2, <2>3 DEF IndexSound, EntrySound
<1> QED
    BY <1>2, <1>3, <1>4, <1>5 DEF IInv

-----------------------------------------------------------------------------
(* Reviews.                                                                *)

\* convert makes the entry of a review that has none.
LEMMA ConvertNewInv ==
    ASSUME IInv, NEW r \in Reviews, NEW f \in Faqs, NEW j \in Jobs,
           reviews[r].status = "pending", Linked(r) = {}, Tick, Fresh(f),
           rows' = [rows EXCEPT ![f] = NewRow(FALSE, r)],
           reviews' = [reviews EXCEPT ![r].faq = {f}],
           Wait(j, Call("convert", {f}, rows', 0, r)), UNCHANGED <<index, model, boots>>
    PROVE  IInv'
<1>1. /\ now \in 1..MaxClock /\ clock' = now /\ clock' = clock + 1 /\ clock' \in 0..MaxClock
      /\ clock \in Nat /\ clock' \in Nat /\ model \in 1..MaxModel
    BY FaqAssumption DEF IInv, Counters, Tick, now
<1>2. /\ rows[f] = NoRow /\ index[f] = NoEntry
      /\ \A i \in Jobs : f \notin DOMAIN jobs[i].seen
    BY FreshRow
<1>3. RowSound(NewRow(FALSE, r), clock') /\ NewRow(FALSE, r).rev # 0 /\ NewRow(FALSE, r).from = r
    <2>1. FALSE \in BOOLEAN /\ r \in Reviews \cup {NoReview}
        OBVIOUS
    <2>2. RowSound(NewRow(FALSE, r), now) /\ NewRow(FALSE, r).rev = now
        BY <1>1, <2>1, NewRowSound
    <2>3. now # 0 /\ clock' = now
        BY <1>1
    <2>4. NewRow(FALSE, r).from = r
        BY DEF NewRow
    <2> QED
        BY <2>2, <2>3, <2>4, Zenon
<1>4. /\ rows \in [Faqs -> Row] /\ rows'[f] = NewRow(FALSE, r)
      /\ \A g \in Faqs \ {f} : rows'[g] = rows[g] /\ RowSound(rows[g], clock)
    BY DEF IInv, RowsSound
<1>5. RowsSound'
    <2>1. ASSUME NEW g \in Faqs
          PROVE  RowSound(rows'[g], clock')
        <3>1. CASE g = f
            BY <1>3, <1>4, <3>1
        <3>2. CASE g # f
            BY <1>1, <1>4, <3>2, RowLater
        <3> QED
            BY <3>1, <3>2
    <2>2. rows' \in [Faqs -> Row]
        BY <1>3, <1>4 DEF RowSound
    <2> QED
        BY <2>1, <2>2 DEF RowsSound
<1>6. /\ rows' \in [Faqs -> Row] /\ jobs \in [Jobs -> Job \cup {Idle}]
      /\ index' \in [Faqs -> Entry] /\ index' = index
    BY <1>5 DEF IInv, RowsSound, JobsSound, IndexSound
<1>7. IndexSound'
    <2>1. ASSUME NEW g \in Faqs
          PROVE  EntrySound(index'[g], rows'[g], clock')
        <3>1. CASE g = f
            BY <1>1, <1>2, <1>6, <3>1, NoEntrySound
        <3>2. CASE g # f
            <4>1. /\ EntrySound(index[g], rows[g], clock) /\ rows'[g] = rows[g]
                  /\ rows[g] \in Row /\ clock' \in {clock, clock + 1}
                BY <1>1, <1>4, <3>2 DEF IInv, IndexSound
            <4>2. Kept(rows[g], rows'[g], clock) /\ (index[g] # NoEntry => rows'[g].on)
                BY <4>1 DEF Kept, EntrySound
            <4>3. rows'[g] \in Row
                BY <1>6
            <4>4. EntrySound(index[g], rows'[g], clock')
                BY <1>1, <4>1, <4>2, <4>3, EntryKept
            <4> QED
                BY <1>6, <4>4
        <3> QED
            BY <3>1, <3>2
    <2> QED
        BY <1>6, <2>1 DEF IndexSound
<1>8. JobsSound'
    <2>1. JobSound(Call("convert", {f}, rows', 0, r), rows', clock')
        <3>1. \A g \in {f} : RowSound(rows'[g], clock') /\ rows'[g].rev # 0 /\ rows'[g].from = r
            BY <1>3, <1>4
        <3>2. {f} \in SUBSET Faqs /\ {f} # {} /\ 0 \in 0..2
            OBVIOUS
        <3> QED
            BY <1>1, <1>6, <3>1, <3>2, CallSound
    <2>2. ASSUME NEW i \in Jobs, NEW g \in DOMAIN jobs[i].seen
          PROVE  Kept(rows[g], rows'[g], clock)
        <3>1. g \in Faqs /\ g # f
            BY <1>2, <1>6, SeenType
        <3> QED
            BY <1>4, <3>1 DEF Kept
    <2> QED
        BY <1>1, <1>6, <2>1, <2>2, JobsNext DEF Wait
<1>9. ReviewsSound'
    <2>1. reviews \in [Reviews -> Review] /\ \A q \in Reviews : ReviewSound(q)
        BY DEF IInv, ReviewsSound
    <2>2. /\ reviews'[r].status = "pending" /\ reviews'[r].faq = {f}
          /\ \A q \in Reviews \ {r} : reviews'[q] = reviews[q]
        BY <2>1 DEF Review
    <2>3. reviews' \in [Reviews -> Review]
        BY <2>1 DEF Review
    <2>4. Cardinality({f}) = 1
        BY FS_Singleton
    <2>5. ASSUME NEW q \in Reviews
          PROVE  ReviewSound(q)'
        <3>1. CASE q = r
            <4>1. \A g \in Faqs : rows[g].from # r
                BY <2>1 DEF ReviewSound, Linked
            <4>2. \A g \in Faqs : rows'[g].from = r <=> g \in {f}
                BY <1>3, <1>4, <4>1
            <4>3. \A g \in Faqs : rows'[g].from = r <=> g \in reviews'[r].faq
                BY <2>2, <4>2, Zenon
            <4>4. /\ Cardinality(reviews'[r].faq) <= 1
                  /\ reviews'[r].status # "converted" /\ reviews'[r].status # "dismissed"
                BY <2>2, <2>4
            <4> QED
                BY <3>1, <4>3, <4>4, Zenon DEF ReviewSound
        <3>2. CASE q # r
            <4>1. rows'[f].from # q /\ rows[f].from # q
                <5>1. rows'[f].from = r
                    BY <1>3, <1>4, Zenon
                <5>2. rows[f].from = NoReview
                    BY <1>2 DEF NoRow
                <5> QED
                    BY <3>2, <5>1, <5>2, FaqAssumption
            <4>2. \A g \in Faqs : rows'[g].from = q <=> rows[g].from = q
                BY <1>4, <4>1
            <4> QED
                BY <2>1, <2>2, <3>2, <4>2 DEF ReviewSound
        <3> QED
            BY <3>1, <3>2
    <2> QED
        BY <2>3, <2>5 DEF ReviewsSound
<1> QED
    BY <1>1, <1>5, <1>7, <1>8, <1>9 DEF IInv, Counters

\* convert of a review that has an entry.
LEMMA ConvertAgainInv ==
    ASSUME IInv, NEW r \in Reviews, NEW j \in Jobs, Linked(r) # {},
           \A f \in Linked(r) : Present(f), UNCHANGED <<rows, reviews, clock>>,
           Wait(j, Call("convert", Linked(r), rows, 0, r)), UNCHANGED <<index, model, boots>>
    PROVE  IInv'
<1>1. /\ clock \in 0..MaxClock /\ model \in 1..MaxModel /\ rows \in [Faqs -> Row]
      /\ \A g \in Faqs : RowSound(rows[g], clock)
    BY DEF IInv, Counters, RowsSound
<1>2. /\ Linked(r) \in SUBSET Faqs /\ 0 \in 0..2
      /\ \A f \in Linked(r) : rows[f].from = r /\ rows[f].rev # 0
    BY DEF IInv, ReviewsSound, ReviewSound, Review, Linked, Present
<1>3. JobSound(Call("convert", Linked(r), rows, 0, r), rows, clock)
    BY <1>1, <1>2, CallSound
<1>4. RowsSound' /\ JobsSound' /\ ReviewsSound'
    BY <1>3, NothingWritten
<1> QED
    BY <1>4 DEF IInv, IndexSound, Counters

LEMMA ConvertInv ==
    ASSUME IInv, NEW r \in Reviews, Convert(r)
    PROVE  IInv'
<1>1. PICK j \in Jobs : Wait(j, Call("convert", reviews'[r].faq, rows', 0, r))
    BY DEF Convert
<1>2. UNCHANGED <<index, model, boots>> /\ reviews[r].status = "pending"
    BY DEF Convert
<1>3. ASSUME Linked(r) = {}, Tick, NEW f \in Faqs, Fresh(f),
             rows' = [rows EXCEPT ![f] = NewRow(FALSE, r)],
             reviews' = [reviews EXCEPT ![r].faq = {f}]
      PROVE  IInv'
    <2>1. reviews'[r].faq = {f}
        BY <1>3 DEF IInv, ReviewsSound, Review
    <2> QED
        BY <1>1, <1>2, <1>3, <2>1, ConvertNewInv
<1>4. ASSUME Linked(r) # {}, \A f \in Linked(r) : Present(f), UNCHANGED <<rows, reviews, clock>>
      PROVE  IInv'
    BY <1>1, <1>2, <1>4, ConvertAgainInv DEF Linked
<1> QED
    BY <1>3, <1>4 DEF Convert

\* convert after its await: the last transaction.
LEMMA ConvertedInv ==
    ASSUME IInv, NEW j \in Jobs, Waiting(j, "convert"), Done(j), Converted(j, Target(j)),
           UNCHANGED <<model, boots>>
    PROVE  IInv'
<1> DEFINE f == Target(j)
           r == jobs[j].review
           vec == Prepared(j, f).vec
<1>1. /\ r \in Reviews /\ f \in DOMAIN jobs[j].seen /\ f \in Faqs
      /\ SeenSound(jobs[j].seen[f], "convert", r, rows[f], clock)
      /\ jobs[j] \in Job /\ jobs[j].seen[f] \in Seen
    BY WaitingJob DEF Waiting, JobSound
<1>2. /\ clock \in Nat /\ clock' = clock + 1 /\ clock' = now /\ now \in 1..MaxClock
      /\ clock' \in 0..MaxClock /\ model \in 1..MaxModel /\ rows[f].rev # 0
    BY FaqAssumption DEF IInv, Counters, Converted, Tick, now, Present
<1>3. rows[f].from = r
    BY <1>1, <1>2 DEF SeenSound
<1>4. /\ vec \in Vector /\ Prepared(j, f).rev \in 1..MaxClock /\ Prepared(j, f).rev <= clock
      /\ Prepared(j, f) = [rev |-> Prepared(j, f).rev, vec |-> vec, label |-> model]
    BY <1>1 DEF Prepared, Vector, Seen, Job, SeenSound
<1>5. /\ index' = [index EXCEPT ![f] = Prepared(j, f)]
      /\ rows' = [rows EXCEPT ![f].vec = vec, ![f].label = model, ![f].on = TRUE, ![f].rev = now]
      /\ reviews' = [reviews EXCEPT ![r].status = "converted"]
      /\ reviews[r].status # "dismissed"
    BY DEF Converted
<1>6. /\ rows \in [Faqs -> Row] /\ jobs \in [Jobs -> Job \cup {Idle}] /\ index \in [Faqs -> Entry]
      /\ \A g \in Faqs : RowSound(rows[g], clock) /\ EntrySound(index[g], rows[g], clock)
      /\ reviews \in [Reviews -> Review] /\ \A q \in Reviews : ReviewSound(q)
    BY DEF IInv, RowsSound, JobsSound, IndexSound, ReviewsSound
<1> HIDE DEF f, r, vec, now
<1>7. /\ rows'[f].on = TRUE /\ rows'[f].rev = now /\ rows'[f].from = r
      /\ rows'[f].text = rows[f].text
      /\ \A g \in Faqs \ {f} : rows'[g] = rows[g]
    BY <1>1, <1>3, <1>5, <1>6 DEF Row
<1>8. rows' \in [Faqs -> Row]
    <2>1. model \in 0..MaxModel /\ vec \in Vector \cup {NoVector} /\ now \in 0..MaxClock
        BY <1>2, <1>4, FaqAssumption
    <2> DEFINE new == [rows[f] EXCEPT !.vec = vec, !.label = model, !.on = TRUE, !.rev = now]
    <2>2. rows' = [rows EXCEPT ![f] = new]
        BY <1>1, <1>5, <1>6
    <2>3. new \in Row
        BY ZenonT(60), <1>1, <1>6, <2>1 DEF Row
    <2> HIDE DEF new
    <2> QED
        BY <1>1, <1>6, <2>2, <2>3
<1>9. RowsSound'
    <2>1. ASSUME NEW g \in Faqs
          PROVE  RowSound(rows'[g], clock')
        <3>1. CASE g = f
            <4>1. rows'[f].text # 0
                BY <1>1, <1>2, <1>6, <1>7 DEF RowSound
            <4>2. rows'[f].rev = clock' /\ rows'[f].rev # 0 /\ rows'[f].from # NoReview
                BY <1>1, <1>2, <1>7, FaqAssumption
            <4> QED
                BY <1>2, <1>8, <3>1, <4>1, <4>2 DEF RowSound
        <3>2. CASE g # f
            BY <1>2, <1>6, <1>7, <3>2, RowLater
        <3> QED
            BY <3>1, <3>2
    <2> QED
        BY <1>8, <2>1 DEF RowsSound
<1>10. ASSUME NEW g \in Faqs
       PROVE  Kept(rows[g], rows'[g], clock)
    BY <1>2, <1>3, <1>7 DEF Kept
<1>11. IndexSound'
    <2>1. EntrySound(Prepared(j, f), rows'[f], clock')
        <3>1. Prepared(j, f) \in Entry
            BY <1>2, <1>4, FaqAssumption DEF Entry
        <3>2. rows'[f].from # NoReview /\ rows'[f].on /\ Prepared(j, f).rev <= clock'
            BY <1>1, <1>2, <1>4, <1>7, FaqAssumption
        <3> QED
            BY <3>1, <3>2 DEF EntrySound
    <2>2. ASSUME NEW g \in Faqs \ {f}
          PROVE  EntrySound(index[g], rows'[g], clock')
        <3>1. index[g] # NoEntry => rows'[g].on
            BY <1>6, <1>7 DEF EntrySound
        <3>2. rows[g] \in Row /\ rows'[g] \in Row /\ clock' \in {clock, clock + 1}
            BY <1>2, <1>6, <1>8
        <3> QED
            BY <1>2, <1>6, <1>10, <3>1, <3>2, EntryKept
    <2> QED
        BY <1>1, <1>5, <2>1, <2>2, EntryStored
<1>12. JobsSound'
    <2>1. ASSUME NEW i \in Jobs, NEW g \in DOMAIN jobs[i].seen
          PROVE  Kept(rows[g], rows'[g], clock)
        <3>1. g \in Faqs
            BY <1>6, SeenType
        <3> QED
            BY <1>10, <3>1
    <2>2. JobSound(Idle, rows', clock') /\ clock' \in {clock, clock + 1}
        BY <1>2, IdleSound
    <2> QED
        BY <1>8, <2>1, <2>2, JobsNext DEF Done, Wait
<1>13. ReviewsSound'
    <2>1. /\ reviews'[r].status = "converted" /\ reviews'[r].faq = reviews[r].faq
          /\ reviews' \in [Reviews -> Review]
          /\ \A q \in Reviews \ {r} : reviews'[q] = reviews[q]
        BY <1>1, <1>5, <1>6 DEF Review
    <2>2. \A g \in Faqs : rows'[g].from = rows[g].from
        BY <1>3, <1>7
    <2>3. reviews[r].faq # {}
        BY <1>1, <1>3, <1>6 DEF ReviewSound
    <2>4. ASSUME NEW q \in Reviews
          PROVE  ReviewSound(q)'
        <3>1. CASE q = r
            BY <1>6, <2>1, <2>2, <2>3, <3>1 DEF ReviewSound
        <3>2. CASE q # r
            BY <1>6, <2>1, <2>2, <3>2 DEF ReviewSound
        <3> QED
            BY <3>1, <3>2
    <2> QED
        BY <2>1, <2>4 DEF ReviewsSound
<1> QED
    BY <1>2, <1>9, <1>11, <1>12, <1>13 DEF IInv, Counters

\* convert after its await.
LEMMA ConvertEndsInv ==
    ASSUME IInv, NEW j \in Jobs, ConvertEnds(j)
    PROVE  IInv'
<1>1. Waiting(j, "convert") /\ Done(j) /\ UNCHANGED <<model, boots>>
    BY DEF ConvertEnds
<1>2. CASE TooLate(j, Target(j))
    <2>1. UNCHANGED <<rows, reviews, clock>> /\ Drop(Target(j)) /\ Target(j) \in Faqs
        BY <1>1, <1>2, WaitingJob DEF TooLate, Waiting
    <2>2. RowsSound' /\ JobsSound' /\ ReviewsSound'
        BY <1>1, <2>1, IdleSound, NothingWritten DEF Done
    <2>3. IndexSound'
        BY <2>1, Dropped
    <2> QED
        BY <1>1, <2>1, <2>2, <2>3 DEF IInv, Counters
<1>3. CASE Converted(j, Target(j))
    BY <1>1, <1>3, ConvertedInv
<1> QED
    BY <1>2, <1>3 DEF ConvertEnds

\* dismiss.
LEMMA DismissInv ==
    ASSUME IInv, NEW r \in Reviews, Dismiss(r)
    PROVE  IInv'
<1>1. /\ UNCHANGED <<index, jobs, model, clock, boots>> /\ rows' = WithoutLinked(r)
      /\ reviews' = [reviews EXCEPT ![r] = [status |-> "dismissed", faq |-> {}]]
      /\ \A f \in Linked(r) : ~rows[f].on
    BY DEF Dismiss, MayDismiss
<1>2. /\ rows \in [Faqs -> Row] /\ jobs \in [Jobs -> Job \cup {Idle}] /\ index \in [Faqs -> Entry]
      /\ \A f \in Faqs : RowSound(rows[f], clock) /\ EntrySound(index[f], rows[f], clock)
      /\ reviews \in [Reviews -> Review] /\ \A q \in Reviews : ReviewSound(q)
    BY DEF IInv, RowsSound, JobsSound, IndexSound, ReviewsSound
<1>3. clock \in Nat
    BY FaqAssumption DEF IInv, Counters
<1>4. RowSound(NoRow, clock)
    BY <1>3, NoRowSound
<1>5. \A f \in Faqs : rows'[f] = IF f \in Linked(r) THEN NoRow ELSE rows[f]
    BY <1>1 DEF WithoutLinked
<1>6. RowsSound'
    <2>1. rows' \in [Faqs -> Row]
        BY <1>1, <1>2, <1>4 DEF WithoutLinked, RowSound
    <2>2. \A f \in Faqs : RowSound(rows'[f], clock)
        BY <1>2, <1>4, <1>5
    <2> QED
        BY <1>1, <2>1, <2>2 DEF RowsSound
<1>7. ASSUME NEW f \in Faqs
      PROVE  Kept(rows[f], rows'[f], clock)
    BY <1>5 DEF Kept, NoRow
<1>8. IndexSound'
    <2>1. ASSUME NEW f \in Faqs
          PROVE  EntrySound(index[f], rows'[f], clock')
        <3>1. index[f] # NoEntry => rows'[f].on
            BY <1>1, <1>2, <1>5 DEF EntrySound
        <3>2. rows[f] \in Row /\ rows'[f] \in Row /\ clock' \in {clock, clock + 1}
            BY <1>1, <1>2, <1>6 DEF RowsSound
        <3> QED
            BY <1>2, <1>3, <1>7, <3>1, <3>2, EntryKept
    <2> QED
        BY <1>1, <1>2, <2>1 DEF IndexSound
<1>9. JobsSound'
    <2>1. ASSUME NEW j \in Jobs
          PROVE  JobSound(jobs[j], rows', clock')
        <3>1. JobSound(jobs[j], rows, clock) /\ rows' \in [Faqs -> Row] /\ clock' \in {clock, clock + 1}
            BY <1>1, <1>6 DEF IInv, JobsSound, RowsSound
        <3>2. \A f \in DOMAIN jobs[j].seen : Kept(rows[f], rows'[f], clock)
            <4>1. \A f \in DOMAIN jobs[j].seen : f \in Faqs
                BY <1>2, SeenType
            <4> QED
                BY <1>7, <4>1
        <3> QED
            BY <1>2, <1>3, <3>1, <3>2, JobKept
    <2> QED
        BY <1>1, <1>2, <2>1 DEF JobsSound
<1>10. ReviewsSound'
    <2>1. /\ reviews'[r].status = "dismissed" /\ reviews'[r].faq = {}
          /\ \A q \in Reviews \ {r} : reviews'[q] = reviews[q]
        BY <1>1, <1>2
    <2>2. reviews' \in [Reviews -> Review]
        BY <1>1, <1>2 DEF Review
    <2>3. \A f \in Faqs : f \in Linked(r) <=> rows[f].from = r
        BY <1>2 DEF ReviewSound, Linked
    <2>4. Cardinality({}) = 0
        BY FS_EmptySet
    <2>5. ASSUME NEW q \in Reviews
          PROVE  ReviewSound(q)'
        <3>1. CASE q = r
            <4>1. \A f \in Faqs : rows'[f].from # r
                BY <1>5, <2>3, FaqAssumption DEF NoRow
            <4> QED
                BY <2>1, <2>4, <3>1, <4>1 DEF ReviewSound
        <3>2. CASE q # r
            <4>1. \A f \in Faqs : rows'[f].from = q <=> rows[f].from = q
                BY <1>5, <2>3, <3>2, FaqAssumption DEF NoRow
            <4> QED
                BY <1>2, <2>1, <3>2, <4>1 DEF ReviewSound
        <3> QED
            BY <3>1, <3>2
    <2> QED
        BY <2>2, <2>5 DEF ReviewsSound
<1> QED
    BY <1>1, <1>6, <1>8, <1>9, <1>10 DEF IInv, Counters

-----------------------------------------------------------------------------
(* The theorems.                                                           *)

LEMMA NextInv ==
    ASSUME IInv, [Next]_vars
    PROVE  IInv'
<1>1. CASE UNCHANGED vars
    <2>1. RowsSound' /\ IndexSound' /\ JobsSound'
        BY <1>1 DEF vars, IInv, RowsSound, IndexSound, JobsSound
    <2>2. ReviewsSound' /\ Counters'
        BY <1>1 DEF vars, IInv, ReviewsSound, ReviewSound, Counters
    <2> QED
        BY <2>1, <2>2 DEF IInv
<1>2. ASSUME NEW f \in Faqs, Create(f) \/ Edit(f)
      PROVE  IInv'
    BY <1>2, CreateInv, EditInv
<1>3. CASE Import \/ Refresh
    BY <1>3, ImportInv, RefreshInv
<1>4. ASSUME NEW j \in Jobs,
             \/ EditEnds(j) \/ ImportEnds(j) \/ RefreshEnds(j) \/ ConvertEnds(j)
             \/ EmbedFails(j) \/ Retry(j)
      PROVE  IInv'
    BY <1>4, EditEndsInv, ImportEndsInv, RefreshEndsInv, ConvertEndsInv, EmbedFailsInv, RetryInv
<1>5. ASSUME NEW r \in Reviews, Convert(r) \/ Dismiss(r)
      PROVE  IInv'
    BY <1>5, ConvertInv, DismissInv
<1>6. CASE SwitchModel \/ Crash
    BY <1>6, SwitchModelInv, CrashInv
<1> QED
    BY <1>1, <1>2, <1>3, <1>4, <1>5, <1>6 DEF Next

\* The invariant holds in every state of every instance.
THEOREM FaqInvariant == Spec => []IInv
<1>1. Init => IInv
    BY InitInv
<1>2. IInv /\ [Next]_vars => IInv'
    BY NextInv
<1> QED
    BY <1>1, <1>2, PTL DEF Spec

\* Entries, vectors, reviews and operations have their types.
THEOREM FaqTypes == Spec => []TypeOK
<1>1. IInv => TypeOK
    BY DEF IInv, RowsSound, IndexSound, JobsSound, ReviewsSound, Counters, TypeOK
<1> QED
    BY <1>1, FaqInvariant, PTL

\* For any numbers of entries and operations, no entry that was never the
\* outcome of a review is served by the vector of another text
\* (persistCurrentFaqEmbedding, applySourceRefresh).
THEOREM ServedTextTheorem == Spec => []ServedTextIsCurrent
<1>1. IInv => ServedTextIsCurrent
    <2>1. ASSUME IInv, NEW f \in Faqs, rows[f].from = NoReview, Served(f)
          PROVE  index[f].vec.text = rows[f].text
        <3>1. RowSound(rows[f], clock) /\ EntrySound(index[f], rows[f], clock)
            BY <2>1 DEF IInv, RowsSound, IndexSound
        <3>2. rows[f].on /\ index[f].rev = rows[f].rev
            BY <2>1 DEF Served
        <3>3. rows[f].rev # 0
            BY <3>1, <3>2 DEF RowSound, NoRow
        <3> QED
            BY <2>1, <3>1, <3>2, <3>3 DEF EntrySound
    <2> QED
        BY <2>1 DEF ServedTextIsCurrent
<1> QED
    BY <1>1, FaqInvariant, PTL

\* A dismissed review has no entry, and an entry that is off or removed no
\* vector (dismiss, commitPreparedIndex, removePreparedIndex).
THEOREM DismissTheorem == Spec => []DismissLeavesNothing
<1>1. IInv => DismissLeavesNothing
    <2>1. ASSUME IInv, NEW r \in Reviews, NEW f \in Faqs, reviews[r].status = "dismissed"
          PROVE  rows[f].from # r
        BY <2>1 DEF IInv, ReviewsSound, ReviewSound
    <2>2. ASSUME IInv, NEW f \in Faqs, index[f] # NoEntry
          PROVE  rows[f].on
        BY <2>2 DEF IInv, IndexSound, EntrySound
    <2> QED
        BY <2>1, <2>2 DEF DismissLeavesNothing
<1> QED
    BY <1>1, FaqInvariant, PTL

\* A review has one entry at most, and a converted one keeps it (convert).
THEOREM OneFaqTheorem == Spec => []OneFaqPerReview
<1>1. IInv => OneFaqPerReview
    <2>1. ASSUME IInv, NEW r \in Reviews
          PROVE  {f \in Faqs : rows[f].from = r} = reviews[r].faq
        <3>1. reviews[r].faq \subseteq Faqs
            BY <2>1 DEF IInv, ReviewsSound, Review
        <3> QED
            BY <2>1, <3>1 DEF IInv, ReviewsSound, ReviewSound
    <2> QED
        BY <2>1 DEF IInv, ReviewsSound, ReviewSound, OneFaqPerReview
<1> QED
    BY <1>1, FaqInvariant, PTL
=============================================================================
